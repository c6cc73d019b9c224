-------------------------------- MODULE Score --------------------------------
(***************************************************************************)
(* internal/score: one grade from the report's counts.  Points are counted *)
(* in tenths, rounded down.                                                *)
(***************************************************************************)
EXTENDS Integers

MaxVuln == 45
MaxHygiene == 20
MaxControls == 20
MaxPosture == 15

Tenths == 10

Clamp(v, max) == CASE v > max -> max [] v < 0 -> 0 [] OTHER -> v

WeightedSeverity(critical, high, moderate) == critical * 10 + high * 3 + moderate

Sqrt(x) == CHOOSE k \in 0 .. Tenths * MaxVuln : k * k <= x /\ (k + 1) * (k + 1) > x

(* MaxVuln times the root of the density, full at 0.35 per package.        *)
DensityPoints(weighted, checked) ==
  LET full == Tenths * MaxVuln * Tenths * MaxVuln
  IN  IF checked <= 0 THEN 0
      ELSE Sqrt(Clamp((full * weighted * 20) \div (checked * 7), full))

(* The advisories of refs are claims about names: they weigh half.         *)
Vulnerabilities(in) ==
  Clamp(DensityPoints(WeightedSeverity(in.critical, in.high, in.moderate), in.checked)
          + DensityPoints(WeightedSeverity(in.actionCritical, in.actionHigh, in.actionModerate),
                          in.actionsChecked) \div 2,
        Tenths * MaxVuln)

Hygiene(in) ==
  LET floating == in.floating + in.actionsFloating
      total    == floating + in.pinned + in.locked + in.actionsPinned
  IN  IF total > 0 THEN (Tenths * MaxHygiene * floating) \div total ELSE 0

ControlPoints(in) ==
  IF in.controlsAssessable /\ in.controlsTotal > 0
  THEN (Tenths * MaxControls * in.controlsMissing) \div in.controlsTotal ELSE 0

Posture(in) ==
  LET bad == in.unmaintained + in.dangerousWorkflow * 4 + in.unreviewedCode
  IN  IF in.checked > 0
      THEN Clamp((Tenths * MaxPosture * bad) \div in.checked, Tenths * MaxPosture) ELSE 0

Sum(in) == Vulnerabilities(in) + Hygiene(in) + ControlPoints(in) + Posture(in)

(* Malicious code is no term of the sum: it replaces it.                   *)
Points(in) ==
  IF in.malicious > 0 THEN 100 ELSE Clamp((Sum(in) + 5) \div Tenths, 100)

NoGrade == "none"

(* Nothing to grade, or less than half of it read: no grade.  auditable is *)
(* the part of the surface that was audited.                               *)
Suppressed(in) == in.surface = 0 \/ 2 * in.auditable < in.surface

Grade(in) ==
  CASE Suppressed(in) -> NoGrade
    [] ~Suppressed(in) /\ (in.malicious > 0 \/ Points(in) >= 70) -> "F"
    [] ~Suppressed(in) /\ in.malicious = 0 /\ Points(in) \in 50 .. 69 -> "D"
    [] ~Suppressed(in) /\ in.malicious = 0 /\ Points(in) \in 35 .. 49 -> "C"
    [] ~Suppressed(in) /\ in.malicious = 0 /\ Points(in) \in 20 .. 34 -> "B"
    [] OTHER -> "A"

Compute(in) == [grade |-> Grade(in), score |-> Points(in), suppressed |-> Suppressed(in)]
==============================================================================
