-------------------------------- MODULE Report -------------------------------
(***************************************************************************)
(* buildReport, computeExposure, computeScore and the counts of            *)
(* computeReach of cmd/deepdep/report.go: what a report says of a run,     *)
(* given what was read of the store and answered by the network.  The      *)
(* order and wording of its sections are left out.                         *)
(***************************************************************************)
EXTENDS Advisory, Supply, Score, Controls

Packages ==
  {"npm", "pypi", "deb", "apk", "rpm", "cargo", "maven", "golang", "nuget", "gem", "composer",
   "hex", "pub", "conan", "cocoapods", "swift", "cran", "hackage", "terraform", "terraform-cli"}
IsPackage(n) == n.type \in Packages

Inherited == "inherited"   \* the surface of what nobody here named

(* Reasons that put a node outside of the install, on purpose.             *)
NotInstalled == {"dev-not-installed", "extra-not-requested"}

BaselineSignals ==
  {"unattested-source", "no-scorecard", "unpinned-upstream-build", "unsigned-releases",
   "non-standard-license"}

SeverityRank(label) ==
  CASE label = "MALICIOUS" -> 5 [] label = "CRITICAL" -> 4 [] label = "HIGH" -> 3
    [] label = "MODERATE" -> 2 [] label = "LOW" -> 1 [] OTHER -> 0

-----------------------------------------------------------------------------
(* Findings, by severity, by owner and by who can fix them.                *)

Label(f) == SeverityLabel(f.advisory)
Rows(found, label) == {f \in found : Label(f) = label}

Tally(found) ==
  [malicious |-> Cardinality(Rows(found, "MALICIOUS")),
   critical  |-> Cardinality(Rows(found, "CRITICAL")),
   high      |-> Cardinality(Rows(found, "HIGH")),
   other     |-> Cardinality({f \in found : Label(f) \notin {"MALICIOUS", "CRITICAL", "HIGH"}})]

BySeverity(found) ==
  [s \in {"CRITICAL", "HIGH", "MODERATE", "LOW", "UNKNOWN"} |-> Cardinality(Rows(found, s))]

OwnersOf(owners, n) == IF n \in DOMAIN owners /\ owners[n] # {} THEN owners[n] ELSE {"-"}

ByOwner(found, owners) ==
  [o \in UNION {OwnersOf(owners, f.node) : f \in found} |->
     Tally({f \in found : o \in OwnersOf(owners, f.node)})]

IsDirect(surfaces, n) == n \in DOMAIN surfaces /\ surfaces[n] # {}

BucketsOf(surfaces, n) == IF IsDirect(surfaces, n) THEN surfaces[n] ELSE {Inherited}

Exposure(targets, found, surfaces) ==
  LET in(s, nodes) == {n \in nodes : s \in BucketsOf(surfaces, n)}
      affected     == {f.node : f \in found}
      named        == UNION {BucketsOf(surfaces, n) : n \in targets}
  IN  [s \in named |->
         [checked  |-> Cardinality(in(s, targets)),
          affected |-> Cardinality(in(s, affected)),
          worst    |-> Tally({f \in found : s \in BucketsOf(surfaces, f.node)})]]

-----------------------------------------------------------------------------
(* Posture.                                                                *)

Carrying(assessments, code) == {i \in DOMAIN assessments : code \in assessments[i].signals}
Codes(assessments) == UNION {assessments[i].signals : i \in DOMAIN assessments}

Signals(assessments, codes) ==
  [c \in codes \cap Codes(assessments) |->
     [versions |-> Cardinality(Carrying(assessments, c)),
      projects |-> Cardinality({assessments[i].repo : i \in Carrying(assessments, c)} \ {NoRepo})]]

(* What carries risk and no advisory, among what nobody here named.        *)
IndirectRisk(assessments, surfaces, pinning) ==
  LET inherited == {i \in DOMAIN assessments : ~IsDirect(surfaces, assessments[i].node)}
      codes     == UNION {assessments[i].signals : i \in inherited} \ BaselineSignals
      floating  == {n \in DOMAIN pinning : pinning[n] = "floating" /\ ~IsDirect(surfaces, n)}
  IN  [c \in codes \cup (IF floating # {} THEN {"floating-version"} ELSE {}) |->
         IF c = "floating-version" THEN Cardinality(floating)
         ELSE Cardinality(Carrying(assessments, c) \cap inherited)]

-----------------------------------------------------------------------------
(* Coverage.                                                               *)

Actions(nodes)       == {x \in nodes : IsAction(x.id)}
Moving(nodes)        == {x \in Actions(nodes) : x.reason = "unpinned-ref"}
PackageNodes(nodes)  == {x \in nodes : IsPackage(x.id) /\ x.reason \notin NotInstalled}
Frontier(nodes)      == {x \in nodes : x.reason # "" /\ x.completeness \in {"declared", "opaque"}}

Coverage(nodes) ==
  [r \in {x.reason : x \in Frontier(nodes)} |-> Cardinality({x \in Frontier(nodes) : x.reason = r})]

Surface(nodes) == Cardinality(PackageNodes(nodes)) + Cardinality(Actions(nodes))

(* The share is capped at 1: only that part of the surface counts.         *)
Auditable(targets, nodes) ==
  LET audited == Cardinality(targets) + Cardinality(Actions(nodes))
  IN  IF audited > Surface(nodes) THEN Surface(nodes) ELSE audited

-----------------------------------------------------------------------------
(* The score's input.                                                      *)

(* The worst severity of each ref, of those with an advisory at all.       *)
WorstOf(found, n) ==
  CHOOSE s \in {Label(f) : f \in {f \in found : f.node = n}} :
    \A f \in found : f.node = n => SeverityRank(Label(f)) <= SeverityRank(s)

RefsAt(found, label) == Cardinality({n \in {f.node : f \in found} : WorstOf(found, n) = label})

Pinned(pinning, how) == Cardinality({n \in DOMAIN pinning : pinning[n] = how})

Versions(assessments, code) == Cardinality(Carrying(assessments, code))

ScoreInput(targets, found, assessments, nodes, actions, actionsFound, pins) ==
  [checked |-> Cardinality(targets),
   malicious |-> Tally(found).malicious, critical |-> BySeverity(found)["CRITICAL"],
   high |-> BySeverity(found)["HIGH"], moderate |-> BySeverity(found)["MODERATE"],
   actionsChecked |-> Cardinality(actions),
   actionCritical |-> RefsAt(actionsFound, "CRITICAL"),
   actionHigh |-> RefsAt(actionsFound, "HIGH"),
   actionModerate |-> RefsAt(actionsFound, "MODERATE"),
   floating |-> Pinned(pins, "floating"), pinned |-> Pinned(pins, "pinned"),
   locked |-> Pinned(pins, "locked"),
   actionsFloating |-> Cardinality(Moving(nodes)),
   actionsPinned |-> Cardinality(Actions(nodes) \ Moving(nodes)),
   controlsMissing |-> Cardinality(Missing(Detect(nodes))),
   controlsTotal |-> Cardinality(Kinds), controlsAssessable |-> Assessable(nodes),
   unmaintained |-> Versions(assessments, "unmaintained"),
   dangerousWorkflow |-> Versions(assessments, "dangerous-workflow"),
   unreviewedCode |-> Versions(assessments, "unreviewed-code"),
   auditable |-> Auditable(targets, nodes), surface |-> Surface(nodes)]

BuildReport(targets, found, assessments, got, actions, actionsFound) ==
  LET in     == ScoreInput(targets, found, assessments, got.nodes, actions, actionsFound, got.pins)
      direct == {f \in found : IsDirect(got.surfaces, f.node)}
  IN  [checked |-> Cardinality(targets), findings |-> found,
       severities |-> BySeverity(found), owners |-> ByOwner(found, got.owners),
       exposure |-> Exposure(targets, found, got.surfaces),
       signals |-> Signals(assessments, Codes(assessments) \ BaselineSignals),
       baseline |-> Signals(assessments, BaselineSignals),
       risk |-> IndirectRisk(assessments, got.surfaces, got.pinning),
       direct |-> Cardinality(direct), indirect |-> Cardinality(found \ direct),
       actionsChecked |-> Cardinality(actions), actionAdvisories |-> actionsFound,
       actionNodes |-> Cardinality(Actions(got.nodes)), moving |-> Cardinality(Moving(got.nodes)),
       coverage |-> Coverage(got.nodes), controls |-> Detect(got.nodes),
       input |-> in, score |-> Compute(in)]
==============================================================================
