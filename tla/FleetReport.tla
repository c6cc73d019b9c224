----------------------------- MODULE FleetReport -----------------------------
(***************************************************************************)
(* buildOrgReport: the outcomes of an organisation scan, one per listed    *)
(* repository, added up into the fleet's document.  An outcome is known by *)
(* its place in the listing, and a subset of them by the set of places.    *)
(***************************************************************************)
EXTENDS Integers, Sequences, FiniteSets, SequencesExt, FiniteSetsExt, Lists

CONSTANTS
  Surfaces,  \* what exposure is told apart by: manifest, ci, dockerfile, inherited
  Signals,   \* the codes of supply.Codes and "floating-version"
  Grades,    \* A, B, C, D, F
  Kinds,     \* of controls
  Inherited, \* the one surface that is not a file of the repository
  NoGrade    \* of a suppressed score

(* An outcome: the repository and its report, or the error.                *)
Failed(r) == r.failed

(* The keys that were counted at all, with their counts.                   *)
Counted(count) == Restrict(count, {k \in DOMAIN count : count[k] > 0})

(* bucket[key]: all that is not direct is one bucket.                      *)
Cells(p, s) == {e \in p.exposure : e.surface = s}
Checked(p, s)  == MapThenSumSet(LAMBDA e : e.checked, Cells(p, s))
Affected(p, s) == MapThenSumSet(LAMBDA e : e.affected, Cells(p, s))

Row(r) ==
  [repo |-> r.repo, grade |-> r.report.grade, score |-> r.report.score,
   malicious |-> r.report.malicious, critical |-> r.report.critical,
   declared  |-> SumFunction([s \in Surfaces \ {Inherited} |-> Checked(r.report, s)]),
   inherited |-> Checked(r.report, Inherited),
   moving |-> r.report.moving, controls |-> Len(r.report.controls)]

(* Controls are listed by kind and tool: one kind may stand there twice.   *)
OfKind(p, k) == {j \in DOMAIN p.controls : p.controls[j] = k}

InOrder(S) == Sorted(S, {e \in S \X S : e[1] < e[2]})

(* Worst first: malicious, critical, score, and otherwise as listed.       *)
Worse(a, b, i, j) ==
  CASE a.malicious # b.malicious -> a.malicious > b.malicious
    [] a.malicious = b.malicious /\ a.critical # b.critical -> a.critical > b.critical
    [] a.malicious = b.malicious /\ a.critical = b.critical /\ a.score # b.score ->
         a.score > b.score
    [] OTHER -> i < j
WorstFirst(S, reports) ==
  Sorted(S, {e \in S \X S : Worse(reports[e[1]], reports[e[2]], e[1], e[2])})

(* The introducers by name: one library in nine versions is one upgrade.   *)
Named(reports) == {in.name : in \in UNION {reports[i].introducers : i \in DOMAIN reports}}
Entries(p, name) == {in \in p.introducers : in.name = name}
Introducer(reports, name) ==
  [name |-> name,
   repos |-> SumFunction([i \in DOMAIN reports |-> Cardinality(Entries(reports[i], name))]),
   affected |-> SumFunction([i \in DOMAIN reports |->
                  MapThenSumSet(LAMBDA in : in.affected, Entries(reports[i], name))])]

(* sort.Ints and the element in the middle, the upper of two.              *)
Median(score) ==
  LET D == DOMAIN score
      less == {e \in D \X D : \/ score[e[1]] < score[e[2]]
                              \/ score[e[1]] = score[e[2]] /\ e[1] < e[2]} IN
  IF D = {} THEN 0 ELSE score[Sorted(D, less)[(Cardinality(D) \div 2) + 1]]

BuildOrgReport(results) ==
  LET bad    == {i \in DOMAIN results : Failed(results[i])}
      rows   == DOMAIN results \ bad
      p      == [i \in rows |-> results[i].report]
      graded == {i \in rows : ~p[i].suppressed}
      empty  == {i \in rows : p[i].suppressed /\ p[i].surface = 0}
      checkable == {i \in rows : p[i].assessable}
      RiskOf(i, c) == IF c \in DOMAIN p[i].risk THEN p[i].risk[c] ELSE 0 IN
  [total    |-> Len(results), failed |-> Cardinality(bad), scanned |-> Cardinality(rows),
   graded   |-> Cardinality(graded), ungraded |-> Cardinality(rows \ graded),
   empty    |-> Cardinality(empty),
   median   |-> Median([i \in graded |-> p[i].score]),
   grades   |-> Counted([g \in Grades |-> Cardinality({i \in graded : p[i].grade = g})]),
   exposure |-> [s \in {x \in Surfaces : \E i \in rows : Cells(p[i], x) # {}}
                   |-> [checked  |-> SumFunction([i \in rows |-> Checked(p[i], s)]),
                        affected |-> SumFunction([i \in rows |-> Affected(p[i], s)])]],
   risk     |-> Counted([c \in Signals |-> SumFunction([i \in rows |-> RiskOf(i, c)])]),
   direct   |-> SumFunction([i \in rows |-> p[i].direct]),
   indirect |-> SumFunction([i \in rows |-> p[i].indirect]),
   introducers |-> {Introducer(p, n) : n \in Named(p)},
   moving   |-> SumFunction([i \in rows |-> p[i].moving]),
   actions  |-> SumFunction([i \in rows |-> p[i].actions]),
   flagged  |-> Cardinality({i \in rows : p[i].flagged}),
   assessable |-> Cardinality(checkable),
   uncontrolled |-> Cardinality({i \in checkable : p[i].controls = <<>>}),
   controls |-> Counted([k \in Kinds |->
                  SumFunction([i \in checkable |-> Cardinality(OfKind(p[i], k))])]),
   repos    |-> LET worst == WorstFirst(rows, p) IN
                [k \in 1..Cardinality(rows) |-> Row(results[worst[k]])],
   failures |-> LET order == InOrder(bad) IN
                [k \in 1..Cardinality(bad) |-> results[order[k]].repo]]
==============================================================================
