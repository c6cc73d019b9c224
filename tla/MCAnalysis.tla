----------------------------- MODULE MCAnalysis ------------------------------
(***************************************************************************)
(* Three families of inputs for TLC: every closure over three packages,    *)
(* many over four, and checkouts with lockfiles.  1 and 4 are two versions *)
(* of p, 2 is q, 3 is r, 5 is p with no version chosen, 6 a Dockerfile.    *)
(***************************************************************************)
EXTENDS AnalysisReference

MCNode == 0 .. 6
MCKind == [n \in MCNode |-> CASE n = 0 -> "root" [] n = 5 -> "requirement"
                              [] n = 6 -> "dockerfile" [] OTHER -> "version"]
MCName == [n \in MCNode |-> CASE n \in {1, 4, 5} -> "p" [] n = 2 -> "q"
                              [] n = 3 -> "r" [] OTHER -> "other"]

Edge(a, b, s) == [from |-> a, to |-> b, spec |-> s]
Ranges(pairs) == {Edge(p[1], p[2], "range") : p \in pairs}
Known(S) == [n \in MCNode |-> IF n \notin S THEN Absent
                              ELSE IF n = 5 THEN Declared("no-resolver") ELSE Resolved]
Reached(E, S) ==
  \A T \in SUBSET S : 0 \in T /\ Closed(T, E) => T = S
Closure(E, S, fs) == [facts |-> Known(S), edges |-> E, files |-> fs]

(* Every closure over the root and three packages.                         *)
Three == {0, 1, 2, 3}
ThreeEdges == {p \in Three \X {1, 2, 3} : p[1] # p[2]}
AllOfThree == {Closure(Ranges(P), Three, <<>>) :
                 P \in {P \in SUBSET ThreeEdges : Reached(Ranges(P), Three)}}

(* Closures over the root and four packages, one of which needs itself,    *)
(* with one or two declared in the manifest.                               *)
Four == {0, 1, 2, 3, 4}
FourEdges == {p \in {1, 2, 3, 4} \X {1, 2, 3, 4} :
                (p[1] # p[2] /\ p \notin {<<4, 2>>, <<2, 1>>}) \/ p = <<3, 3>>}
Declared4 == {{<<0, 1>>}, {<<0, 1>>, <<0, 3>>}}
ManyOfFour == {Closure(Ranges(P), Four, <<>>) :
                 P \in {P \in {D \cup Q : D \in Declared4, Q \in SUBSET FourEdges} :
                          Reached(Ranges(P), Four)}}

(* What a walk leaves of a manifest that asks for p, with a registry and   *)
(* without, next to a Dockerfile that installs q.                          *)
Walked == {
  Closure({Edge(0, 1, "range")}, {0, 1}, <<>>),
  Closure({Edge(0, 5, "range")}, {0, 5}, <<>>),
  Closure({Edge(0, 5, "exact")}, {0, 5}, <<>>),
  Closure({Edge(0, 1, "exact"), Edge(1, 3, "range")}, {0, 1, 3}, <<>>),
  Closure({Edge(0, 6, ""), Edge(6, 2, ""), Edge(0, 5, "range")}, {0, 2, 5, 6}, <<>>)}

Npm(dir, cs)  == [npm |-> TRUE, dir |-> dir, copies |-> cs]
Flat(dir, cs) == [npm |-> FALSE, dir |-> dir, copies |-> cs]
Hoisted == {Copy(<<"p">>, 1), Copy(<<"q">>, 2)}
Nested  == Hoisted \cup {Copy(<<"q", "p">>, 4), Copy(<<"q", "p", "r">>, 3)}
Linked  == {Copy(<<"ws">>, NoNode), Copy(<<"ws", "p">>, 1)}
Files == {
  <<Npm(".", Hoisted)>>, <<Npm(".", Nested)>>, <<Npm(".", Linked)>>,
  <<Npm("web", Nested)>>, <<Npm(".", Nested), Npm("web", Hoisted)>>,
  <<Flat(".", Hoisted)>>, <<Npm(".", Nested), Flat(".", Hoisted)>>, <<Flat(".", Hoisted), Flat("web", {Copy(<<"p">>, 4)})>>}

WithLockfiles == {[w EXCEPT !.files = fs] : w \in Walked, fs \in Files}

MCInputs == AllOfThree \cup ManyOfFour \cup WithLockfiles
NestedInputs == WithLockfiles
==============================================================================
