-------------------------------- MODULE Reach --------------------------------
(***************************************************************************)
(* The report's reachability section: Surfaces and PackageEdges of the     *)
(* store, computeReach of the report and Analyse of internal/reach.  Each  *)
(* inherited finding is attributed to the direct dependencies it sits      *)
(* beneath, and a greedy plan picks the bumps that clear the most.         *)
(*                                                                         *)
(* Go ranges over a map in any order where the plan looks for its next     *)
(* pick: Consider takes any dependency not yet looked at.                  *)
(***************************************************************************)
EXTENDS Rollup

CONSTANT PlanDepth
ASSUME PlanDepthAssumption == PlanDepth \in Nat

VARIABLES
  affected,        \* the packages with an inherited finding
  pending, walk, visited, \* the walks to make; the one under way
  sets,            \* of each direct dependency, the affected beneath it
  plan,            \* the picks so far, [direct, affected, new]
  remaining, done, \* the dependencies not picked; the findings cleared
  scan, best, gain \* the search for the next pick

walkVars  == <<affected, pending, walk, visited, sets>>
planVars  == <<plan, remaining, done, scan, best, gain>>
reachVars == <<walkVars, planVars>>

-----------------------------------------------------------------------------
(* Surfaces: a node is first-party when something that is no package       *)
(* points at it; a root edge to a package must carry a spec, or it only    *)
(* says where the package was placed.                                      *)

BuildFile(n) == Kind[n] \in {"dockerfile", "ci"}
SurfaceOf(n) == IF BuildFile(n) THEN Kind[n] ELSE "manifest"

(* Mutant: placement by the lockfile counts as a declaration.              *)
Declaration_Placement(e) == ~IsPackage(e.from)
Declaration(e) ==
  /\ ~IsPackage(e.from)
  /\ BuildFile(e.from) \/ e.spec # "" \/ ~IsPackage(e.to)

Surfaces(n) ==
  {SurfaceOf(e.from) : e \in {e \in edges : e.to = n /\ Declaration(e)}}

Direct == {n \in nodes : IsPackage(n) /\ Surfaces(n) # {}}
PackageEdges == {e \in edges : IsPackage(e.from) /\ IsPackage(e.to)}

-----------------------------------------------------------------------------
(* subtrees: breadth first from a direct dependency, not entering another. *)

(* Mutant: the walk absorbs the subtree of another direct dependency.      *)
NextBelow_ThroughDirect(S) ==
  {e.to : e \in {e \in PackageEdges : e.from \in S}}
NextBelow(S) ==
  {e.to : e \in {e \in PackageEdges : e.from \in S}} \ Direct

(* computeReach: the findings on packages no surface names are inherited.  *)
Attribute(found) ==
  /\ affected' = found \ {n \in Node : Surfaces(n) # {}}
  /\ pending' = IF affected' = {} THEN {} ELSE Direct
  /\ UNCHANGED <<walk, visited, sets, planVars>>

(* One direct dependency after the other, in the order of ids.             *)
BeginWalk ==
  /\ walk = None /\ pending # {}
  /\ walk' = Min(pending) /\ visited' = {walk'} /\ pending' = pending \ {walk'}
  /\ UNCHANGED <<affected, sets, planVars>>

WalkOn ==
  /\ walk # None /\ ~(NextBelow(visited) \subseteq visited)
  /\ visited' = visited \cup NextBelow(visited)
  /\ UNCHANGED <<affected, pending, walk, sets, planVars>>

EndWalk ==
  /\ walk # None /\ NextBelow(visited) \subseteq visited
  /\ sets' = [sets EXCEPT ![walk] = (visited \ {walk}) \cap affected]
  /\ walk' = None
  /\ UNCHANGED <<affected, pending, visited, planVars>>

(* Analyse.                                                                *)
Sets         == {d \in Node : sets[d] # {}}
Owners(x)    == {d \in Sets : x \in sets[d]}
Attributed   == {x \in affected : Owners(x) # {}}
Exclusive(d) == {x \in sets[d] : Owners(x) = {d}}

ReachInit ==
  /\ affected = {} /\ pending = {} /\ walk = None /\ visited = {}
  /\ sets = [d \in Node |-> {}]
  /\ plan = <<>> /\ remaining = {} /\ done = {}
  /\ scan = {} /\ best = None /\ gain = 0

StartPlan ==
  /\ walk = None /\ pending = {}
  /\ remaining' = Sets /\ scan' = Sets
  /\ UNCHANGED <<walkVars, plan, done, best, gain>>

Planning == Len(plan) < PlanDepth

(* Mutant: the first largest gain met wins.                                *)
Better_NoTieBreak(d, n) == n > gain
Better(d, n) == n > gain \/ (n > 0 /\ n = gain /\ d < best)

(* What a bump clears that the picks before it did not.                    *)
Left(d) == Cardinality(sets[d] \ done)

Consider(d) ==
  /\ Planning /\ d \in scan
  /\ scan' = scan \ {d}
  /\ IF Better(d, Left(d)) THEN best' = d /\ gain' = Left(d)
     ELSE UNCHANGED <<best, gain>>
  /\ UNCHANGED <<walkVars, plan, remaining, done>>

(* Mutant: what earlier picks cleared is gained again.                     *)
DoneAfter_Forgotten == sets[best]
DoneAfter == done \cup sets[best]

Pick ==
  /\ Planning /\ scan = {} /\ gain > 0
  /\ plan' = Append(plan, [direct |-> best, affected |-> Cardinality(sets[best]),
                           new |-> gain])
  /\ done' = DoneAfter
  /\ remaining' = remaining \ {best} /\ scan' = remaining'
  /\ best' = None /\ gain' = 0
  /\ UNCHANGED walkVars

(* Mutant: only the limit ends the plan.                                   *)
PlanDone_LimitOnly == ~Planning
PlanDone == ~Planning \/ (scan = {} /\ gain = 0)

Clears == Cardinality(done)
PlanCapped == Clears < Cardinality(Attributed)
Unattributed == Cardinality(affected) - Cardinality(Attributed)
==============================================================================
