-------------------------- MODULE AnalysisReference --------------------------
(***************************************************************************)
(* What the analysis promises, stated without its algorithms: components,  *)
(* chains, blast radius and plan are defined by reachability alone.        *)
(***************************************************************************)
EXTENDS Analysis

(* The pairs <<a, b>> such that b is reached from a along E: b lies in     *)
(* every set of nodes that holds a and is closed under E.                  *)
Closed(S, E) == \A e \in E : e.from \in S => e.to \in S
Reaching(E) ==
  LET closed == {S \in SUBSET nodes : Closed(S, E)}
  IN {p \in nodes \X nodes : \A S \in closed : p[1] \in S => p[2] \in S}

TypeOK ==
  /\ phase \in {"merge", "search", "count", "rolled", "attribute", "plan", "reported"}
  /\ nodes \subseteq Node /\ Root \in nodes
  /\ \A e \in edges : e.from \in nodes /\ e.to \in nodes
  /\ CountTypeOK
  /\ remaining \subseteq Node /\ scan \subseteq remaining /\ done \subseteq affected
  /\ best \in Node \cup {None} /\ (gain = 0 <=> best = None)
  /\ Len(plan) <= PlanDepth

-----------------------------------------------------------------------------
(* Path counts                                                             *)

(* tarjan: two nodes share a component exactly when each reaches the other.*)
ComponentsExact ==
  phase = "count" /\ cur = None =>
    LET reaches == Reaching(edges)
    IN \A a, b \in nodes : comp[a] = comp[b] <=> {<<a, b>>, <<b, a>>} \subseteq reaches

(* The chains from the root's component to c: sets of components that      *)
(* reachability orders, each adjacent to the one after it.                 *)
Chains(c, before) ==
  LET start == comp[Root]
      Follows(S, x, y) == /\ y \in Adj(x)
                          /\ \A z \in S \ {x, y} : <<z, x>> \in before \/ <<y, z>> \in before
  IN {S \in SUBSET Comps :
        /\ {start, c} \subseteq S
        /\ \A z \in S \ {start} : <<start, z>> \in before
        /\ \A x \in S \ {c} : <<x, c>> \in before /\ \E y \in S : Follows(S, x, y)}

(* countPaths: the count of a node is the number of chains of components   *)
(* from the root to it, and the cap when there are more, whatever order    *)
(* the map is ranged over.                                                 *)
CountsExact ==
  phase = "rolled" =>
    LET before == {<<comp[p[1]], comp[p[2]]>> : p \in Reaching(edges)}
    IN \A n \in nodes :
         Paths(n) = Capped(Cardinality(Chains(comp[n], before)))

-----------------------------------------------------------------------------
(* The lockfile in the graph                                               *)

(* Merge and ComputeWith: what a lockfile installs has a version row, the  *)
(* row says so, and some chain leads to it from the root.                  *)
InstalledIsReached ==
  phase = "rolled" =>
    \A i \in Instances(files) :
      /\ i.node \in DOMAIN versionRow
      /\ versionRow[i.node].state = "installed"
      /\ versionRow[i.node].paths > 0

(* merge.go: a root attachment is placement, not declaration.  Merging the *)
(* lockfiles makes no node first-party that no file of the repository      *)
(* names.                                                                  *)
MergeDeclaresNothing ==
  [][phase = "merge" => \A n \in Node : Surfaces(n)' = Surfaces(n)]_vars

-----------------------------------------------------------------------------
(* Blast radius and plan                                                   *)

(* reach.go: the exclusive findings of a direct dependency are the ones    *)
(* its bump alone would clear: without it, nothing direct reaches them.    *)
BumpAloneClears ==
  phase = "reported" =>
    \A d \in Direct :
      LET without == Reaching({e \in PackageEdges : d \notin {e.from, e.to}})
      IN Exclusive(d) = {x \in Attributed :
                           \A o \in Direct \ {d} : <<o, x>> \notin without}

(* Analyse: the pick about to be made is the least of the dependencies     *)
(* that clear the most of what is left, in whatever order the map was      *)
(* ranged over; two reports of one run agree.                              *)
PickIsCanonical ==
  phase = "plan" /\ Planning /\ scan = {} =>
    /\ gain > 0 => best \in remaining /\ gain = Left(best)
    /\ \A d \in remaining :
         Left(d) < gain \/ (Left(d) = gain /\ (gain > 0 => best <= d))

(* What the entries of a plan add up to.                                   *)
TotalNew(p) ==
  LET total[i \in 0 .. Len(p)] == IF i = 0 THEN 0 ELSE total[i - 1] + p[i].new
  IN total[Len(p)]

(* Analyse: an inherited finding is attributed exactly when some direct    *)
(* dependency reaches it; the plan clears what its entries add up to, and  *)
(* unless it says it was cut short, everything attributed sits under one   *)
(* of its picks.                                                           *)
PlanHonest ==
  phase = "reported" =>
    LET beneath == Reaching(PackageEdges)
        picks == {plan[i].direct : i \in DOMAIN plan}
    IN /\ Attributed = {x \in affected : \E d \in Direct : <<d, x>> \in beneath}
       /\ Clears = TotalNew(plan)
       /\ \A x \in done : \E d \in picks : <<d, x>> \in beneath
       /\ ~PlanCapped => done = Attributed
       /\ Len(plan) < PlanDepth => ~PlanCapped

(* Every analysis comes to an end, cycles or not.                          *)
Terminates == <>(phase = "reported")
==============================================================================
