--------------------------- MODULE AnalysisProofs ----------------------------
(***************************************************************************)
(* Proofs about the analysis, for every graph, every lockfile and every    *)
(* set of findings: merging the lockfiles declares nothing and what they   *)
(* install is reached, components and path counts are exact, each pick of  *)
(* the plan depends on no iteration order, and attribution and plan are    *)
(* what reachability says.                                                 *)
(***************************************************************************)
EXTENDS AnalysisReference, FiniteSetTheorems, SequenceTheorems, Lists, TLAPS

LEMMA NoneIsNoNode == None \notin Node
  BY CountAssumption DEF None

(* The lockfiles stay those of the input, and so name package versions     *)
(* only, each under a path of at least one name.                           *)
FilesInv ==
  \A k \in DOMAIN files : \A c \in files[k].copies :
    /\ c.node = NoNode \/ (c.node \in Node /\ Kind[c.node] = "version")
    /\ c.path \in Seq(STRING) \ {<<>>}

LEMMA FilesInvHolds == Spec => []FilesInv
<1>1. Init => FilesInv
  BY InputsAssumption DEF Init, FilesInv
<1>2. FilesInv /\ [Next]_vars => FilesInv'
  BY DEF FilesInv, Next, Merge, Search, Condense, Count, RollUp, Audit, Walk,
         Plan, PlanBumps, Report, vars
<1>. QED BY <1>1, <1>2, PTL DEF Spec

(* What the lockfiles install are package versions.                        *)
LEMMA InstancesAreVersions ==
  ASSUME FilesInv
  PROVE  \A i \in Instances(files) : i.node \in Node /\ Kind[i.node] = "version"
<1>. SUFFICES ASSUME NEW i \in Instances(files)
              PROVE  i.node \in Node /\ Kind[i.node] = "version"
  OBVIOUS
<1>1. PICK k \in DOMAIN files : i \in Resolve(files[k])
  BY DEF Instances
<1>2. PICK c \in files[k].copies : c.node # NoNode /\ i.node = c.node
  BY <1>1 DEF Resolve
<1>. QED BY <1>2 DEF FilesInv

(* No edge Merge adds is a declaration: it leaves a package, or it leaves  *)
(* the root without a spec.                                                *)
LEMMA PlacementDeclaresNothing ==
  ASSUME FilesInv, NEW e \in MergedEdges(edges, Instances(files), Root), e \notin edges
  PROVE  ~Declaration(e)
<1>. DEFINE inst0 == Instances(files)
<1>1. PICK i \in inst0 :
        e = [from |-> Placement(inst0, i, Root), to |-> i.node, spec |-> ""]
  BY DEF MergedEdges
<1>2. IsPackage(e.to) /\ e.spec = ""
  BY <1>1, InstancesAreVersions DEF IsPackage
<1>3. CASE Placement(inst0, i, Root) = Root
  <2>1. Kind[e.from] = "root"
    BY <1>1, <1>3, NodeDataAssumption
  <2>. QED BY <2>1, <1>2 DEF Declaration, BuildFile
<1>4. CASE Placement(inst0, i, Root) # Root
  <2>1. PICK p \in inst0 : Placement(inst0, i, Root) = p.node
    BY <1>4 DEF Placement
  <2>2. IsPackage(e.from)
    BY <1>1, <2>1, InstancesAreVersions DEF IsPackage
  <2>. QED BY <2>2 DEF Declaration
<1>. QED BY <1>3, <1>4

(* merge.go: merging the lockfiles makes no node first-party.              *)
THEOREM AnalysisMergeDeclaresNothing == Spec => MergeDeclaresNothing
<1>. DEFINE Same == phase = "merge" => \A n \in Node : Surfaces(n)' = Surfaces(n)
<1>1. FilesInv /\ [Next]_vars => [Same]_vars
  <2>. SUFFICES ASSUME FilesInv, Next, phase = "merge"
                PROVE  \A n \in Node : Surfaces(n)' = Surfaces(n)
    OBVIOUS
  <2>1. edges' = MergedEdges(edges, Instances(files), Root)
    BY DEF Next, Merge, Search, Condense, Count, RollUp, Audit, Walk, Plan,
           PlanBumps, Report
  <2>2. edges \subseteq edges' /\ \A e \in edges' \ edges : ~Declaration(e)
    BY <2>1, PlacementDeclaresNothing DEF MergedEdges
  <2>. QED BY <2>2 DEF Surfaces, Declaration
<1>. QED BY <1>1, FilesInvHolds, PTL DEF Spec, MergeDeclaresNothing

-----------------------------------------------------------------------------
(* The invariant of the plan.  Before the plan nothing remains to be       *)
(* picked; while it is made, best is the least of the dependencies looked  *)
(* at that clear the most, and that is what a completed scan leaves.       *)
PlanTypeInv ==
  /\ DOMAIN facts = Node /\ nodes \subseteq Node /\ DOMAIN versionRow \subseteq Node
  /\ affected \subseteq Node /\ sets \in [Node -> SUBSET Node]
  /\ remaining \subseteq Node /\ scan \subseteq remaining
  /\ gain \in Nat

ScanInv ==
  LET looked == remaining \ scan
  IN /\ gain > 0 => best \in looked /\ gain = Left(best)
     /\ \A d \in looked :
          Left(d) < gain \/ (Left(d) = gain /\ (gain > 0 => best <= d))

BeforePlan == phase \notin {"plan", "reported"} => remaining = {} /\ gain = 0

PlanInv == PlanTypeInv /\ ScanInv /\ BeforePlan

(* What a bump clears is a number.                                         *)
LEMMA LeftIsNat ==
  ASSUME PlanTypeInv, NEW d \in Node
  PROVE  Left(d) \in Nat
<1>1. sets[d] \ done \subseteq Node
  BY DEF PlanTypeInv
<1>2. IsFiniteSet(sets[d] \ done)
  BY <1>1, CountAssumption, FS_Subset
<1>. QED BY <1>2, FS_CardinalityType DEF Left

LEMMA PlanInvInit == Init => PlanInv
<1>. SUFFICES ASSUME Init PROVE PlanInv
  OBVIOUS
<1>1. PICK i \in Inputs : facts = i.facts /\ nodes = Present(i.facts)
  BY DEF Init
<1>2. DOMAIN facts = Node /\ nodes \subseteq Node
  BY <1>1, InputsAssumption DEF Present
<1>. QED BY <1>2 DEF Init, ReachInit, NoRows, PlanInv, PlanTypeInv, ScanInv, BeforePlan

(* A dependency looked at: best and gain stay the best of those looked at. *)
LEMMA ConsiderKeepsScan ==
  ASSUME PlanInv, NEW d \in scan, Consider(d), UNCHANGED <<facts, nodes, versionRow>>
  PROVE  PlanTypeInv' /\ ScanInv'
<1>. USE DEF PlanInv
<1>1. d \in Node /\ Left(d) \in Nat /\ gain \in Nat
  BY LeftIsNat DEF PlanTypeInv
<1>2. /\ remaining' = remaining /\ done' = done /\ sets' = sets
      /\ scan' = scan \ {d}
  BY DEF Consider, walkVars
<1>3. \A x : Left(x)' = Left(x)
  BY <1>2 DEF Left
<1>4. remaining' \ scan' = (remaining \ scan) \cup {d}
  BY <1>2 DEF PlanTypeInv
<1>5. \A x \in remaining \cup {d} : x \in Nat /\ Left(x) \in Nat
  BY <1>1, LeftIsNat, CountAssumption DEF PlanTypeInv
<1>6. CASE Better(d, Left(d))
  <2>1. best' = d /\ gain' = Left(d)
    BY <1>6 DEF Consider
  <2>2. gain' > 0
    BY <1>1, <1>6, <2>1 DEF Better
  <2>3. \A x \in remaining \ scan : Left(x) < gain' \/ (Left(x) = gain' /\ d <= x)
    <3>. SUFFICES ASSUME NEW x \in remaining \ scan
                  PROVE  Left(x) < gain' \/ (Left(x) = gain' /\ d <= x)
      OBVIOUS
    <3>1. Left(x) < gain \/ (Left(x) = gain /\ (gain > 0 => best <= x))
      BY DEF ScanInv
    <3>2. Left(x) \in Nat /\ x \in Nat /\ d \in Nat
      BY <1>5
    <3>3. CASE Left(d) > gain
      BY <3>1, <3>2, <3>3, <1>1, <2>1
    <3>4. CASE Left(d) > 0 /\ Left(d) = gain /\ d < best
      <4>1. best \in Nat
        BY <3>4, <1>5 DEF ScanInv
      <4>. QED BY <3>1, <3>2, <3>4, <4>1, <1>1, <2>1
    <3>. QED BY <1>6, <3>3, <3>4 DEF Better
  <2>4. d <= d
    BY <1>5
  <2>5. PlanTypeInv'
    BY <1>1, <1>2, <2>1 DEF PlanTypeInv, Consider, walkVars
  <2>6. best' \in remaining' \ scan' /\ gain' = Left(best)'
    BY <1>2, <1>4, <2>1 DEF Left
  <2>7. \A x \in remaining' \ scan' :
          Left(x)' < gain' \/ (Left(x)' = gain' /\ (gain' > 0 => best' <= x))
    BY <1>3, <1>4, <2>1, <2>3, <2>4
  <2>. QED BY <2>5, <2>6, <2>7 DEF ScanInv, Left
<1>7. CASE ~Better(d, Left(d))
  <2>1. best' = best /\ gain' = gain
    BY <1>7 DEF Consider
  <2>2. Left(d) <= gain /\ (gain > 0 /\ Left(d) = gain => ~(d < best))
    BY <1>1, <1>7 DEF Better
  <2>3. Left(d) < gain \/ (Left(d) = gain /\ (gain > 0 => best <= d))
    <3>1. gain > 0 => best \in Nat /\ d \in Nat
      BY <1>5 DEF ScanInv
    <3>. QED BY <1>1, <2>2, <3>1
  <2>4. PlanTypeInv'
    BY <1>1, <1>2, <2>1 DEF PlanTypeInv, Consider, walkVars
  <2>5. gain' > 0 => best' \in remaining' \ scan' /\ gain' = Left(best)'
    BY <1>2, <1>4, <2>1 DEF ScanInv, Left
  <2>6. \A x \in remaining' \ scan' :
          Left(x)' < gain' \/ (Left(x)' = gain' /\ (gain' > 0 => best' <= x))
    BY <1>3, <1>4, <2>1, <2>3 DEF ScanInv
  <2>. QED BY <2>4, <2>5, <2>6 DEF ScanInv, Left
<1>. QED BY <1>6, <1>7

LEMMA PlanInvStep == PlanInv /\ [Next]_vars => PlanInv'
<1>. SUFFICES ASSUME PlanInv, [Next]_vars PROVE PlanInv'
  OBVIOUS
<1>. USE DEF PlanInv
<1>1. CASE Merge
  <2>1. DOMAIN facts' = Node /\ nodes' \subseteq Node
    BY <1>1 DEF Merge, MergedFacts, AddAll, Present, PlanTypeInv
  <2>. QED BY <1>1, <2>1 DEF Merge, PlanTypeInv, ScanInv, BeforePlan, Left,
                             reachVars, walkVars, planVars
<1>2. CASE Search \/ Condense \/ Count \/ Report \/ UNCHANGED vars
  BY <1>2 DEF Search, Condense, Count, Report, vars, graphVars, reachVars,
              walkVars, planVars, PlanTypeInv, ScanInv, BeforePlan, Left
<1>3. CASE RollUp
  <2>1. DOMAIN versionRow' \subseteq Node
    BY <1>3 DEF RollUp, VersionRows, RowNodes, PlanTypeInv
  <2>. QED BY <1>3, <2>1 DEF RollUp, graphVars, reachVars, walkVars, planVars,
                             PlanTypeInv, ScanInv, BeforePlan, Left
<1>4. CASE Audit
  <2>1. PICK found \in SUBSET DOMAIN versionRow : Attribute(found)
    BY <1>4 DEF Audit
  <2>2. affected' \subseteq Node
    BY <2>1 DEF Attribute, PlanTypeInv
  <2>. QED BY <1>4, <2>1, <2>2 DEF Audit, Attribute, graphVars, planVars,
                                   PlanTypeInv, ScanInv, BeforePlan, Left
<1>5. CASE Walk
  <2>1. sets' \in [Node -> SUBSET Node] /\ affected' = affected
    BY <1>5 DEF Walk, BeginWalk, WalkOn, EndWalk, PlanTypeInv
  <2>2. UNCHANGED <<phase, facts, nodes, versionRow, planVars>>
    BY <1>5 DEF Walk, BeginWalk, WalkOn, EndWalk, graphVars
  <2>3. remaining = {} /\ gain = 0
    BY <1>5 DEF Walk, BeforePlan
  <2>. QED BY <2>1, <2>2, <2>3 DEF planVars, PlanTypeInv, ScanInv, BeforePlan
<1>6. CASE Plan
  BY <1>6 DEF Plan, StartPlan, Sets, graphVars, walkVars, PlanTypeInv, ScanInv,
              BeforePlan, Left
<1>7. CASE PlanBumps
  <2>1. phase = "plan" /\ UNCHANGED <<phase, facts, nodes, versionRow>>
    BY <1>7 DEF PlanBumps, graphVars
  <2>2. CASE Pick
    <3>1. /\ gain' = 0 /\ scan' = remaining' /\ remaining' \subseteq remaining
          /\ UNCHANGED <<affected, sets>>
      BY <2>2 DEF Pick, walkVars
    <3>. QED BY <2>1, <3>1 DEF PlanTypeInv, ScanInv, BeforePlan
  <2>3. CASE \E d \in scan : Consider(d)
    <3>1. PlanTypeInv' /\ ScanInv'
      BY <2>1, <2>3, ConsiderKeepsScan
    <3>. QED BY <2>1, <3>1 DEF BeforePlan
  <2>. QED BY <1>7, <2>2, <2>3 DEF PlanBumps
<1>. QED BY <1>1, <1>2, <1>3, <1>4, <1>5, <1>6, <1>7 DEF Next

(* Analyse: every pick is the least of the dependencies that clear the     *)
(* most of what is left.                                                   *)
THEOREM AnalysisPickIsCanonical == Spec => []PickIsCanonical
<1>1. PlanInv => PickIsCanonical
  BY DEF PlanInv, PlanTypeInv, ScanInv, PickIsCanonical
<1>. QED BY <1>1, PlanInvInit, PlanInvStep, PTL DEF Spec

-----------------------------------------------------------------------------
(* The blast radius.  The walk from a direct dependency looks for what no  *)
(* set closed under NextBelow can leave out once it holds the dependency.  *)
Below(d) ==
  {n \in nodes : \A S \in SUBSET nodes : d \in S /\ NextBelow(S) \subseteq S => n \in S}

(* The walk and the lockfiles link known nodes, and a finding is on one.   *)
GraphInv ==
  /\ DOMAIN facts = Node /\ nodes = Present(facts) /\ Root \in nodes
  /\ \A e \in edges : e.from \in nodes /\ e.to \in nodes
  /\ DOMAIN versionRow \subseteq nodes

LEMMA DirectIsNode == Direct \subseteq nodes /\ \A d \in Direct : Surfaces(d) # {}
  BY DEF Direct

LEMMA NextBelowIsMonotone ==
  ASSUME GraphInv, NEW S, NEW T, S \subseteq T
  PROVE  NextBelow(S) \subseteq NextBelow(T) /\ NextBelow(S) \subseteq nodes
  BY DEF GraphInv, NextBelow, PackageEdges

(* Below(d) is the least closed set of nodes that holds d.                 *)
LEMMA BelowIsLeast ==
  ASSUME GraphInv, NEW d \in nodes
  PROVE  /\ d \in Below(d) /\ NextBelow(Below(d)) \subseteq Below(d)
         /\ \A S \in SUBSET nodes : d \in S /\ NextBelow(S) \subseteq S => Below(d) \subseteq S
<1>1. d \in Below(d)
  BY DEF Below
<1>2. \A S \in SUBSET nodes : d \in S /\ NextBelow(S) \subseteq S => Below(d) \subseteq S
  BY DEF Below
<1>3. ASSUME NEW n \in NextBelow(Below(d)) PROVE n \in Below(d)
  <2>1. n \in nodes
    BY <1>3, NextBelowIsMonotone
  <2>. SUFFICES ASSUME NEW S \in SUBSET nodes, d \in S, NextBelow(S) \subseteq S
                PROVE  n \in S
    BY <2>1 DEF Below
  <2>2. Below(d) \subseteq S
    BY <1>2
  <2>3. NextBelow(Below(d)) \subseteq NextBelow(S)
    BY <2>2, NextBelowIsMonotone
  <2>. QED BY <1>3, <2>3
<1>. QED BY <1>1, <1>2, <1>3

(* Together, what lies below several direct dependencies is closed under   *)
(* every edge between packages that does not lead to another one.          *)
LEMMA BelowTogether ==
  ASSUME GraphInv, NEW D \in SUBSET Direct, NEW e \in PackageEdges,
         e.from \in UNION {Below(o) : o \in D}, e.to \in Direct => e.to \in D
  PROVE  e.to \in UNION {Below(o) : o \in D}
<1>1. PICK o \in D : e.from \in Below(o)
  OBVIOUS
<1>2. o \in nodes
  BY DirectIsNode
<1>3. CASE e.to \in Direct
  <2>1. e.to \in Below(e.to)
    BY <1>3, BelowIsLeast, DirectIsNode
  <2>. QED BY <1>3, <2>1
<1>4. CASE e.to \notin Direct
  <2>1. e.to \in NextBelow(Below(o))
    BY <1>1, <1>4 DEF NextBelow
  <2>2. e.to \in Below(o)
    BY <1>2, <2>1, BelowIsLeast
  <2>. QED BY <2>2
<1>. QED BY <1>3, <1>4

(* A package that is not direct lies beneath one exactly when it lies      *)
(* below one, for the walk stops at nothing but the others.                *)
LEMMA BeneathIsBelow ==
  ASSUME GraphInv, NEW x \in nodes
  PROVE  /\ \A d \in Direct : x \in Below(d) => <<d, x>> \in Reaching(PackageEdges)
         /\ (\E d \in Direct : <<d, x>> \in Reaching(PackageEdges))
              => \E d \in Direct : x \in Below(d)
<1>1. ASSUME NEW d \in Direct, x \in Below(d) PROVE <<d, x>> \in Reaching(PackageEdges)
  <2>1. d \in nodes
    BY DirectIsNode
  <2>. SUFFICES ASSUME NEW S \in SUBSET nodes, Closed(S, PackageEdges), d \in S
                PROVE  x \in S
    BY <2>1 DEF Reaching
  <2>2. NextBelow(S) \subseteq S
    BY DEF Closed, NextBelow
  <2>. QED BY <1>1, <2>2 DEF Below
<1>2. ASSUME NEW d \in Direct, <<d, x>> \in Reaching(PackageEdges)
      PROVE  \E o \in Direct : x \in Below(o)
  <2>. DEFINE all == UNION {Below(o) : o \in Direct}
  <2>1. all \in SUBSET nodes
    BY DEF Below
  <2>2. d \in all
    BY BelowIsLeast, DirectIsNode
  <2>3. Closed(all, PackageEdges)
    <3>. SUFFICES ASSUME NEW e \in PackageEdges, e.from \in all PROVE e.to \in all
      BY DEF Closed
    <3>. QED BY BelowTogether
  <2>4. x \in all
    BY <1>2, <2>1, <2>2, <2>3 DEF Reaching
  <2>. QED BY <2>4
<1>. QED BY <1>1, <1>2

(* The same without d: what lies below another direct dependency is what   *)
(* another one still reaches when the edges at d are gone.                 *)
LEMMA BelowWithout ==
  ASSUME GraphInv, NEW x \in nodes, x \notin Direct, NEW d \in Direct
  PROVE  LET without == Reaching({e \in PackageEdges : d \notin {e.from, e.to}})
         IN (\E o \in Direct \ {d} : x \in Below(o))
              <=> \E o \in Direct \ {d} : <<o, x>> \in without
<1>. DEFINE E == {e \in PackageEdges : d \notin {e.from, e.to}}
<1>1. ASSUME NEW o \in Direct \ {d}, x \in Below(o) PROVE <<o, x>> \in Reaching(E)
  <2>1. o \in nodes
    BY DirectIsNode
  <2>. SUFFICES ASSUME NEW S \in SUBSET nodes, Closed(S, E), o \in S
                PROVE  x \in S
    BY <2>1 DEF Reaching
  <2>. DEFINE T == {n \in S : n = o \/ n \notin Direct}
  <2>2. NextBelow(T) \subseteq T
    <3>. SUFFICES ASSUME NEW e \in PackageEdges, e.from \in T, e.to \notin Direct
                  PROVE  e.to \in S
      BY DEF NextBelow
    <3>1. e \in E
      OBVIOUS
    <3>. QED BY <3>1 DEF Closed
  <2>3. T \in SUBSET nodes /\ o \in T
    OBVIOUS
  <2>. QED BY <1>1, <2>2, <2>3 DEF Below
<1>2. ASSUME NEW o \in Direct \ {d}, <<o, x>> \in Reaching(E)
      PROVE  \E c \in Direct \ {d} : x \in Below(c)
  <2>. DEFINE all == UNION {Below(c) : c \in Direct \ {d}}
  <2>1. all \in SUBSET nodes
    BY DEF Below
  <2>2. o \in all
    BY BelowIsLeast, DirectIsNode
  <2>3. Closed(all, E)
    <3>. SUFFICES ASSUME NEW e \in E, e.from \in all PROVE e.to \in all
      BY DEF Closed
    <3>1. e \in PackageEdges /\ (e.to \in Direct => e.to \in Direct \ {d})
      OBVIOUS
    <3>. QED BY <3>1, BelowTogether
  <2>4. x \in all
    BY <1>2, <2>1, <2>2, <2>3 DEF Reaching
  <2>. QED BY <2>4
<1>. QED BY <1>1, <1>2

-----------------------------------------------------------------------------
(* The invariant of the attribution.  Nothing is attributed before the     *)
(* audit; then every direct dependency whose walk is over has exactly the  *)
(* affected packages below it, and the walk under way has left its own     *)
(* reach at no point.                                                      *)
NotYet == phase \in {"merge", "search", "count", "rolled"} => ReachInit

AttributeInv ==
  /\ affected \subseteq nodes /\ \A n \in affected : Surfaces(n) = {}
  /\ pending \subseteq Direct /\ walk \in Direct \cup {None}
  /\ walk # None => walk \in visited /\ visited \subseteq Below(walk) /\ walk \notin pending
  /\ sets = [d \in Node |-> IF d \in Direct \ (pending \cup {walk})
                            THEN Below(d) \cap affected ELSE {}]

Walked == phase \in {"plan", "reported"} => walk = None /\ pending = {}

ReachInv == GraphInv /\ NotYet /\ AttributeInv /\ Walked

LEMMA NothingAttributed ==
  ASSUME ReachInit
  PROVE  AttributeInv
<1>1. sets = [d \in Node |-> IF d \in Direct \ (pending \cup {walk})
                             THEN Below(d) \cap affected ELSE {}]
  BY DEF ReachInit
<1>. QED BY <1>1 DEF ReachInit, AttributeInv

LEMMA ReachInvInit == Init => ReachInv
<1>. SUFFICES ASSUME Init PROVE ReachInv
  OBVIOUS
<1>1. PICK i \in Inputs : facts = i.facts /\ edges = i.edges /\ nodes = Present(i.facts)
  BY DEF Init
<1>2. GraphInv
  BY <1>1, InputsAssumption DEF Init, NoRows, GraphInv
<1>. QED BY <1>2, NothingAttributed DEF Init, ReachInv, NotYet, Walked

(* Merge: the copies a lockfile installs are nodes before they are linked. *)
LEMMA MergeKeepsGraph ==
  ASSUME GraphInv, FilesInv, Merge
  PROVE  GraphInv' /\ nodes \subseteq nodes'
<1>. DEFINE got == Instances(files)
            ids == {i.node : i \in got}
<1>1. /\ facts' = AddAll(facts, ids, Resolved) /\ nodes' = Present(facts')
      /\ edges' = MergedEdges(edges, got, Root) /\ versionRow' = versionRow
  BY DEF Merge, MergedFacts
<1>2. DOMAIN facts' = Node
  BY <1>1 DEF AddAll, GraphInv
<1>3. \A n \in Node : n \in nodes' <=> facts'[n].comp # "absent"
  BY <1>1, <1>2 DEF Present
<1>4. Resolved.comp = "resolved"
  BY DEF Resolved, Fact
<1>5. ASSUME NEW n \in nodes PROVE n \in nodes'
  <2>1. n \in Node /\ facts[n].comp # "absent"
    BY DEF GraphInv, Present
  <2>2. facts'[n] = facts[n] \/ facts'[n] = Resolved
    BY <1>1, <2>1 DEF AddAll, Upgrade, GraphInv
  <2>. QED BY <2>1, <2>2, <1>3, <1>4
<1>6. ASSUME NEW n \in ids PROVE n \in nodes'
  <2>1. n \in Node
    BY InstancesAreVersions
  <2>2. facts'[n] = Upgrade(facts[n], Resolved)
    BY <1>1, <2>1 DEF AddAll, GraphInv
  <2>3. CASE facts[n].comp = "absent"
    <3>1. Rank(facts[n].comp) = -1 /\ Rank(Resolved.comp) = 3
      BY <2>3 DEF Rank, Resolved, Fact
    <3>2. facts'[n] = Resolved
      BY <2>2, <3>1 DEF Upgrade
    <3>. QED BY <2>1, <3>2, <1>3, <1>4
  <2>4. CASE facts[n].comp # "absent"
    <3>1. facts'[n] = facts[n] \/ facts'[n] = Resolved
      BY <2>2 DEF Upgrade
    <3>. QED BY <2>1, <2>4, <3>1, <1>3, <1>4
  <2>. QED BY <2>3, <2>4
<1>7. \A i \in got : Placement(got, i, Root) \in {Root} \cup ids
  BY DEF Placement
<1>8. ASSUME NEW e \in edges' PROVE e.from \in nodes' /\ e.to \in nodes'
  <2>1. CASE e \in edges
    BY <2>1, <1>5 DEF GraphInv
  <2>2. CASE e \notin edges
    <3>1. PICK i \in got :
            e = [from |-> Placement(got, i, Root), to |-> i.node, spec |-> ""]
      BY <1>1, <2>2 DEF MergedEdges
    <3>2. e.from \in {Root} \cup ids /\ e.to \in ids
      BY <3>1, <1>7
    <3>. QED BY <3>2, <1>5, <1>6 DEF GraphInv
  <2>. QED BY <2>1, <2>2
<1>. QED BY <1>1, <1>2, <1>5, <1>8 DEF GraphInv

(* What a walk finds below it stays below it; when the walk ends it has    *)
(* found all of that.                                                      *)
LEMMA WalkKeepsAttribution ==
  ASSUME ReachInv, BeginWalk \/ WalkOn \/ EndWalk, UNCHANGED <<nodes, edges>>
  PROVE  AttributeInv'
<1>. USE DEF ReachInv
<1>1. Direct' = Direct /\ \A n : Surfaces(n)' = Surfaces(n)
  BY DEF Direct, Surfaces, Declaration
<1>2. \A n : Below(n)' = Below(n)
  BY <1>1 DEF Below, NextBelow, PackageEdges
<1>3. Direct \subseteq Node /\ None \notin Direct /\ \A d \in Direct : d \notin affected
  BY DirectIsNode, NoneIsNoNode DEF GraphInv, Present, AttributeInv
<1>4. affected' = affected
  BY DEF BeginWalk, WalkOn, EndWalk
<1>5. CASE BeginWalk
  <2>1. /\ pending # {} /\ pending \subseteq Nat
        /\ walk' = Min(pending) /\ visited' = {walk'} /\ pending' = pending \ {walk'}
        /\ walk = None /\ sets' = sets
    BY <1>3, <1>5, CountAssumption DEF BeginWalk, AttributeInv
  <2>2. walk' \in pending
    <3>1. \E n \in pending : \A m \in pending : n <= m
      BY <2>1, NatMin
    <3>. QED BY <2>1, <3>1 DEF Min
  <2>3. walk' \in Below(walk')
    BY <2>2, BelowIsLeast, DirectIsNode DEF AttributeInv
  <2>4. Direct \ (pending' \cup {walk'}) = Direct \ (pending \cup {walk})
    BY <1>3, <2>1, <2>2
  <2>. QED BY <1>1, <1>2, <1>3, <1>4, <2>1, <2>2, <2>3, <2>4 DEF AttributeInv
<1>6. CASE WalkOn
  <2>1. /\ walk # None /\ visited' = visited \cup NextBelow(visited)
        /\ pending' = pending /\ walk' = walk /\ sets' = sets
    BY <1>6 DEF WalkOn
  <2>2. visited \subseteq Below(walk) /\ walk \in nodes
    BY <2>1, DirectIsNode DEF AttributeInv
  <2>3. NextBelow(visited) \subseteq Below(walk)
    BY <2>2, BelowIsLeast, NextBelowIsMonotone
  <2>. QED BY <1>1, <1>2, <1>4, <2>1, <2>2, <2>3 DEF AttributeInv
<1>7. CASE EndWalk
  <2>1. /\ walk # None /\ NextBelow(visited) \subseteq visited
        /\ sets' = [sets EXCEPT ![walk] = (visited \ {walk}) \cap affected]
        /\ walk' = None /\ pending' = pending
    BY <1>7 DEF EndWalk
  <2>2. /\ walk \in Direct /\ walk \in nodes /\ walk \in Node /\ walk \notin pending
        /\ walk \in visited /\ visited \subseteq Below(walk)
    BY <1>3, <2>1, DirectIsNode DEF AttributeInv
  <2>3. visited = Below(walk)
    <3>1. visited \in SUBSET nodes
      BY <2>2 DEF Below
    <3>. QED BY <2>1, <2>2, <3>1, BelowIsLeast
  <2>4. (visited \ {walk}) \cap affected = Below(walk) \cap affected
    BY <1>3, <2>2, <2>3
  <2>5. sets' = [d \in Node |-> IF d \in Direct \ (pending \cup {None})
                                THEN Below(d) \cap affected ELSE {}]
    <3>1. ASSUME NEW d \in Node
          PROVE  sets'[d] = IF d \in Direct \ (pending \cup {None})
                            THEN Below(d) \cap affected ELSE {}
      <4>1. CASE d = walk
        BY <2>1, <2>2, <2>4, <4>1, <1>3 DEF AttributeInv
      <4>2. CASE d # walk
        <5>1. sets'[d] = sets[d]
          BY <2>1, <4>2
        <5>2. sets[d] = IF d \in Direct \ (pending \cup {walk})
                        THEN Below(d) \cap affected ELSE {}
          BY DEF AttributeInv
        <5>3. d \in Direct \ (pending \cup {walk}) <=> d \in Direct \ (pending \cup {None})
          BY <1>3, <4>2
        <5>. QED BY <5>1, <5>2, <5>3
      <4>. QED BY <4>1, <4>2
    <3>2. sets' = [d \in Node |-> sets'[d]]
      BY <2>1 DEF AttributeInv
    <3>. QED BY <3>1, <3>2
  <2>. QED BY <1>1, <1>2, <1>4, <2>1, <2>2, <2>5 DEF AttributeInv
<1>. QED BY <1>5, <1>6, <1>7

LEMMA ReachInvStep == ReachInv /\ FilesInv /\ [Next]_vars => ReachInv'
<1>. SUFFICES ASSUME ReachInv, FilesInv, [Next]_vars PROVE ReachInv'
  OBVIOUS
<1>. USE DEF ReachInv
<1>1. CASE Merge
  <2>1. phase = "merge" /\ phase' = "search" /\ UNCHANGED reachVars
    BY <1>1 DEF Merge
  <2>2. ReachInit'
    BY <2>1 DEF NotYet, ReachInit, reachVars, walkVars, planVars
  <2>3. sets' = [d \in Node |-> IF d \in Direct' \ (pending \cup {walk})'
                                THEN (Below(d) \cap affected)' ELSE {}]
    BY <2>2 DEF ReachInit
  <2>4. AttributeInv'
    BY <2>2, <2>3 DEF ReachInit, AttributeInv
  <2>. QED BY <1>1, <2>1, <2>2, <2>4, MergeKeepsGraph DEF NotYet, Walked
<1>2. ASSUME UNCHANGED <<nodes, edges>>
      PROVE  /\ Direct' = Direct /\ \A n : Surfaces(n)' = Surfaces(n)
             /\ \A n : Below(n)' = Below(n)
  BY <1>2 DEF Below, NextBelow, PackageEdges, Direct, Surfaces, Declaration
<1>3. ASSUME UNCHANGED <<nodes, edges, facts>>, UNCHANGED walkVars,
             versionRow' = versionRow \/ DOMAIN versionRow' \subseteq nodes
      PROVE  GraphInv' /\ AttributeInv'
  <2>1. GraphInv'
    BY <1>3 DEF GraphInv
  <2>. QED BY <1>2, <1>3, <2>1 DEF AttributeInv, walkVars
<1>4. CASE Search \/ Condense \/ Count \/ RollUp
  <2>1. phase' \in {"search", "count", "rolled"} /\ UNCHANGED reachVars
    BY <1>4 DEF Search, Condense, Count, RollUp
  <2>2. phase \in {"search", "count"} /\ UNCHANGED <<nodes, edges, facts>>
    BY <1>4 DEF Search, Condense, Count, RollUp, graphVars
  <2>3. versionRow' = versionRow \/ DOMAIN versionRow' \subseteq nodes
    BY <1>4 DEF Search, Condense, Count, RollUp, VersionRows, RowNodes
  <2>4. ReachInit'
    BY <2>1, <2>2 DEF NotYet, ReachInit, reachVars, walkVars, planVars
  <2>. QED BY <1>3, <2>1, <2>2, <2>3, <2>4 DEF NotYet, Walked, reachVars
<1>5. CASE Audit
  <2>1. phase = "rolled" /\ phase' = "attribute" /\ UNCHANGED <<nodes, edges, facts, versionRow>>
    BY <1>5 DEF Audit, graphVars
  <2>2. PICK found \in SUBSET DOMAIN versionRow : Attribute(found)
    BY <1>5 DEF Audit
  <2>3. ReachInit /\ UNCHANGED <<walk, visited, sets>>
    BY <2>1, <2>2 DEF NotYet, Attribute
  <2>4. affected' \subseteq nodes /\ \A n \in affected' : Surfaces(n) = {}
    BY <2>2 DEF Attribute, GraphInv, Present
  <2>5. pending' = IF affected' = {} THEN {} ELSE Direct
    BY <2>2 DEF Attribute
  <2>6. GraphInv'
    BY <2>1 DEF GraphInv
  <2>7. sets' = [d \in Node |-> IF d \in Direct \ (pending' \cup {walk'})
                                THEN Below(d) \cap affected' ELSE {}]
    BY <2>3, <2>5 DEF ReachInit
  <2>8. AttributeInv'
    BY <1>2, <2>1, <2>3, <2>4, <2>5, <2>7 DEF AttributeInv, ReachInit
  <2>. QED BY <2>1, <2>6, <2>8 DEF NotYet, Walked
<1>6. CASE Walk
  <2>1. phase = "attribute" /\ UNCHANGED <<phase, nodes, edges, facts, versionRow>>
    BY <1>6 DEF Walk, graphVars
  <2>2. AttributeInv'
    BY <1>6, <2>1, WalkKeepsAttribution DEF Walk
  <2>. QED BY <2>1, <2>2 DEF GraphInv, NotYet, Walked
<1>7. CASE Plan \/ PlanBumps \/ Report \/ UNCHANGED vars
  <2>1. UNCHANGED <<nodes, edges, facts, versionRow>> /\ UNCHANGED walkVars
    BY <1>7 DEF Plan, StartPlan, PlanBumps, Pick, Consider, Report, vars, graphVars, reachVars
  <2>2. phase' \in {"plan", "reported"} \/ UNCHANGED vars
    BY <1>7 DEF Plan, PlanBumps, Report
  <2>3. phase' \in {"plan", "reported"} => walk = None /\ pending = {}
    BY <1>7 DEF Plan, StartPlan, PlanBumps, Report, vars, Walked
  <2>4. NotYet'
    BY <2>2 DEF NotYet, vars, reachVars, walkVars, planVars, ReachInit
  <2>. QED BY <1>3, <2>1, <2>3, <2>4 DEF Walked, walkVars
<1>. QED BY <1>1, <1>4, <1>5, <1>6, <1>7 DEF Next

LEMMA ReachInvHolds == Spec => []ReachInv
  BY ReachInvInit, ReachInvStep, FilesInvHolds, PTL DEF Spec

(* What the attribution leaves for the plan.                               *)
LEMMA SetsAreBelow ==
  ASSUME ReachInv, phase \in {"plan", "reported"}
  PROVE  /\ \A d \in Direct : d \in Sets <=> Below(d) \cap affected # {}
         /\ Sets \subseteq Direct
         /\ \A d \in Sets : sets[d] = Below(d) \cap affected
<1>1. walk = None /\ pending = {}
  BY DEF ReachInv, Walked
<1>2. Direct \subseteq Node /\ None \notin Direct
  BY NoneIsNoNode, DirectIsNode DEF ReachInv, GraphInv, Present
<1>3. \A d \in Node : sets[d] = IF d \in Direct THEN Below(d) \cap affected ELSE {}
  BY <1>1, <1>2 DEF ReachInv, AttributeInv
<1>. QED BY <1>2, <1>3 DEF Sets

(* reach.go: without d, nothing direct reaches what its bump alone clears, *)
(* and everything else attributed is still reached.                        *)
THEOREM AnalysisBumpAloneClears == Spec => []BumpAloneClears
<1>1. ASSUME ReachInv PROVE BumpAloneClears
  <2>. SUFFICES ASSUME phase = "reported", NEW d \in Direct
                PROVE  LET without == Reaching({e \in PackageEdges : d \notin {e.from, e.to}})
                       IN Exclusive(d) = {x \in Attributed :
                                            \A o \in Direct \ {d} : <<o, x>> \notin without}
    BY DEF BumpAloneClears
  <2>. DEFINE without == Reaching({e \in PackageEdges : d \notin {e.from, e.to}})
  <2>1. \A x \in affected : x \in nodes /\ x \notin Direct
    BY <1>1, DirectIsNode DEF ReachInv, AttributeInv
  <2>2. \A x \in affected : Owners(x) = {o \in Direct : x \in Below(o)}
    BY <1>1, SetsAreBelow DEF Owners
  <2>3. \A x \in affected :
          (\E o \in Direct \ {d} : x \in Below(o)) <=> \E o \in Direct \ {d} : <<o, x>> \in without
    BY <1>1, <2>1, BelowWithout DEF ReachInv
  <2>4. sets[d] = {x \in affected : d \in Owners(x)}
    <3>1. d \in Node
      BY <1>1, DirectIsNode DEF ReachInv, GraphInv, Present
    <3>2. d \notin Sets => sets[d] = {}
      BY <3>1 DEF Sets
    <3>3. d \in Sets => sets[d] \subseteq affected
      BY <1>1, SetsAreBelow
    <3>. QED BY <3>2, <3>3 DEF Owners
  <2>. HIDE DEF without
  <2>5. ASSUME NEW x \in affected
        PROVE  Owners(x) = {d} <=> Owners(x) # {} /\ \A o \in Direct \ {d} : <<o, x>> \notin without
    BY <2>2, <2>3
  <2>6. Exclusive(d) = {x \in Attributed : \A o \in Direct \ {d} : <<o, x>> \notin without}
    BY <2>4, <2>5 DEF Exclusive, Attributed
  <2>. QED BY <2>6 DEF without
<1>. QED BY <1>1, ReachInvHolds, PTL

-----------------------------------------------------------------------------
(* The entries of the plan.  A running total of what each of them adds is  *)
(* unique, and TotalNew is where it ends.                                  *)
Entry == [direct : Node, affected : Nat, new : Nat]
Totals(t, p) ==
  t = [i \in 0 .. Len(p) |-> IF i = 0 THEN 0 ELSE t[i - 1] + p[i].new]

LEMMA TotalNewIs ==
  ASSUME NEW p \in Seq(Entry), NEW t, Totals(t, p)
  PROVE  TotalNew(p) = t[Len(p)]
<1>. DEFINE total == CHOOSE g : Totals(g, p)
            Bad == {i \in Nat : i <= Len(p) /\ t[i] # total[i]}
<1>1. TotalNew(p) = total[Len(p)]
  BY DEF TotalNew, Totals
<1>2. Totals(total, p)
  OBVIOUS
<1>. HIDE DEF total
<1>3. Len(p) \in Nat
  OBVIOUS
<1>4. ASSUME NEW i \in 0 .. Len(p)
      PROVE  /\ t[i] = IF i = 0 THEN 0 ELSE t[i - 1] + p[i].new
             /\ total[i] = IF i = 0 THEN 0 ELSE total[i - 1] + p[i].new
  <2>1. t[i] = IF i = 0 THEN 0 ELSE t[i - 1] + p[i].new
    BY Zenon DEF Totals
  <2>2. total[i] = IF i = 0 THEN 0 ELSE total[i - 1] + p[i].new
    BY <1>2, Zenon DEF Totals
  <2>. QED BY <2>1, <2>2
<1>5. ASSUME NEW i \in Bad, \A j \in Bad : i <= j PROVE FALSE
  <2>1. i \in 0 .. Len(p) /\ t[i] # total[i]
    BY <1>3
  <2>2. i # 0
    BY <1>4, <2>1
  <2>3. i - 1 \in Nat /\ i - 1 <= Len(p) /\ i - 1 \notin Bad
    BY <1>3, <1>5, <2>1, <2>2
  <2>4. t[i - 1] = total[i - 1]
    BY <2>3
  <2>. QED BY <1>4, <2>1, <2>2, <2>4
<1>6. Bad = {}
  BY <1>5, NatMin
<1>. QED BY <1>1, <1>3, <1>6

(* One more entry: the running total goes on by what it adds.              *)
LEMMA TotalsGoOn ==
  ASSUME NEW p \in Seq(Entry), NEW e \in Entry, NEW t, Totals(t, p)
  PROVE  \E u : Totals(u, Append(p, e)) /\ u[Len(p) + 1] = t[Len(p)] + e.new
<1>. DEFINE n == Len(p) + 1
            u == [i \in 0 .. n |-> IF i = n THEN t[Len(p)] + e.new ELSE t[i]]
            q == Append(p, e)
<1>1. Len(p) \in Nat /\ Len(q) = n /\ q[n] = e /\ \A i \in 1 .. Len(p) : q[i] = p[i]
  OBVIOUS
<1>2. ASSUME NEW i \in 0 .. Len(p) PROVE t[i] = IF i = 0 THEN 0 ELSE t[i - 1] + p[i].new
  BY Zenon DEF Totals
<1>. HIDE DEF q
<1>3. ASSUME NEW i \in 0 .. n PROVE u[i] = IF i = 0 THEN 0 ELSE u[i - 1] + q[i].new
  <2>1. CASE i = n
    <3>1. n # 0 /\ n - 1 \in 0 .. n /\ n - 1 # n /\ n - 1 = Len(p) /\ n \in 0 .. n
      BY <1>1
    <3>2. u[n] = t[Len(p)] + e.new /\ u[n - 1] = t[Len(p)]
      BY <3>1
    <3>. QED BY <1>1, <2>1, <3>1, <3>2
  <2>2. CASE i # n
    <3>1. i \in 0 .. Len(p) /\ u[i] = t[i]
      BY <1>1, <2>2
    <3>2. i # 0 => u[i - 1] = t[i - 1] /\ q[i] = p[i]
      BY <1>1, <2>2
    <3>. QED BY <1>2, <3>1, <3>2
  <2>. QED BY <2>1, <2>2
<1>4. u = [i \in 0 .. n |-> u[i]]
  OBVIOUS
<1>5. u[n] = t[Len(p)] + e.new
  BY <1>1
<1>. HIDE DEF u
<1>6. Totals(u, q)
  BY <1>1, <1>3, <1>4 DEF Totals
<1>. QED BY <1>5, <1>6 DEF q

(* The invariant of the plan's entries: what is done is what lies under    *)
(* the picks, each of them counted for what it added.                      *)
Picks == {plan[i].direct : i \in DOMAIN plan}

PicksInv ==
  /\ plan \in Seq(Entry) /\ Picks \subseteq Sets /\ remaining = Sets \ Picks
  /\ done = UNION {sets[d] : d \in Picks}
  /\ \E t : Totals(t, plan) /\ t[Len(plan)] = Cardinality(done)

MadeInv ==
  /\ phase = "attribute" => plan = <<>> /\ done = {}
  /\ phase \in {"plan", "reported"} => PicksInv
  /\ phase = "reported" => PlanDone

LEMMA NodesAreFinite ==
  ASSUME NEW S \in SUBSET Node
  PROVE  IsFiniteSet(S) /\ Cardinality(S) \in Nat
  BY CountAssumption, FS_Subset, FS_CardinalityType

(* Every pick, with what it gains, goes on the plan.                       *)
LEMMA PickKeepsPicks ==
  ASSUME PicksInv, PlanTypeInv, ScanInv, Pick
  PROVE  PicksInv'
<1>. DEFINE e == [direct |-> best, affected |-> Cardinality(sets[best]), new |-> gain]
<1>1. /\ scan = {} /\ gain > 0
      /\ plan' = Append(plan, e) /\ done' = done \cup sets[best]
      /\ remaining' = remaining \ {best} /\ sets' = sets
  BY DEF Pick, DoneAfter, walkVars
<1>2. best \in remaining /\ best \in Node /\ gain = Cardinality(sets[best] \ done)
  BY <1>1 DEF ScanInv, PlanTypeInv, Left
<1>3. sets[best] \in SUBSET Node /\ done \in SUBSET Node
  BY <1>2 DEF PlanTypeInv, PicksInv, Sets
<1>4. Cardinality(done') = Cardinality(done) + gain
  <2>. DEFINE more == sets[best] \ done
  <2>1. done' = done \cup more /\ done \cap more = {}
    BY <1>1
  <2>2. IsFiniteSet(done) /\ IsFiniteSet(more) /\ Cardinality(done) \in Nat /\ gain \in Nat
    <3>1. more \in SUBSET Node
      BY <1>3
    <3>. QED BY <1>2, <1>3, <3>1, NodesAreFinite
  <2>. HIDE DEF more
  <2>3. Cardinality(done \cup more) = Cardinality(done) + Cardinality(more) - Cardinality(done \cap more)
    BY <2>2, FS_Union
  <2>4. Cardinality(done \cap more) = 0
    BY <2>1, FS_EmptySet
  <2>5. Cardinality(more) = gain
    BY <1>2 DEF more
  <2>6. Cardinality(done \cup more) = Cardinality(done) + gain
    BY <2>2, <2>3, <2>4, <2>5
  <2>. QED BY <2>1, <2>6
<1>5. e \in Entry
  BY <1>2, <1>3, NodesAreFinite DEF Entry, PlanTypeInv
<1>6. Picks' = Picks \cup {best}
  <2>1. plan \in Seq(Entry) /\ e.direct = best
    BY DEF PicksInv
  <2>. HIDE DEF e
  <2>2. DOMAIN plan' = DOMAIN plan \cup {Len(plan) + 1}
    BY <1>1, <1>5, <2>1
  <2>3. plan'[Len(plan) + 1] = e /\ \A i \in DOMAIN plan : plan'[i] = plan[i]
    BY <1>1, <1>5, <2>1
  <2>. QED BY <2>1, <2>2, <2>3 DEF Picks
<1>7. Sets' = Sets
  BY <1>1 DEF Sets
<1>8. Picks' \subseteq Sets' /\ remaining' = Sets' \ Picks'
  BY <1>1, <1>2, <1>6, <1>7 DEF PicksInv
<1>9. done' = UNION {sets'[d] : d \in Picks'}
  BY <1>1, <1>6 DEF PicksInv
<1>10. PICK t : Totals(t, plan) /\ t[Len(plan)] = Cardinality(done)
  BY DEF PicksInv
<1>11. plan' \in Seq(Entry) /\ Len(plan') = Len(plan) + 1
  BY <1>1, <1>5 DEF PicksInv
<1>12. e.new = gain
  OBVIOUS
<1>. HIDE DEF e
<1>13. PICK u : Totals(u, plan') /\ u[Len(plan) + 1] = t[Len(plan)] + e.new
  <2>1. plan \in Seq(Entry)
    BY DEF PicksInv
  <2>. QED BY <1>1, <1>5, <1>10, <2>1, TotalsGoOn
<1>14. \E w : Totals(w, plan') /\ w[Len(plan')] = Cardinality(done')
  BY <1>4, <1>10, <1>11, <1>12, <1>13
<1>. QED BY <1>8, <1>9, <1>11, <1>14 DEF PicksInv

LEMMA MadeInvStep == MadeInv /\ PlanInv /\ ReachInv /\ [Next]_vars => MadeInv'
<1>. SUFFICES ASSUME MadeInv, PlanInv, ReachInv, [Next]_vars PROVE MadeInv'
  OBVIOUS
<1>1. CASE Merge \/ Search \/ Condense \/ Count \/ RollUp
  BY <1>1 DEF Merge, Search, Condense, Count, RollUp, MadeInv
<1>2. CASE Audit \/ Walk
  <2>1. phase' = "attribute" /\ UNCHANGED planVars
    BY <1>2 DEF Audit, Attribute, Walk, BeginWalk, WalkOn, EndWalk
  <2>2. plan = <<>> /\ done = {}
    BY <1>2 DEF Audit, Walk, MadeInv, ReachInv, NotYet, ReachInit
  <2>. QED BY <2>1, <2>2 DEF MadeInv, planVars
<1>3. ASSUME UNCHANGED <<plan, remaining, done, sets>>, PicksInv PROVE PicksInv'
  <2>1. Picks' = Picks /\ Sets' = Sets
    BY <1>3 DEF Picks, Sets
  <2>. QED BY <1>3, <2>1 DEF PicksInv
<1>4. CASE Plan
  <2>1. plan' = <<>> /\ done' = {} /\ remaining' = Sets /\ phase' = "plan"
    BY <1>4 DEF Plan, StartPlan, MadeInv
  <2>2. Picks' = {} /\ Sets' = Sets
    BY <1>4, <2>1 DEF Plan, StartPlan, walkVars, Picks, Sets
  <2>3. \E t : Totals(t, <<>>) /\ t[0] = 0
    <3>. DEFINE t == [i \in 0 .. 0 |-> 0]
    <3>1. t = [i \in 0 .. Len(<<>>) |-> IF i = 0 THEN 0 ELSE t[i - 1] + <<>>[i].new] /\ t[0] = 0
      OBVIOUS
    <3>. QED BY <3>1, Zenon DEF Totals
  <2>4. Cardinality({}) = 0 /\ Len(<<>>) = 0 /\ <<>> \in Seq(Entry)
    BY FS_EmptySet
  <2>5. PicksInv'
    BY <2>1, <2>2, <2>3, <2>4 DEF PicksInv
  <2>. QED BY <2>1, <2>5 DEF MadeInv
<1>5. CASE PlanBumps
  <2>1. phase = "plan" /\ phase' = "plan" /\ PicksInv
    BY <1>5 DEF PlanBumps, MadeInv
  <2>2. CASE Pick
    BY <2>1, <2>2, PickKeepsPicks DEF PlanInv, MadeInv
  <2>3. CASE \E d \in scan : Consider(d)
    <3>1. UNCHANGED <<plan, remaining, done, sets>>
      BY <2>3 DEF Consider, walkVars
    <3>. QED BY <1>3, <2>1, <3>1 DEF MadeInv
  <2>. QED BY <1>5, <2>2, <2>3 DEF PlanBumps
<1>6. CASE Report \/ UNCHANGED vars
  <2>1. UNCHANGED <<plan, remaining, done, sets>> /\ UNCHANGED <<scan, gain>>
    BY <1>6 DEF Report, vars, reachVars, walkVars, planVars
  <2>2. PlanDone' <=> PlanDone
    BY <2>1 DEF PlanDone, Planning
  <2>3. phase' = phase \/ (phase = "plan" /\ phase' = "reported" /\ PlanDone)
    BY <1>6 DEF Report, vars
  <2>. QED BY <1>3, <2>1, <2>2, <2>3 DEF MadeInv
<1>. QED BY <1>1, <1>2, <1>4, <1>5, <1>6 DEF Next

LEMMA MadeInvHolds == Spec => [](MadeInv /\ PlanInv /\ ReachInv)
<1>1. Init => MadeInv
  BY DEF Init, MadeInv
<1>. QED BY <1>1, MadeInvStep, PlanInvInit, PlanInvStep, ReachInvHolds, PTL DEF Spec

(* A plan that is done without its limit has cleared all that is under any *)
(* direct dependency.                                                      *)
LEMMA DoneIsAttributed ==
  ASSUME MadeInv, PlanInv, ReachInv, phase = "reported"
  PROVE  /\ done \subseteq Attributed /\ Attributed \in SUBSET Node
         /\ Planning => done = Attributed
<1>. USE DEF PlanInv
<1>1. PicksInv /\ PlanDone
  BY DEF MadeInv
<1>2. \A d \in Sets : sets[d] \subseteq affected
  BY SetsAreBelow
<1>3. Attributed \in SUBSET Node
  BY DEF Attributed, PlanTypeInv
<1>4. done \subseteq Attributed
  BY <1>1, <1>2 DEF PicksInv, Attributed, Owners
<1>5. ASSUME Planning PROVE Attributed \subseteq done
  <2>1. scan = {} /\ gain = 0
    BY <1>1, <1>5 DEF PlanDone
  <2>2. ASSUME NEW d \in remaining PROVE sets[d] \subseteq done
    <3>1. d \in Node /\ sets[d] \ done \in SUBSET Node
      BY <2>2 DEF PlanTypeInv
    <3>2. Left(d) < gain \/ Left(d) = gain
      BY <2>1, <2>2 DEF ScanInv
    <3>3. Left(d) = 0
      BY <2>1, <3>1, <3>2, LeftIsNat
    <3>4. IsFiniteSet(sets[d] \ done)
      BY <3>1, NodesAreFinite
    <3>5. sets[d] \ done = {}
      BY <3>3, <3>4, FS_EmptySet DEF Left
    <3>. QED BY <3>5
  <2>3. \A d \in Sets : sets[d] \subseteq done
    BY <1>1, <2>2 DEF PicksInv
  <2>. QED BY <2>3 DEF Attributed, Owners
<1>. QED BY <1>3, <1>4, <1>5

(* Analyse: a finding is attributed exactly when it sits beneath a direct  *)
(* dependency, the entries add up to what the plan clears, and what it     *)
(* leaves it says it leaves.                                               *)
THEOREM AnalysisPlanHonest == Spec => []PlanHonest
<1>1. ASSUME MadeInv, PlanInv, ReachInv PROVE PlanHonest
  <2>. SUFFICES ASSUME phase = "reported" PROVE PlanHonest
    BY DEF PlanHonest
  <2>. DEFINE beneath == Reaching(PackageEdges)
  <2>1. PicksInv /\ GraphInv
    BY <1>1 DEF MadeInv, ReachInv
  <2>2. \A x \in affected : x \in nodes
    BY <1>1 DEF ReachInv, AttributeInv
  <2>3. \A x \in affected : Owners(x) = {o \in Direct : x \in Below(o)}
    BY <1>1, SetsAreBelow DEF Owners
  <2>4. \A x \in affected :
          (\E d \in Direct : x \in Below(d)) <=> \E d \in Direct : <<d, x>> \in beneath
    BY <2>1, <2>2, BeneathIsBelow
  <2>5. Attributed = {x \in affected : \E d \in Direct : <<d, x>> \in beneath}
    BY <2>3, <2>4 DEF Attributed
  <2>6. Clears = TotalNew(plan)
    BY <2>1, TotalNewIs DEF PicksInv, Clears
  <2>7. \A x \in done : \E d \in Picks : <<d, x>> \in beneath
    <3>1. \A d \in Picks : d \in Direct /\ sets[d] = Below(d) \cap affected
      BY <1>1, <2>1, SetsAreBelow DEF PicksInv
    <3>. QED BY <2>1, <2>2, <3>1, BeneathIsBelow DEF PicksInv
  <2>8. done \subseteq Attributed /\ (Planning => done = Attributed)
    BY <1>1, DoneIsAttributed
  <2>9. IsFiniteSet(Attributed) /\ Cardinality(Attributed) \in Nat /\ Cardinality(done) \in Nat
    <3>1. Attributed \in SUBSET Node
      BY <1>1, DoneIsAttributed
    <3>2. done \in SUBSET Node
      BY <2>8, <3>1
    <3>. QED BY <3>1, <3>2, NodesAreFinite
  <2>10. ~PlanCapped => done = Attributed
    <3>1. Cardinality(done) <= Cardinality(Attributed)
      BY <2>8, <2>9, FS_Subset
    <3>2. Cardinality(Attributed) = Cardinality(done) => Attributed = done
      BY <2>8, <2>9, FS_Subset
    <3>. QED BY <2>9, <3>1, <3>2 DEF PlanCapped, Clears
  <2>11. Len(plan) < PlanDepth => ~PlanCapped
    BY <2>8, <2>9 DEF Planning, PlanCapped, Clears
  <2>. QED BY <2>5, <2>6, <2>7, <2>10, <2>11 DEF PlanHonest, Picks
<1>. QED BY <1>1, MadeInvHolds, PTL

-----------------------------------------------------------------------------
(* The components.  Tarjan's algorithm, as the two stacks of the code see  *)
(* it: a node is stacked while its component is open, and gray while its   *)
(* own frame is.                                                           *)
Leads(a, b) == <<a, b>> \in Reaching(edges)
Stacked == {n \in Seen : comp[n] = None}
Gray(i) == frames[i].node
Waiting(e) == \E i \in DOMAIN frames : Gray(i) = e.from /\ e.to \in frames[i].kids

SearchTypes ==
  /\ index \in [Node -> Nat \cup {None}] /\ low \in [Node -> Nat \cup {None}]
  /\ comp \in [Node -> Nat \cup {None}] /\ compID \in Nat
  /\ stack \in Seq(Node) /\ frames \in Seq([node : Node, kids : SUBSET Node])
  /\ Seen \subseteq nodes

(* Nodes are numbered as they are met, components as they are closed.      *)
Numbered ==
  /\ \A m, n \in Seen : index[m] = index[n] => m = n
  /\ \A n \in Seen : index[n] < Cardinality(Seen)
  /\ \A n \in Node : comp[n] # None => n \in Seen /\ comp[n] < compID
  /\ \A c \in Comps : \E n \in Node : comp[n] = c

StackInv ==
  /\ \A i \in DOMAIN stack : stack[i] \in Stacked
  /\ \A n \in Stacked : \E i \in DOMAIN stack : stack[i] = n
  /\ \A i, j \in DOMAIN stack : i < j => index[stack[i]] < index[stack[j]]

FrameInv ==
  /\ \A i \in DOMAIN frames : Gray(i) \in Stacked /\ frames[i].kids \subseteq Out(Gray(i))
  /\ \A i, j \in DOMAIN frames : i < j => index[Gray(i)] < index[Gray(j)]

(* A stacked node leads to all that was stacked after it, and back to a    *)
(* gray node that was stacked before it.                                   *)
PathInv ==
  /\ \A x, y \in Stacked : index[x] <= index[y] => Leads(x, y)
  /\ \A y \in Stacked : \E i \in DOMAIN frames :
       index[Gray(i)] <= index[y] /\ Leads(y, Gray(i))

(* No edge that was looked at leads to a node not seen, and no edge leads  *)
(* out of a closed component but to one closed before it.                  *)
EdgeInv ==
  \A e \in edges :
    /\ e.from \in Seen /\ ~Waiting(e) => e.to \in Seen
    /\ comp[e.from] # None => comp[e.to] # None /\ comp[e.to] <= comp[e.from]

(* The stacked nodes met since the frame i was opened, but for those met   *)
(* since the one above it was.                                             *)
Under(i, n) ==
  /\ n \in Stacked /\ index[Gray(i)] <= index[n]
  /\ i + 1 \in DOMAIN frames => index[n] < index[Gray(i + 1)]

(* low is the number of a node that is led to, and no edge looked at from  *)
(* under the frame leads lower.                                            *)
LowInv ==
  \A i \in DOMAIN frames :
    /\ low[Gray(i)] <= index[Gray(i)]
    /\ \E w \in Stacked : index[w] = low[Gray(i)] /\ Leads(Gray(i), w)
    /\ \A e \in edges :
         Under(i, e.from) /\ ~Waiting(e) /\ e.to \in Stacked => low[Gray(i)] <= index[e.to]

DoneInv ==
  \A a, b \in nodes : comp[a] # None /\ comp[b] # None =>
    (comp[a] = comp[b] <=> Leads(a, b) /\ Leads(b, a))

TarjanInv == /\ SearchTypes /\ Numbered /\ StackInv /\ FrameInv /\ PathInv
             /\ EdgeInv /\ LowInv /\ DoneInv

(* What leads where.                                                       *)
LEMMA LeadsIs ==
  /\ \A a, b : Leads(a, b) => a \in nodes /\ b \in nodes
  /\ \A a \in nodes : Leads(a, a)
  /\ \A a, b, c : Leads(a, b) /\ Leads(b, c) => Leads(a, c)
  /\ \A S \in SUBSET nodes : \A a \in S : \A b :
       Closed(S, edges) /\ Leads(a, b) => b \in S
  BY DEF Leads, Reaching

LEMMA EdgeLeads ==
  ASSUME GraphInv, NEW e \in edges
  PROVE  Leads(e.from, e.to)
  BY DEF GraphInv, Leads, Reaching, Closed

LEMMA LeadsStays ==
  ASSUME UNCHANGED <<nodes, edges>>
  PROVE  \A a, b : Leads(a, b)' <=> Leads(a, b)
  BY DEF Leads, Reaching, Closed

LEMMA OnStackIsStacked ==
  ASSUME StackInv
  PROVE  \A w : OnStack(w) <=> w \in Stacked
  BY DEF OnStack, StackInv

LEMMA SearchTypesGive ==
  ASSUME SearchTypes
  PROVE  /\ \A n \in Seen : n \in Node /\ index[n] \in Nat
         /\ \A n \in Stacked : n \in Node /\ n \in Seen /\ index[n] \in Nat /\ comp[n] = None
         /\ DOMAIN frames = 1 .. Len(frames) /\ Len(frames) \in Nat
         /\ DOMAIN stack = 1 .. Len(stack) /\ Len(stack) \in Nat
         /\ Cardinality(Seen) \in Nat
         /\ \A i \in DOMAIN frames : Gray(i) \in Node /\ frames[i].kids \subseteq Node
         /\ frames # <<>> => Len(frames) \in DOMAIN frames /\ Top = frames[Len(frames)]
<1>1. Seen \in SUBSET Node
  BY DEF Seen
<1>2. Cardinality(Seen) \in Nat
  BY <1>1, NodesAreFinite
<1>3. \A n \in Seen : n \in Node /\ index[n] \in Nat
  BY DEF SearchTypes, Seen, None
<1>4. /\ DOMAIN frames = 1 .. Len(frames) /\ Len(frames) \in Nat
      /\ DOMAIN stack = 1 .. Len(stack) /\ Len(stack) \in Nat
  BY DEF SearchTypes
<1>5. \A i \in DOMAIN frames : Gray(i) \in Node /\ frames[i].kids \subseteq Node
  <2>. DEFINE F == [node : Node, kids : SUBSET Node]
  <2>. HIDE DEF F
  <2>2. frames \in Seq(F)
    BY DEF SearchTypes, F
  <2>1. \A i \in DOMAIN frames : frames[i] \in F
    BY <2>2
  <2>. USE DEF F
  <2>. QED BY <2>1 DEF Gray
<1>6. frames # <<>> => Len(frames) \in DOMAIN frames /\ Top = frames[Len(frames)]
  BY <1>4 DEF SearchTypes, Top
<1>. QED BY <1>2, <1>3, <1>4, <1>5, <1>6 DEF Stacked

LEMMA PrefixIs ==
  ASSUME NEW T, NEW s \in Seq(T), NEW n \in 0 .. Len(s)
  PROVE  /\ SubSeq(s, 1, n) \in Seq(T) /\ Len(SubSeq(s, 1, n)) = n
         /\ DOMAIN SubSeq(s, 1, n) = 1 .. n
         /\ \A i \in 1 .. n : SubSeq(s, 1, n)[i] = s[i]
<1>1. \A i \in 1 .. n : s[i] \in T
  OBVIOUS
<1>2. /\ SubSeq(s, 1, n) \in Seq(T)
      /\ Len(SubSeq(s, 1, n)) = IF 1 <= n THEN n - 1 + 1 ELSE 0
      /\ \A i \in 1 .. n - 1 + 1 : SubSeq(s, 1, n)[i] = s[1 + i - 1]
  BY <1>1, SubSeqProperties
<1>. QED BY <1>2

LEMMA FrontIs ==
  ASSUME NEW T, NEW s \in Seq(T), s # <<>>
  PROVE  /\ Front(s) \in Seq(T) /\ Len(Front(s)) = Len(s) - 1
         /\ DOMAIN Front(s) = 1 .. Len(s) - 1
         /\ \A i \in 1 .. Len(s) - 1 : Front(s)[i] = s[i]
<1>1. Len(s) - 1 \in 0 .. Len(s)
  OBVIOUS
<1>. QED BY <1>1, PrefixIs DEF Front

LEMMA NextKidIsKid ==
  ASSUME SearchTypes, AtKid
  PROVE  NextKid \in Top.kids /\ NextKid \in Node
<1>1. Top.kids # {} /\ Top.kids \subseteq Node
  BY SearchTypesGive DEF AtKid
<1>2. Top.kids \subseteq Nat
  BY <1>1, CountAssumption
<1>3. PICK n \in Top.kids : \A m \in Top.kids : n <= m
  BY <1>1, <1>2, NatMin
<1>. QED BY <1>1, <1>3 DEF NextKid, Min

FrameSet == [node : Node, kids : SUBSET Node]

(* What the frames are when the top one has looked at its next child.      *)
LEMMA PoppedIs ==
  ASSUME SearchTypes, AtKid
  PROVE  /\ Popped \in Seq(FrameSet) /\ Len(Popped) = Len(frames)
         /\ \A i \in DOMAIN frames : /\ Popped[i].node = Gray(i)
                                     /\ Popped[i].kids = IF i = Len(frames) THEN frames[i].kids \ {NextKid}
                                                         ELSE frames[i].kids
<1>1. frames \in Seq(FrameSet) /\ frames # <<>>
  BY DEF SearchTypes, FrameSet, AtKid
<1>2. Len(frames) \in DOMAIN frames /\ DOMAIN frames = 1 .. Len(frames) /\ Len(frames) \in Nat
  BY SearchTypesGive, <1>1
<1>. DEFINE f == [frames[Len(frames)] EXCEPT !.kids = @ \ {NextKid}]
<1>3. frames[Len(frames)] \in FrameSet
  BY <1>1, <1>2
<1>4. f \in FrameSet /\ f.node = Gray(Len(frames)) /\ f.kids = frames[Len(frames)].kids \ {NextKid}
  BY <1>3 DEF FrameSet, Gray
<1>5. Popped = [frames EXCEPT ![Len(frames)] = f]
  BY DEF Popped
<1>. HIDE DEF f, FrameSet
<1>6. Popped \in Seq(FrameSet) /\ Len(Popped) = Len(frames) /\ DOMAIN Popped = DOMAIN frames
  BY <1>1, <1>2, <1>4, <1>5
<1>7. \A i \in DOMAIN frames : Popped[i] = IF i = Len(frames) THEN f ELSE frames[i]
  BY <1>1, <1>2, <1>5
<1>. QED BY <1>4, <1>6, <1>7 DEF Gray

(* A node is stacked on top of all others, in a frame of its own.          *)
LEMMA OpenKeeps ==
  ASSUME GraphInv, TarjanInv, NEW w \in nodes, w \notin Seen,
         NEW fs \in Seq(FrameSet), Len(fs) = Len(frames),
         \A i \in DOMAIN frames : fs[i].node = Gray(i) /\ fs[i].kids \in {frames[i].kids, frames[i].kids \ {w}},
         \A x \in Stacked : Leads(x, w),
         Open(w, fs), UNCHANGED <<nodes, edges>>
  PROVE  TarjanInv'
<1>. USE SearchTypesGive
<1>n. PICK n : n = Cardinality(Seen)
  OBVIOUS
<1>k. PICK k : k = Len(frames) + 1
  OBVIOUS
<1>0. /\ SearchTypes /\ Numbered /\ StackInv /\ FrameInv /\ PathInv
      /\ EdgeInv /\ LowInv /\ DoneInv
  BY DEF TarjanInv
<1>1. /\ index' = [index EXCEPT ![w] = n] /\ low' = [low EXCEPT ![w] = n]
      /\ stack' = Append(stack, w) /\ frames' = Append(fs, [node |-> w, kids |-> Out(w)])
      /\ comp' = comp /\ compID' = compID
  BY <1>n DEF Open
<1>2. w \in Node /\ nodes \subseteq Node
  BY DEF GraphInv, Present
<1>3. Seen' = Seen \cup {w} /\ Cardinality(Seen') = n + 1 /\ n \in Nat
  <2>1. n \in Nat /\ IsFiniteSet(Seen)
    BY <1>n, NodesAreFinite DEF Seen
  <2>2. Seen' = Seen \cup {w}
    BY <1>0, <1>1, <1>2, <2>1 DEF Seen, SearchTypes, None
  <2>. QED BY <2>1, <2>2, <1>n, FS_AddElement
<1>4. comp[w] = None /\ Stacked' = Stacked \cup {w} /\ w \notin Stacked
  BY <1>0, <1>1, <1>2, <1>3 DEF Numbered, Stacked
<1>5. /\ index'[w] = n /\ \A x \in Seen : index'[x] = index[x]
      /\ \A x \in Seen : index[x] < n /\ index[x] \in Nat
      /\ low'[w] = n /\ \A x \in Seen : low'[x] = low[x]
  BY <1>0, <1>1, <1>2, <1>n DEF SearchTypes, Seen, Numbered
<1>6. /\ DOMAIN frames' = 1 .. k /\ DOMAIN frames = 1 .. k - 1 /\ k \in Nat \ {0}
      /\ Gray(k)' = w /\ frames'[k].kids = Out(w)
      /\ \A i \in 1 .. k - 1 : frames'[i] = fs[i] /\ Gray(i)' = Gray(i) /\ Gray(i) \in Stacked
      /\ frames' \in Seq(FrameSet)
  <2>1. Out(w) \subseteq Node
    BY <1>2 DEF Out, GraphInv
  <2>2. [node |-> w, kids |-> Out(w)] \in FrameSet
    BY <2>1, <1>2 DEF FrameSet
  <2>. HIDE DEF FrameSet
  <2>3. frames' \in Seq(FrameSet) /\ Len(frames') = k
    BY <2>2, <1>1, <1>k
  <2>4. DOMAIN frames = 1 .. k - 1 /\ k \in Nat \ {0}
    BY <1>0, <1>k
  <2>5. frames'[k] = [node |-> w, kids |-> Out(w)] /\ \A i \in 1 .. k - 1 : frames'[i] = fs[i]
    BY <1>1, <1>k, <2>4
  <2>6. \A i \in 1 .. k - 1 : Gray(i) \in Stacked
    BY <1>0, <2>4 DEF FrameInv
  <2>. QED BY <2>3, <2>4, <2>5, <2>6 DEF Gray
<1>7. \A a, b : Leads(a, b)' <=> Leads(a, b)
  BY LeadsStays
<1>8. \A e \in edges : /\ Waiting(e)' => Waiting(e) \/ e.from = w
                       /\ Waiting(e) => Waiting(e)' \/ e.to = w
                       /\ e.from = w => Waiting(e)'
  <2>. SUFFICES ASSUME NEW e \in edges
                PROVE  /\ Waiting(e)' => Waiting(e) \/ e.from = w
                       /\ Waiting(e) => Waiting(e)' \/ e.to = w
                       /\ e.from = w => Waiting(e)'
    OBVIOUS
  <2>1. Waiting(e)' <=> \E i \in 1 .. k : Gray(i)' = e.from /\ e.to \in frames'[i].kids
    BY <1>6 DEF Waiting
  <2>2. Waiting(e) <=> \E i \in 1 .. k - 1 : Gray(i) = e.from /\ e.to \in frames[i].kids
    BY <1>6 DEF Waiting
  <2>3. e.from = w => e.to \in Out(w)
    BY DEF Out
  <2>4. \A i \in 1 .. k - 1 : /\ frames'[i].kids \subseteq frames[i].kids
                              /\ frames[i].kids \subseteq frames'[i].kids \cup {w}
    BY <1>6
  <2>. QED BY <1>6, <2>1, <2>2, <2>3, <2>4
<1>9. edges' = edges /\ nodes' = nodes
  OBVIOUS
<1>10. SearchTypes'
  <2>1. index' \in [Node -> Nat \cup {None}] /\ low' \in [Node -> Nat \cup {None}]
    BY <1>0, <1>1, <1>3 DEF SearchTypes
  <2>2. comp' \in [Node -> Nat \cup {None}] /\ compID' \in Nat /\ stack' \in Seq(Node)
    BY <1>0, <1>1, <1>2 DEF SearchTypes
  <2>. QED BY <2>1, <2>2, <1>0, <1>3, <1>6, <1>9 DEF SearchTypes, FrameSet
<1>11. Numbered'
  <2>1. \A a, b \in Seen' : index'[a] = index'[b] => a = b
    BY <1>0, <1>3, <1>5 DEF Numbered
  <2>2. \A a \in Seen' : index'[a] < n + 1
    BY <1>3, <1>5
  <2>3. \A a \in Node : comp[a] # None => a \in Seen' /\ comp[a] < compID
    BY <1>0, <1>3 DEF Numbered
  <2>. QED BY <2>1, <2>2, <2>3, <1>0, <1>1, <1>3 DEF Numbered, Comps
<1>12. StackInv'
  <2>1. DOMAIN stack' = 1 .. Len(stack) + 1 /\ DOMAIN stack = 1 .. Len(stack) /\ Len(stack) \in Nat
    BY <1>0, <1>1, <1>2 DEF SearchTypes
  <2>2. stack'[Len(stack) + 1] = w /\ \A i \in 1 .. Len(stack) : stack'[i] = stack[i]
    BY <1>0, <1>1, <1>2 DEF SearchTypes
  <2>3. \A i \in 1 .. Len(stack) : stack[i] \in Stacked /\ stack[i] \in Seen
    BY <1>0, <2>1 DEF StackInv
  <2>4. \A i \in DOMAIN stack' : stack'[i] \in Stacked'
    BY <2>1, <2>2, <2>3, <1>4
  <2>5. \A x \in Stacked' : \E i \in DOMAIN stack' : stack'[i] = x
    <3>. SUFFICES ASSUME NEW x \in Stacked' PROVE \E i \in DOMAIN stack' : stack'[i] = x
      OBVIOUS
    <3>1. CASE x = w
      BY <3>1, <2>1, <2>2
    <3>2. CASE x # w
      <4>1. PICK i \in 1 .. Len(stack) : stack[i] = x
        BY <3>2, <1>0, <1>4, <2>1 DEF StackInv
      <4>. QED BY <4>1, <2>1, <2>2
    <3>. QED BY <3>1, <3>2
  <2>6. ASSUME NEW i \in DOMAIN stack', NEW j \in DOMAIN stack', i < j
        PROVE  index'[stack'[i]] < index'[stack'[j]]
    <3>1. i \in 1 .. Len(stack)
      BY <2>1, <2>6
    <3>2. CASE j \in 1 .. Len(stack)
      BY <3>1, <3>2, <2>1, <2>2, <2>3, <2>6, <1>0, <1>5 DEF StackInv
    <3>3. CASE j = Len(stack) + 1
      BY <3>1, <3>3, <2>2, <2>3, <1>5
    <3>. QED BY <3>2, <3>3, <2>1
  <2>. QED BY <2>4, <2>5, <2>6 DEF StackInv
<1>13. FrameInv'
  <2>1. ASSUME NEW i \in DOMAIN frames'
        PROVE  Gray(i)' \in Stacked' /\ frames'[i].kids \subseteq Out(Gray(i))'
    <3>1. \A v : Out(v)' = Out(v)
      BY <1>9 DEF Out
    <3>2. CASE i = k
      BY <3>1, <3>2, <1>4, <1>6 DEF Out
    <3>3. CASE i # k
      <4>1. i \in 1 .. k - 1 /\ i \in DOMAIN frames
        BY <3>3, <1>6
      <4>2. frames[i].kids \subseteq Out(Gray(i)) /\ Gray(i) \in Stacked
        BY <4>1, <1>0 DEF FrameInv
      <4>3. frames'[i].kids \subseteq frames[i].kids /\ Gray(i)' = Gray(i)
        BY <4>1, <1>6
      <4>4. Out(Gray(i))' = Out(Gray(i))
        BY <4>3, <1>9 DEF Out
      <4>. QED BY <4>2, <4>3, <4>4, <1>4
    <3>. QED BY <3>2, <3>3
  <2>2. ASSUME NEW i \in DOMAIN frames', NEW j \in DOMAIN frames', i < j
        PROVE  index'[Gray(i)'] < index'[Gray(j)']
    <3>1. i \in 1 .. k - 1 /\ Gray(i)' = Gray(i) /\ Gray(i) \in Seen
      BY <2>2, <1>0, <1>6
    <3>2. CASE j = k
      BY <3>1, <3>2, <1>5, <1>6
    <3>3. CASE j # k
      <4>1. j \in 1 .. k - 1 /\ Gray(j)' = Gray(j) /\ Gray(j) \in Seen
        BY <3>3, <1>0, <1>6
      <4>2. index[Gray(i)] < index[Gray(j)]
        BY <3>1, <4>1, <2>2, <1>0, <1>6 DEF FrameInv
      <4>. QED BY <3>1, <4>1, <4>2, <1>5
    <3>. QED BY <3>2, <3>3
  <2>. QED BY <2>1, <2>2 DEF FrameInv
<1>14. PathInv'
  <2>1. ASSUME NEW x \in Stacked', NEW y \in Stacked', index'[x] <= index'[y]
        PROVE  Leads(x, y)
    <3>1. CASE y = w
      BY <3>1, <1>4, LeadsIs
    <3>2. CASE y # w /\ x = w
      <4>1. y \in Seen /\ index'[y] < n /\ index'[y] \in Nat
        BY <3>2, <1>0, <1>4, <1>5
      <4>. QED BY <4>1, <3>2, <2>1, <1>3, <1>5
    <3>3. CASE y # w /\ x # w
      <4>1. x \in Stacked /\ y \in Stacked /\ x \in Seen /\ y \in Seen
        BY <3>3, <1>0, <1>4
      <4>. QED BY <4>1, <2>1, <1>0, <1>5 DEF PathInv
    <3>. QED BY <3>1, <3>2, <3>3
  <2>2. ASSUME NEW y \in Stacked'
        PROVE  \E i \in DOMAIN frames' : index'[Gray(i)'] <= index'[y] /\ Leads(y, Gray(i)')
    <3>1. CASE y = w
      <4>1. Leads(w, w)
        BY LeadsIs
      <4>. QED BY <3>1, <4>1, <1>3, <1>5, <1>6
    <3>2. CASE y # w
      <4>1. y \in Stacked /\ y \in Seen
        BY <3>2, <1>0, <1>4
      <4>2. PICK i \in DOMAIN frames : index[Gray(i)] <= index[y] /\ Leads(y, Gray(i))
        BY <4>1, <1>0 DEF PathInv
      <4>3. i \in DOMAIN frames' /\ Gray(i)' = Gray(i) /\ Gray(i) \in Seen
        BY <1>0, <1>6
      <4>. QED BY <4>1, <4>2, <4>3, <1>5
    <3>. QED BY <3>1, <3>2
  <2>. QED BY <2>1, <2>2, <1>7 DEF PathInv
<1>15. EdgeInv'
  <2>. SUFFICES ASSUME NEW e \in edges
                PROVE  /\ e.from \in Seen' /\ ~Waiting(e)' => e.to \in Seen'
                       /\ comp[e.from] # None => comp[e.to] # None /\ comp[e.to] <= comp[e.from]
    BY <1>1, <1>9 DEF EdgeInv
  <2>. QED BY <1>0, <1>3, <1>8 DEF EdgeInv
<1>16. LowInv'
  <2>. SUFFICES ASSUME NEW i \in 1 .. k
                PROVE  /\ low'[Gray(i)'] <= index'[Gray(i)']
                       /\ \E v \in Stacked' : index'[v] = low'[Gray(i)'] /\ Leads(Gray(i)', v)
                       /\ \A e \in edges : Under(i, e.from)' /\ ~Waiting(e)' /\ e.to \in Stacked'
                                             => low'[Gray(i)'] <= index'[e.to]
    BY <1>6, <1>7, <1>9 DEF LowInv
  <2>1. CASE i = k
    <3>1. Leads(w, w)
      BY LeadsIs
    <3>2. ASSUME NEW e \in edges, Under(i, e.from)'
          PROVE  Waiting(e)'
      <4>1. e.from \in Stacked' /\ n <= index'[e.from]
        BY <3>2, <2>1, <1>5, <1>6 DEF Under
      <4>2. e.from = w
        BY <4>1, <1>0, <1>3, <1>4, <1>5
      <4>. QED BY <4>2, <1>8
    <3>. QED BY <2>1, <3>1, <3>2, <1>3, <1>4, <1>5, <1>6
  <2>2. CASE i # k
    <3>1. /\ i \in DOMAIN frames /\ i \in 1 .. k - 1 /\ Gray(i)' = Gray(i) /\ Gray(i) \in Stacked
          /\ Gray(i) \in Seen
      BY <2>2, <1>0, <1>6
    <3>2. low'[Gray(i)] = low[Gray(i)] /\ index'[Gray(i)] = index[Gray(i)]
      BY <3>1, <1>5
    <3>3. /\ low[Gray(i)] <= index[Gray(i)]
          /\ \E v \in Stacked : index[v] = low[Gray(i)] /\ Leads(Gray(i), v)
      BY <3>1, <1>0 DEF LowInv
    <3>4. \E v \in Stacked' : index'[v] = low'[Gray(i)] /\ Leads(Gray(i), v)
      <4>1. PICK v \in Stacked : index[v] = low[Gray(i)] /\ Leads(Gray(i), v)
        BY <3>3
      <4>. QED BY <4>1, <3>2, <1>0, <1>4, <1>5
    <3>5. ASSUME NEW e \in edges, Under(i, e.from)', ~Waiting(e)', e.to \in Stacked'
          PROVE  low[Gray(i)] <= index'[e.to]
      <4>1. /\ e.from \in Stacked' /\ index'[Gray(i)] <= index'[e.from]
            /\ index'[e.from] < index'[Gray(i + 1)']
        BY <3>1, <3>5, <1>6 DEF Under
      <4>2. index'[Gray(i + 1)'] \in Nat /\ index'[Gray(i + 1)'] <= n
        <5>1. CASE i + 1 = k
          BY <5>1, <1>3, <1>5, <1>6
        <5>2. CASE i + 1 # k
          <6>1. i + 1 \in 1 .. k - 1
            BY <5>2, <3>1, <1>6
          <6>. QED BY <6>1, <1>0, <1>3, <1>5, <1>6
        <5>. QED BY <5>1, <5>2
      <4>3. e.from # w
        BY <4>1, <4>2, <1>3, <1>5
      <4>4. e.from \in Stacked /\ e.from \in Seen
        BY <4>1, <4>3, <1>0, <1>4
      <4>5. Under(i, e.from)
        <5>1. index[Gray(i)] <= index[e.from]
          BY <4>1, <4>4, <3>1, <1>5
        <5>2. ASSUME i + 1 \in DOMAIN frames PROVE index[e.from] < index[Gray(i + 1)]
          <6>1. i + 1 \in 1 .. k - 1
            BY <5>2, <1>6
          <6>2. Gray(i + 1)' = Gray(i + 1) /\ Gray(i + 1) \in Seen
            BY <6>1, <1>0, <1>6
          <6>. QED BY <6>2, <4>1, <4>4, <1>5
        <5>. QED BY <4>4, <5>1, <5>2 DEF Under
      <4>6. CASE e.to = w
        BY <4>6, <3>1, <3>3, <1>0, <1>3, <1>5 DEF SearchTypes, None
      <4>7. CASE e.to # w
        <5>1. e.to \in Stacked /\ e.to \in Seen /\ ~Waiting(e)
          BY <4>7, <3>5, <1>0, <1>4, <1>8
        <5>. QED BY <5>1, <4>5, <3>1, <1>0, <1>5 DEF LowInv
      <4>. QED BY <4>6, <4>7
    <3>. QED BY <3>1, <3>2, <3>3, <3>4, <3>5
  <2>. QED BY <2>1, <2>2
<1>17. DoneInv'
  BY <1>0, <1>1, <1>7, <1>9 DEF DoneInv
<1>. QED BY <1>10, <1>11, <1>12, <1>13, <1>14, <1>15, <1>16, <1>17 DEF TarjanInv

LEMMA StrongConnectKeeps ==
  ASSUME GraphInv, TarjanInv, StrongConnect, UNCHANGED <<nodes, edges>>
  PROVE  TarjanInv'
<1>1. PICK w : w = Min(nodes \ Seen)
  OBVIOUS
<1>2. w \in nodes /\ w \notin Seen
  <2>1. nodes \ Seen \subseteq Nat /\ nodes \ Seen # {}
    BY CountAssumption DEF GraphInv, Present, StrongConnect
  <2>2. PICK n \in nodes \ Seen : \A m \in nodes \ Seen : n <= m
    BY <2>1, NatMin
  <2>. QED BY <1>1, <2>2 DEF Min
<1>3. PICK fs : fs = frames
  OBVIOUS
<1>4. fs = <<>> /\ Open(w, fs)
  BY <1>1, <1>3, Zenon DEF StrongConnect
<1>5. fs \in Seq(FrameSet) /\ Len(fs) = Len(frames) /\ DOMAIN frames = {}
  BY <1>3, <1>4
<1>6. Stacked = {}
  BY <1>5 DEF TarjanInv, PathInv
<1>. QED BY <1>2, <1>4, <1>5, <1>6, OpenKeeps

LEMMA DescendKeeps ==
  ASSUME GraphInv, TarjanInv, Descend, UNCHANGED <<nodes, edges>>
  PROVE  TarjanInv'
<1>. USE SearchTypesGive
<1>0. /\ SearchTypes /\ AtKid /\ FrameInv /\ PathInv
  BY DEF TarjanInv, Descend
<1>1. PICK w : w = NextKid
  OBVIOUS
<1>2. PICK fs : fs = Popped
  OBVIOUS
<1>3. w \notin Seen /\ Open(w, fs)
  BY <1>1, <1>2, Zenon DEF Descend
<1>4. PICK k : k = Len(frames)
  OBVIOUS
<1>5. k \in DOMAIN frames /\ Top = frames[k] /\ DOMAIN frames = 1 .. k /\ k \in Nat
  BY <1>0, <1>4 DEF AtKid
<1>6. w \in frames[k].kids
  BY <1>0, <1>1, <1>5, NextKidIsKid
<1>7. PICK e \in edges : e.from = Gray(k) /\ e.to = w
  BY <1>0, <1>5, <1>6 DEF FrameInv, Out
<1>8. w \in nodes /\ Leads(Gray(k), w)
  BY <1>7, EdgeLeads DEF GraphInv
<1>9. ASSUME NEW x \in Stacked PROVE Leads(x, w)
  <2>1. PICK i \in DOMAIN frames : index[Gray(i)] <= index[x] /\ Leads(x, Gray(i))
    BY <1>0 DEF PathInv
  <2>2. index[Gray(i)] <= index[Gray(k)] /\ Gray(i) \in Stacked /\ Gray(k) \in Stacked
    BY <1>0, <1>5 DEF FrameInv
  <2>3. Leads(Gray(i), Gray(k))
    BY <1>0, <2>2 DEF PathInv
  <2>. QED BY <1>8, <2>1, <2>3, LeadsIs
<1>10. /\ fs \in Seq(FrameSet) /\ Len(fs) = Len(frames)
       /\ \A i \in DOMAIN frames :
            fs[i].node = Gray(i) /\ fs[i].kids \in {frames[i].kids, frames[i].kids \ {w}}
  BY <1>0, <1>1, <1>2, PoppedIs
<1>. QED BY <1>3, <1>8, <1>9, <1>10, OpenKeeps

(* An edge to a node already seen lowers the frame, if that is stacked.    *)
LEMMA KnownKidKeeps ==
  ASSUME GraphInv, TarjanInv, KnownKid, UNCHANGED <<nodes, edges>>
  PROVE  TarjanInv'
<1>. USE SearchTypesGive
<1>0. /\ SearchTypes /\ Numbered /\ StackInv /\ FrameInv /\ PathInv
      /\ EdgeInv /\ LowInv /\ DoneInv /\ AtKid
  BY DEF TarjanInv, KnownKid
<1>1. PICK w : w = NextKid
  OBVIOUS
<1>2. PICK k : k = Len(frames)
  OBVIOUS
<1>3. k \in DOMAIN frames /\ Top = frames[k] /\ DOMAIN frames = 1 .. k /\ k \in Nat
  BY <1>0, <1>2 DEF AtKid
<1>4. PICK v : v = Gray(k)
  OBVIOUS
<1>5. /\ w \in Seen /\ w \in frames[k].kids /\ v \in Stacked /\ Top.node = v
      /\ low' = [low EXCEPT ![v] = LowOf(w)] /\ frames' = Popped
      /\ index' = index /\ comp' = comp /\ stack' = stack /\ compID' = compID
      /\ edges' = edges /\ nodes' = nodes
  <2>1. Top.node = v
    BY <1>3, <1>4 DEF Gray
  <2>2. w \in frames[k].kids
    BY <1>0, <1>1, <1>3, NextKidIsKid
  <2>3. v \in Stacked
    BY <1>0, <1>3, <1>4 DEF FrameInv
  <2>. QED BY <2>1, <2>2, <2>3, <1>1 DEF KnownKid
<1>6. PICK l : l = LowOf(w)
  OBVIOUS
<1>7. /\ low[v] \in Nat /\ l \in Nat /\ l <= low[v] /\ l \in {low[v], index[w]}
      /\ w \in Stacked => l <= index[w]
      /\ l # low[v] => w \in Stacked
  <2>1. \E x \in Stacked : index[x] = low[v]
    BY <1>0, <1>3, <1>4 DEF LowInv
  <2>2. low[v] \in Nat /\ index[w] \in Nat
    BY <2>1, <1>0, <1>5
  <2>3. l = IF w \in Stacked THEN Smaller(low[v], index[w]) ELSE low[v]
    BY <1>0, <1>5, <1>6, OnStackIsStacked DEF LowOf
  <2>. QED BY <2>2, <2>3 DEF Smaller
<1>8. /\ low'[v] = l /\ \A x \in Node : x # v => low'[x] = low[x]
      /\ low' \in [Node -> Nat \cup {None}]
  BY <1>0, <1>5, <1>6, <1>7 DEF SearchTypes
<1>9. /\ frames' \in Seq(FrameSet) /\ DOMAIN frames' = 1 .. k
      /\ \A i \in 1 .. k : /\ Gray(i)' = Gray(i)
                           /\ frames'[i].kids = IF i = k THEN frames[i].kids \ {w} ELSE frames[i].kids
  <2>. HIDE DEF FrameSet
  <2>1. Popped \in Seq(FrameSet) /\ Len(Popped) = k
    BY <1>0, <1>2, PoppedIs
  <2>2. DOMAIN frames' = 1 .. k /\ frames' \in Seq(FrameSet)
    BY <2>1, <1>5
  <2>3. \A i \in 1 .. k : /\ Popped[i].node = Gray(i)
                          /\ Popped[i].kids = IF i = k THEN frames[i].kids \ {w} ELSE frames[i].kids
    BY <1>0, <1>1, <1>2, <1>3, PoppedIs
  <2>. QED BY <2>2, <2>3, <1>5 DEF Gray
<1>10. Seen' = Seen /\ Stacked' = Stacked
  BY <1>5 DEF Seen, Stacked
<1>11. \A a, b : Leads(a, b)' <=> Leads(a, b)
  BY LeadsStays
<1>12. \A i \in 1 .. k : Gray(i) \in Stacked /\ (i # k => Gray(i) # v /\ index[Gray(i)] < index[v])
  <2>. SUFFICES ASSUME NEW i \in 1 .. k
                PROVE  Gray(i) \in Stacked /\ (i # k => Gray(i) # v /\ index[Gray(i)] < index[v])
    OBVIOUS
  <2>1. Gray(i) \in Stacked
    BY <1>0, <1>3 DEF FrameInv
  <2>2. ASSUME i # k PROVE index[Gray(i)] < index[v]
    BY <2>2, <1>0, <1>3, <1>4 DEF FrameInv
  <2>3. index[v] \in Nat
    BY <1>0, <1>5
  <2>. QED BY <2>1, <2>2, <2>3
<1>13. \A e \in edges : /\ Waiting(e)' => Waiting(e)
                        /\ Waiting(e) => Waiting(e)' \/ (e.from = v /\ e.to = w)
  <2>. SUFFICES ASSUME NEW e \in edges
                PROVE  /\ Waiting(e)' => Waiting(e)
                       /\ Waiting(e) => Waiting(e)' \/ (e.from = v /\ e.to = w)
    OBVIOUS
  <2>1. Waiting(e)' <=> \E i \in 1 .. k : Gray(i)' = e.from /\ e.to \in frames'[i].kids
    BY <1>9 DEF Waiting
  <2>2. Waiting(e) <=> \E i \in 1 .. k : Gray(i) = e.from /\ e.to \in frames[i].kids
    BY <1>3 DEF Waiting
  <2>. QED BY <2>1, <2>2, <1>4, <1>9
<1>14. SearchTypes'
  BY <1>0, <1>5, <1>8, <1>9, <1>10 DEF SearchTypes, FrameSet
<1>15. Numbered' /\ StackInv'
  BY <1>0, <1>5, <1>10 DEF Numbered, StackInv, Comps
<1>16. FrameInv'
  <2>1. ASSUME NEW i \in 1 .. k
        PROVE  Gray(i)' \in Stacked' /\ frames'[i].kids \subseteq Out(Gray(i))'
    <3>1. frames[i].kids \subseteq Out(Gray(i))
      BY <1>0, <1>3 DEF FrameInv
    <3>2. Out(Gray(i))' = Out(Gray(i))
      BY <1>5, <1>9 DEF Out
    <3>. QED BY <3>1, <3>2, <1>9, <1>10, <1>12
  <2>2. ASSUME NEW i \in 1 .. k, NEW j \in 1 .. k, i < j
        PROVE  index'[Gray(i)'] < index'[Gray(j)']
    BY <2>2, <1>0, <1>3, <1>5, <1>9 DEF FrameInv
  <2>. QED BY <2>1, <2>2, <1>9 DEF FrameInv
<1>17. PathInv'
  <2>1. ASSUME NEW y \in Stacked
        PROVE  \E i \in 1 .. k : index'[Gray(i)'] <= index'[y] /\ Leads(y, Gray(i)')
    <3>1. PICK i \in 1 .. k : index[Gray(i)] <= index[y] /\ Leads(y, Gray(i))
      BY <1>0, <1>3 DEF PathInv
    <3>. QED BY <3>1, <1>5, <1>9
  <2>2. \A x, y \in Stacked : index'[x] <= index'[y] => Leads(x, y)
    BY <1>0, <1>5 DEF PathInv
  <2>. QED BY <2>1, <2>2, <1>9, <1>10, <1>11 DEF PathInv
<1>18. EdgeInv'
  <2>. SUFFICES ASSUME NEW e \in edges
                PROVE  /\ e.from \in Seen /\ ~Waiting(e)' => e.to \in Seen
                       /\ comp[e.from] # None => comp[e.to] # None /\ comp[e.to] <= comp[e.from]
    BY <1>5, <1>10 DEF EdgeInv
  <2>. QED BY <1>0, <1>5, <1>13 DEF EdgeInv
<1>19. LowInv'
  <2>. SUFFICES ASSUME NEW i \in 1 .. k
                PROVE  /\ low'[Gray(i)] <= index[Gray(i)]
                       /\ \E x \in Stacked : index[x] = low'[Gray(i)] /\ Leads(Gray(i), x)
                       /\ \A e \in edges : Under(i, e.from)' /\ ~Waiting(e)' /\ e.to \in Stacked
                                             => low'[Gray(i)] <= index[e.to]
    <3>1. ASSUME NEW i \in 1 .. k,
                 /\ low'[Gray(i)] <= index[Gray(i)]
                 /\ \E x \in Stacked : index[x] = low'[Gray(i)] /\ Leads(Gray(i), x)
                 /\ \A e \in edges : Under(i, e.from)' /\ ~Waiting(e)' /\ e.to \in Stacked
                                       => low'[Gray(i)] <= index[e.to]
          PROVE  /\ low'[Gray(i)'] <= index'[Gray(i)']
                 /\ \E x \in Stacked' : index'[x] = low'[Gray(i)'] /\ Leads(Gray(i)', x)
                 /\ \A e \in edges' : Under(i, e.from)' /\ ~Waiting(e)' /\ e.to \in Stacked'
                                        => low'[Gray(i)'] <= index'[e.to]
      <4>1. Gray(i)' = Gray(i)
        BY <1>9
      <4>. QED BY <3>1, <4>1, <1>5, <1>10
    <3>. QED BY <3>1, <1>9, <1>11 DEF LowInv
  <2>0. /\ low[Gray(i)] <= index[Gray(i)]
        /\ \E x \in Stacked : index[x] = low[Gray(i)] /\ Leads(Gray(i), x)
        /\ \A e \in edges : Under(i, e.from) /\ ~Waiting(e) /\ e.to \in Stacked
                              => low[Gray(i)] <= index[e.to]
    BY <1>0, <1>3 DEF LowInv
  <2>1. \A x : Under(i, x)' <=> Under(i, x)
    <3>1. i + 1 \in 1 .. k => Gray(i + 1)' = Gray(i + 1)
      BY <1>9
    <3>. QED BY <3>1, <1>3, <1>5, <1>9, <1>10 DEF Under
  <2>2. CASE i = k
    <3>1. Gray(i) = v
      BY <2>2, <1>4
    <3>2. index[v] \in Nat /\ low'[v] <= index[v]
      BY <2>0, <3>1, <1>0, <1>5, <1>7, <1>8
    <3>3. \E x \in Stacked : index[x] = low'[v] /\ Leads(v, x)
      <4>1. CASE l = low[v]
        BY <4>1, <2>0, <3>1, <1>8
      <4>2. CASE l # low[v]
        <5>1. w \in Stacked /\ index[w] = low'[v]
          BY <4>2, <1>7, <1>8
        <5>2. PICK e \in edges : e.from = v /\ e.to = w
          BY <1>0, <1>3, <1>4, <1>5 DEF FrameInv, Out
        <5>. QED BY <5>1, <5>2, EdgeLeads
      <4>. QED BY <4>1, <4>2
    <3>4. ASSUME NEW e \in edges, Under(i, e.from)', ~Waiting(e)', e.to \in Stacked
          PROVE  low'[v] <= index[e.to]
      <4>1. CASE ~Waiting(e)
        <5>1. low[v] <= index[e.to] /\ index[e.to] \in Nat
          BY <4>1, <3>4, <2>0, <2>1, <3>1, <1>0
        <5>. QED BY <5>1, <1>7, <1>8
      <4>2. CASE Waiting(e)
        BY <4>2, <3>4, <1>7, <1>8, <1>13
      <4>. QED BY <4>1, <4>2
    <3>. QED BY <3>1, <3>2, <3>3, <3>4
  <2>3. CASE i # k
    <3>1. low'[Gray(i)] = low[Gray(i)]
      BY <2>3, <1>0, <1>8, <1>12
    <3>2. ASSUME NEW e \in edges, Under(i, e.from)', ~Waiting(e)'
          PROVE  ~Waiting(e)
      <4>1. index[e.from] < index[Gray(i + 1)] /\ Under(i, e.from)
        BY <2>1, <2>3, <3>2, <1>3 DEF Under
      <4>2. index[Gray(i + 1)] <= index[v] /\ index[v] \in Nat /\ index[Gray(i + 1)] \in Nat
        <5>1. i + 1 \in 1 .. k
          BY <2>3, <1>3
        <5>. QED BY <5>1, <1>0, <1>4, <1>5, <1>12
      <4>3. index[e.from] \in Nat
        BY <4>1, <1>0 DEF Under
      <4>4. e.from # v
        BY <4>1, <4>2, <4>3
      <4>. QED BY <4>4, <3>2, <1>13
    <3>. QED BY <2>0, <2>1, <3>1, <3>2
  <2>. QED BY <2>2, <2>3
<1>20. DoneInv'
  BY <1>0, <1>5, <1>11 DEF DoneInv
<1>. QED BY <1>14, <1>15, <1>16, <1>17, <1>18, <1>19, <1>20 DEF TarjanInv

(* What every finished frame leaves: the frames below it, with theirs.     *)
FinishFacts(k, v) ==
  /\ k \in Nat \ {0} /\ k = Len(frames) /\ DOMAIN frames = 1 .. k /\ v = Gray(k)
  /\ v \in Stacked /\ v \in Node /\ index[v] \in Nat /\ frames[k].kids = {} /\ Top.node = v
  /\ frames' \in Seq(FrameSet) /\ DOMAIN frames' = 1 .. k - 1
  /\ \A i \in 1 .. k - 1 : frames'[i] = frames[i] /\ Gray(i)' = Gray(i)
  /\ \A i \in 1 .. k : Gray(i) \in Stacked
  /\ \A i \in 1 .. k - 1 : index[Gray(i)] < index[v] /\ Gray(i) # v
  /\ \A i, j \in 1 .. k : i < j => index[Gray(i)] < index[Gray(j)]
  /\ \A e \in edges : Waiting(e)' <=> Waiting(e)
  /\ \A e \in edges : Under(k, e.from) => ~Waiting(e)
  /\ index' = index /\ low' = LowAfter(v) /\ edges' = edges /\ nodes' = nodes

LEMMA FinishGives ==
  ASSUME GraphInv, TarjanInv, Finish, UNCHANGED <<nodes, edges>>
  PROVE  \E k, v : FinishFacts(k, v)
<1>. USE SearchTypesGive
<1>0. SearchTypes /\ FrameInv
  BY DEF TarjanInv
<1>1. frames # <<>> /\ Top.kids = {} /\ frames' = Front(frames) /\ low' = LowAfter(Top.node) /\ index' = index
  BY DEF Finish
<1>2. PICK k : k = Len(frames)
  OBVIOUS
<1>3. PICK v : v = Gray(k)
  OBVIOUS
<1>4. k \in Nat \ {0} /\ k \in DOMAIN frames /\ DOMAIN frames = 1 .. k /\ Top = frames[k]
  BY <1>0, <1>1, <1>2
<1>5. Top.node = v /\ frames[k].kids = {}
  BY <1>1, <1>3, <1>4 DEF Gray
<1>6. /\ frames' \in Seq(FrameSet) /\ DOMAIN frames' = 1 .. k - 1
      /\ \A i \in 1 .. k - 1 : frames'[i] = frames[i]
  <2>1. frames \in Seq(FrameSet)
    BY <1>0 DEF SearchTypes, FrameSet
  <2>. HIDE DEF FrameSet
  <2>. QED BY <2>1, <1>1, <1>2, FrontIs
<1>7. \A i \in 1 .. k - 1 : Gray(i)' = Gray(i)
  BY <1>6 DEF Gray
<1>8. \A i, j \in 1 .. k : i < j => index[Gray(i)] < index[Gray(j)]
  BY <1>0, <1>4 DEF FrameInv
<1>9. \A i \in 1 .. k : Gray(i) \in Stacked /\ index[Gray(i)] \in Nat
  BY <1>0, <1>4 DEF FrameInv
<1>10. \A i \in 1 .. k - 1 : index[Gray(i)] < index[v] /\ Gray(i) # v
  <2>. SUFFICES ASSUME NEW i \in 1 .. k - 1 PROVE index[Gray(i)] < index[v] /\ Gray(i) # v
    OBVIOUS
  <2>1. index[Gray(i)] < index[v]
    BY <1>3, <1>4, <1>8
  <2>. QED BY <2>1, <1>3, <1>4, <1>9
<1>11. \A e \in edges : Waiting(e)' <=> Waiting(e)
  <2>. SUFFICES ASSUME NEW e \in edges PROVE Waiting(e)' <=> Waiting(e)
    OBVIOUS
  <2>1. Waiting(e)' <=> \E i \in 1 .. k - 1 : Gray(i)' = e.from /\ e.to \in frames'[i].kids
    BY <1>6 DEF Waiting
  <2>2. Waiting(e) <=> \E i \in 1 .. k : Gray(i) = e.from /\ e.to \in frames[i].kids
    BY <1>4 DEF Waiting
  <2>. QED BY <2>1, <2>2, <1>4, <1>5, <1>6, <1>7
<1>12. \A e \in edges : Under(k, e.from) => ~Waiting(e)
  <2>. SUFFICES ASSUME NEW e \in edges, Under(k, e.from), Waiting(e) PROVE FALSE
    OBVIOUS
  <2>1. PICK i \in 1 .. k : Gray(i) = e.from /\ e.to \in frames[i].kids
    BY <1>4 DEF Waiting
  <2>2. i \in 1 .. k - 1
    BY <2>1, <1>4, <1>5
  <2>3. index[v] <= index[e.from]
    BY <1>3 DEF Under
  <2>. QED BY <2>1, <2>2, <2>3, <1>3, <1>4, <1>9, <1>10
<1>13. v \in Stacked /\ v \in Node /\ index[v] \in Nat
  BY <1>0, <1>3, <1>4, <1>9
<1>. QED BY <1>1, <1>2, <1>3, <1>4, <1>5, <1>6, <1>7, <1>8, <1>9, <1>10, <1>11, <1>12, <1>13
         DEF FinishFacts

(* The frame of a node that leads lower: its parent takes over what is     *)
(* under it.                                                               *)
LEMMA FinishOpenKeeps ==
  ASSUME GraphInv, TarjanInv, NEW k, NEW v, FinishFacts(k, v), low[v] # index[v],
         UNCHANGED <<stack, comp, compID>>
  PROVE  TarjanInv'
<1>. USE SearchTypesGive
<1>0. /\ SearchTypes /\ Numbered /\ StackInv /\ FrameInv /\ PathInv
      /\ EdgeInv /\ LowInv /\ DoneInv
  BY DEF TarjanInv
<1>1. /\ k \in Nat \ {0} /\ DOMAIN frames = 1 .. k /\ v = Gray(k)
      /\ v \in Stacked /\ v \in Node /\ index[v] \in Nat
      /\ frames' \in Seq(FrameSet) /\ DOMAIN frames' = 1 .. k - 1
      /\ \A i \in 1 .. k - 1 : frames'[i] = frames[i] /\ Gray(i)' = Gray(i)
      /\ index' = index /\ edges' = edges /\ nodes' = nodes
      /\ k = Len(frames) /\ low' = LowAfter(v)
  BY DEF FinishFacts
<1>2. /\ \A i \in 1 .. k : Gray(i) \in Stacked
      /\ \A i \in 1 .. k - 1 : index[Gray(i)] < index[v] /\ Gray(i) # v
      /\ \A i, j \in 1 .. k : i < j => index[Gray(i)] < index[Gray(j)]
      /\ \A e \in edges : Waiting(e)' <=> Waiting(e)
      /\ \A e \in edges : Under(k, e.from) => ~Waiting(e)
  BY DEF FinishFacts
<1>3. PICK w \in Stacked : index[w] = low[v] /\ Leads(v, w)
  BY <1>0, <1>1 DEF LowInv
<1>4. index[w] \in Nat /\ index[w] < index[v]
  <2>1. low[v] <= index[v]
    BY <1>0, <1>1 DEF LowInv
  <2>. QED BY <2>1, <1>0, <1>1, <1>3
<1>5. PICK d \in 1 .. k - 1 : index[Gray(d)] <= index[w] /\ Leads(w, Gray(d))
  <2>1. PICK i \in 1 .. k : index[Gray(i)] <= index[w] /\ Leads(w, Gray(i))
    BY <1>0, <1>1, <1>3 DEF PathInv
  <2>2. ASSUME i = k PROVE FALSE
    <3>1. Gray(i) = v /\ index[v] \in Nat
      BY <2>2, <1>1
    <3>. QED BY <2>1, <3>1, <1>4
  <2>3. k \in Nat /\ i \in 1 .. k
    BY <1>1
  <2>4. i \in 1 .. k - 1
    BY <2>2, <2>3
  <2>. QED BY <2>1, <2>4
<1>6. PICK p : p = Gray(k - 1)
  OBVIOUS
<1>7. PICK l : l = Smaller(low[p], low[v])
  OBVIOUS
<1>8. k - 1 \in 1 .. k - 1 /\ k > 1 /\ p \in Stacked /\ p \in Node /\ index[p] < index[v] /\ index[p] \in Nat
  BY <1>0, <1>1, <1>2, <1>5, <1>6
<1>9. low[p] \in Nat /\ low[p] <= index[p] /\ l \in Nat /\ l <= low[p] /\ l <= low[v] /\ l \in {low[p], low[v]}
  <2>1. PICK x \in Stacked : index[x] = low[p]
    BY <1>0, <1>1, <1>6, <1>8 DEF LowInv
  <2>2. low[p] <= index[p]
    BY <1>0, <1>1, <1>6, <1>8 DEF LowInv
  <2>. QED BY <2>1, <2>2, <1>0, <1>3, <1>4, <1>7 DEF Smaller
<1>10. /\ low'[p] = l /\ \A x \in Node : x # p => low'[x] = low[x]
       /\ low' \in [Node -> Nat \cup {None}]
  <2>1. low' = [low EXCEPT ![p] = l]
    BY <1>1, <1>6, <1>7, <1>8 DEF LowAfter, Parent, Gray
  <2>. QED BY <2>1, <1>0, <1>8, <1>9 DEF SearchTypes
<1>11. Seen' = Seen /\ Stacked' = Stacked
  BY <1>1 DEF Seen, Stacked
<1>12. \A a, b : Leads(a, b)' <=> Leads(a, b)
  BY <1>1, LeadsStays
<1>13. SearchTypes'
  BY <1>0, <1>1, <1>10, <1>11 DEF SearchTypes, FrameSet
<1>14. Numbered' /\ StackInv'
  BY <1>0, <1>1, <1>11 DEF Numbered, StackInv, Comps
<1>15. FrameInv'
  <2>1. ASSUME NEW i \in 1 .. k - 1
        PROVE  Gray(i)' \in Stacked' /\ frames'[i].kids \subseteq Out(Gray(i))'
    <3>1. frames[i].kids \subseteq Out(Gray(i))
      BY <1>0, <1>1 DEF FrameInv
    <3>2. Out(Gray(i))' = Out(Gray(i))
      BY <1>1 DEF Out
    <3>. QED BY <3>1, <3>2, <1>1, <1>2, <1>11
  <2>2. ASSUME NEW i \in 1 .. k - 1, NEW j \in 1 .. k - 1, i < j
        PROVE  index'[Gray(i)'] < index'[Gray(j)']
    BY <2>2, <1>1, <1>2
  <2>. QED BY <2>1, <2>2, <1>1 DEF FrameInv
<1>16. PathInv'
  <2>1. ASSUME NEW y \in Stacked
        PROVE  \E i \in 1 .. k - 1 : index'[Gray(i)'] <= index'[y] /\ Leads(y, Gray(i)')
    <3>1. PICK i \in 1 .. k : index[Gray(i)] <= index[y] /\ Leads(y, Gray(i))
      BY <1>0, <1>1 DEF PathInv
    <3>2. CASE i # k
      <4>1. k \in Nat
        BY <1>1
      <4>2. i \in 1 .. k - 1
        BY <3>2, <4>1
      <4>3. Gray(i)' = Gray(i) /\ index' = index
        BY <4>2, <1>1
      <4>. QED BY <3>1, <4>2, <4>3
    <3>3. CASE i = k
      <4>1. Leads(y, Gray(d))
        BY <3>1, <3>3, <1>1, <1>3, <1>5, LeadsIs
      <4>2. index[Gray(d)] <= index[y]
        BY <3>1, <3>3, <1>0, <1>1, <1>2, <1>5
      <4>. QED BY <4>1, <4>2, <1>1
    <3>. QED BY <3>2, <3>3
  <2>2. \A x, y \in Stacked : index'[x] <= index'[y] => Leads(x, y)
    BY <1>0, <1>1 DEF PathInv
  <2>. QED BY <2>1, <2>2, <1>1, <1>11, <1>12 DEF PathInv
<1>17. EdgeInv'
  <2>. SUFFICES ASSUME NEW e \in edges
                PROVE  /\ e.from \in Seen /\ ~Waiting(e)' => e.to \in Seen
                       /\ comp[e.from] # None => comp[e.to] # None /\ comp[e.to] <= comp[e.from]
    BY <1>1, <1>11 DEF EdgeInv
  <2>. QED BY <1>0, <1>2 DEF EdgeInv
<1>18. LowInv'
  <2>. SUFFICES ASSUME NEW i \in 1 .. k - 1
                PROVE  /\ low'[Gray(i)] <= index[Gray(i)]
                       /\ \E x \in Stacked : index[x] = low'[Gray(i)] /\ Leads(Gray(i), x)
                       /\ \A e \in edges : Under(i, e.from)' /\ ~Waiting(e) /\ e.to \in Stacked
                                             => low'[Gray(i)] <= index[e.to]
    <3>1. ASSUME NEW i \in 1 .. k - 1,
                 /\ low'[Gray(i)] <= index[Gray(i)]
                 /\ \E x \in Stacked : index[x] = low'[Gray(i)] /\ Leads(Gray(i), x)
                 /\ \A e \in edges : Under(i, e.from)' /\ ~Waiting(e) /\ e.to \in Stacked
                                       => low'[Gray(i)] <= index[e.to]
          PROVE  /\ low'[Gray(i)'] <= index'[Gray(i)']
                 /\ \E x \in Stacked' : index'[x] = low'[Gray(i)'] /\ Leads(Gray(i)', x)
                 /\ \A e \in edges' : Under(i, e.from)' /\ ~Waiting(e)' /\ e.to \in Stacked'
                                        => low'[Gray(i)'] <= index'[e.to]
      <4>1. Gray(i)' = Gray(i)
        BY <1>1
      <4>. QED BY <3>1, <4>1, <1>1, <1>2, <1>11
    <3>. QED BY <3>1, <1>1, <1>12 DEF LowInv
  <2>0. /\ low[Gray(i)] <= index[Gray(i)]
        /\ \E x \in Stacked : index[x] = low[Gray(i)] /\ Leads(Gray(i), x)
        /\ \A e \in edges : Under(i, e.from) /\ ~Waiting(e) /\ e.to \in Stacked
                              => low[Gray(i)] <= index[e.to]
        /\ Gray(i)' = Gray(i) /\ Gray(i) \in Node
    <3>1. i \in DOMAIN frames
      BY <1>1
    <3>2. Gray(i)' = Gray(i) /\ Gray(i) \in Node
      BY <3>1, <1>0, <1>1
    <3>. QED BY <3>1, <3>2, <1>0 DEF LowInv
  <2>1. CASE i = k - 1
    <3>0. Gray(i) = p
      BY <2>1, <1>6
    <3>1. \E x \in Stacked : index[x] = l /\ Leads(p, x)
      <4>1. CASE l = low[p]
        BY <4>1, <2>0, <3>0
      <4>2. CASE l = low[v]
        <5>1. Leads(p, v)
          BY <1>0, <1>1, <1>8 DEF PathInv
        <5>. QED BY <4>2, <5>1, <1>3, LeadsIs
      <4>. QED BY <4>1, <4>2, <1>9
    <3>2. ASSUME NEW e \in edges, Under(i, e.from)', ~Waiting(e), e.to \in Stacked
          PROVE  l <= index[e.to]
      <4>1. e.from \in Stacked /\ index[p] <= index[e.from] /\ index[e.from] \in Nat /\ index[e.to] \in Nat
        BY <2>0, <3>0, <3>2, <1>0, <1>1, <1>11 DEF Under
      <4>2. CASE index[e.from] < index[v]
        <5>1. Under(i, e.from)
          BY <4>1, <4>2, <2>1, <3>0, <1>1 DEF Under
        <5>. QED BY <5>1, <3>0, <3>2, <2>0, <4>1, <1>9
      <4>3. CASE ~(index[e.from] < index[v])
        <5>1. Under(k, e.from)
          BY <4>1, <4>3, <1>1 DEF Under
        <5>2. low[v] <= index[e.to]
          BY <5>1, <3>2, <1>0, <1>1 DEF LowInv
        <5>. QED BY <5>2, <4>1, <1>3, <1>4, <1>9
      <4>. QED BY <4>2, <4>3
    <3>. QED BY <3>0, <3>1, <3>2, <1>8, <1>9, <1>10
  <2>2. CASE i # k - 1
    <3>1. Gray(i) # p /\ low'[Gray(i)] = low[Gray(i)]
      <4>1. index[Gray(i)] < index[p] /\ index[Gray(i)] \in Nat
        BY <2>2, <1>0, <1>1, <1>2, <1>6, <1>8
      <4>2. Gray(i) # p
        BY <4>1, <1>8
      <4>. QED BY <4>2, <2>0, <1>10
    <3>4. k \in Nat /\ \A j \in 1 .. k - 1 : Gray(j)' = Gray(j)
      BY <1>1
    <3>5. PICK j : j = i + 1
      OBVIOUS
    <3>6. j \in 1 .. k - 1 /\ j \in 1 .. k
      BY <2>2, <3>4, <3>5
    <3>2. i + 1 \in 1 .. k - 1 /\ i + 1 \in 1 .. k /\ Gray(i + 1)' = Gray(i + 1)
      BY <3>4, <3>5, <3>6
    <3>3. \A x : Under(i, x)' <=> Under(i, x)
      BY <2>0, <3>2, <1>1, <1>11 DEF Under
    <3>. QED BY <2>0, <3>1, <3>3
  <2>. QED BY <2>1, <2>2
<1>19. DoneInv'
  BY <1>0, <1>1, <1>12 DEF DoneInv
<1>. QED BY <1>13, <1>14, <1>15, <1>16, <1>17, <1>18, <1>19 DEF TarjanInv

(* The frame of a node that leads no lower: all that was stacked since it  *)
(* is a component.                                                         *)
LEMMA FinishClosedKeeps ==
  ASSUME GraphInv, TarjanInv, Finish, NEW k, NEW v, FinishFacts(k, v), low[v] = index[v],
         UNCHANGED <<nodes, edges>>
  PROVE  TarjanInv'
<1>. USE SearchTypesGive
<1>0. /\ SearchTypes /\ Numbered /\ StackInv /\ FrameInv /\ PathInv
      /\ EdgeInv /\ LowInv /\ DoneInv
  BY DEF TarjanInv
<1>1. /\ k \in Nat \ {0} /\ DOMAIN frames = 1 .. k /\ v = Gray(k)
      /\ v \in Stacked /\ v \in Node /\ index[v] \in Nat /\ Top.node = v
      /\ frames' \in Seq(FrameSet) /\ DOMAIN frames' = 1 .. k - 1
      /\ \A i \in 1 .. k - 1 : frames'[i] = frames[i] /\ Gray(i)' = Gray(i)
      /\ index' = index /\ edges' = edges /\ nodes' = nodes
      /\ k = Len(frames) /\ low' = LowAfter(v)
  BY DEF FinishFacts
<1>2. /\ \A i \in 1 .. k : Gray(i) \in Stacked
      /\ \A i \in 1 .. k - 1 : index[Gray(i)] < index[v] /\ Gray(i) # v
      /\ \A i, j \in 1 .. k : i < j => index[Gray(i)] < index[Gray(j)]
      /\ \A e \in edges : Waiting(e)' <=> Waiting(e)
      /\ \A e \in edges : Under(k, e.from) => ~Waiting(e)
  BY DEF FinishFacts
<1>3. PICK at : at = CHOOSE i \in DOMAIN stack : stack[i] = v
  OBVIOUS
<1>4. at \in DOMAIN stack /\ stack[at] = v /\ DOMAIN stack = 1 .. Len(stack) /\ Len(stack) \in Nat
      /\ at \in 1 .. Len(stack)
  <2>1. \E i \in DOMAIN stack : stack[i] = v
    BY <1>0, <1>1 DEF StackInv
  <2>. QED BY <2>1, <1>0, <1>3
<1>5. PICK M : M = {n \in Stacked : index[v] <= index[n]}
  OBVIOUS
<1>6. {stack[i] : i \in at .. Len(stack)} = M
  <2>1. ASSUME NEW i \in at .. Len(stack) PROVE stack[i] \in M
    <3>1. i \in DOMAIN stack /\ stack[i] \in Stacked
      BY <1>0, <1>4 DEF StackInv
    <3>2. i = at \/ index[v] < index[stack[i]]
      BY <3>1, <1>0, <1>4 DEF StackInv
    <3>3. index[stack[i]] \in Nat
      BY <3>1, <1>0
    <3>. QED BY <3>1, <3>2, <3>3, <1>1, <1>4, <1>5
  <2>2. ASSUME NEW n \in M PROVE n \in {stack[i] : i \in at .. Len(stack)}
    <3>1. PICK i \in DOMAIN stack : stack[i] = n
      BY <1>0, <1>5 DEF StackInv
    <3>2. ~(i < at)
      <4>1. ASSUME i < at PROVE FALSE
        <5>1. index[n] < index[v]
          BY <4>1, <3>1, <1>0, <1>4 DEF StackInv
        <5>2. index[n] \in Nat /\ index[v] <= index[n]
          BY <1>0, <1>5
        <5>. QED BY <5>1, <5>2, <1>1
      <4>. QED BY <4>1
    <3>. QED BY <3>1, <3>2, <1>4
  <2>. QED BY <2>1, <2>2
<1>7. /\ stack' = SubSeq(stack, 1, at - 1) /\ compID' = compID + 1
      /\ comp' = [n \in Node |-> IF n \in M THEN compID ELSE comp[n]]
  <2>. DEFINE t == Top.node
              a == CHOOSE i \in DOMAIN stack : stack[i] = t
              ms == {stack[i] : i \in a .. Len(stack)}
  <2>1. IF low[t] = index[t]
        THEN /\ stack' = SubSeq(stack, 1, a - 1)
             /\ comp' = [n \in Node |-> IF n \in ms THEN compID ELSE comp[n]]
             /\ compID' = compID + 1
        ELSE UNCHANGED <<stack, comp, compID>>
    BY Zenon DEF Finish
  <2>2. t = v
    BY <1>1
  <2>3. a = at
    BY <1>3, <2>2, Zenon
  <2>4. ms = M
    BY <1>6, <2>3
  <2>. HIDE DEF t, a, ms
  <2>5. low[t] = index[t]
    BY <2>2
  <2>. QED BY <2>1, <2>3, <2>4, <2>5
<1>8. /\ v \in M /\ \A n \in M : n \in Stacked /\ n \in Node /\ comp[n] = None /\ index[n] \in Nat
      /\ \A n \in M : comp'[n] = compID
      /\ \A n \in Node : n \notin M => comp'[n] = comp[n]
      /\ compID \in Nat
  BY <1>0, <1>1, <1>5, <1>7 DEF SearchTypes
<1>9. /\ Seen' = Seen /\ Stacked' = Stacked \ M
      /\ \A n : n \in Stacked' <=> n \in Stacked /\ index[n] < index[v]
  <2>1. Seen' = Seen
    BY <1>1 DEF Seen
  <2>2. compID # None
    BY <1>8 DEF None
  <2>3. Stacked' = Stacked \ M
    BY <2>1, <2>2, <1>0, <1>8 DEF Stacked
  <2>. QED BY <2>1, <2>3, <1>0, <1>1, <1>5
<1>10. \A a, b : Leads(a, b)' <=> Leads(a, b)
  BY <1>1, LeadsStays
<1>11. \A i \in 1 .. k - 1 : Gray(i) \in Stacked' /\ Gray(i) \in Stacked /\ Gray(i) \in Node
                             /\ index[Gray(i)] < index[v] /\ index[Gray(i)] \in Nat
  BY <1>0, <1>1, <1>2, <1>9
(* No edge leads out of the component but to one closed before.            *)
<1>12. ASSUME NEW e \in edges, e.from \in M
       PROVE  e.to \in M \/ (e.to \in nodes /\ comp[e.to] # None /\ comp[e.to] < compID)
  <2>1. Under(k, e.from)
    BY <1>1, <1>5, <1>12 DEF Under
  <2>2. e.to \in Seen /\ e.from \in Seen /\ e.to \in Node
    BY <2>1, <1>0, <1>2, <1>8, <1>12 DEF EdgeInv
  <2>3. CASE comp[e.to] = None
    <3>1. e.to \in Stacked
      BY <2>2, <2>3 DEF Stacked
    <3>2. index[v] <= index[e.to]
      BY <2>1, <3>1, <1>0, <1>1, <1>2 DEF LowInv
    <3>. QED BY <3>1, <3>2, <1>5
  <2>4. CASE comp[e.to] # None
    BY <2>2, <2>4, <1>0 DEF Numbered, SearchTypes
  <2>. QED BY <2>3, <2>4
<1>13. SearchTypes'
  <2>1. stack' \in Seq(Node)
    <3>1. at - 1 \in 0 .. Len(stack) /\ stack \in Seq(Node)
      BY <1>0, <1>4 DEF SearchTypes
    <3>. QED BY <3>1, <1>7, PrefixIs
  <2>2. comp' \in [Node -> Nat \cup {None}] /\ compID' \in Nat
    BY <1>0, <1>7, <1>8 DEF SearchTypes
  <2>3. low' \in [Node -> Nat \cup {None}]
    <3>1. low[v] \in Nat \cup {None}
      BY <1>0, <1>1 DEF SearchTypes
    <3>. QED BY <3>1, <1>0, <1>1 DEF SearchTypes, LowAfter, Smaller
  <2>. QED BY <2>1, <2>2, <2>3, <1>0, <1>1, <1>9 DEF SearchTypes, FrameSet
<1>14. Numbered'
  <2>1. \A n \in Node : comp'[n] # None => n \in Seen /\ comp'[n] < compID + 1
    <3>. SUFFICES ASSUME NEW n \in Node, comp'[n] # None
                  PROVE  n \in Seen /\ comp'[n] < compID + 1
      OBVIOUS
    <3>1. CASE n \in M
      BY <3>1, <1>0, <1>8
    <3>2. CASE n \notin M
      <4>1. comp'[n] = comp[n] /\ n \in Seen /\ comp[n] < compID /\ comp[n] \in Nat
        BY <3>2, <1>0, <1>8 DEF Numbered, SearchTypes
      <4>. QED BY <4>1, <1>8
    <3>. QED BY <3>1, <3>2
  <2>2. \A c \in 0 .. compID : \E n \in Node : comp'[n] = c
    <3>. SUFFICES ASSUME NEW c \in 0 .. compID PROVE \E n \in Node : comp'[n] = c
      OBVIOUS
    <3>1. CASE c = compID
      BY <3>1, <1>8
    <3>2. CASE c # compID
      <4>1. c \in Comps
        BY <3>2, <1>8 DEF Comps
      <4>2. PICK n \in Node : comp[n] = c
        BY <4>1, <1>0 DEF Numbered
      <4>3. c # None
        BY DEF None
      <4>. QED BY <4>2, <4>3, <1>8
    <3>. QED BY <3>1, <3>2
  <2>3. Comps' = 0 .. compID
    BY <1>7, <1>8 DEF Comps
  <2>. QED BY <2>1, <2>2, <2>3, <1>0, <1>1, <1>7, <1>9 DEF Numbered
<1>15. StackInv'
  <2>1. /\ DOMAIN stack' = 1 .. at - 1
        /\ \A i \in 1 .. at - 1 : stack'[i] = stack[i]
    <3>1. at - 1 \in 0 .. Len(stack) /\ stack \in Seq(Node)
      BY <1>0, <1>4 DEF SearchTypes
    <3>. QED BY <3>1, <1>7, PrefixIs
  <2>2. ASSUME NEW i \in 1 .. at - 1 PROVE stack[i] \in Stacked'
    <3>1. i \in DOMAIN stack /\ i < at
      BY <1>4
    <3>2. stack[i] \in Stacked /\ index[stack[i]] < index[v]
      BY <3>1, <1>0, <1>4 DEF StackInv
    <3>. QED BY <3>2, <1>9
  <2>3. ASSUME NEW n \in Stacked' PROVE \E i \in 1 .. at - 1 : stack[i] = n
    <3>1. n \in Stacked /\ index[n] < index[v] /\ index[n] \in Nat
      BY <1>0, <1>9
    <3>2. PICK i \in DOMAIN stack : stack[i] = n
      BY <3>1, <1>0 DEF StackInv
    <3>3. i # at
      BY <3>1, <3>2, <1>1, <1>4
    <3>4. ~(at < i)
      <4>1. ASSUME at < i PROVE FALSE
        <5>1. index[v] < index[n]
          BY <4>1, <3>2, <1>0, <1>4 DEF StackInv
        <5>. QED BY <5>1, <3>1, <1>1
      <4>. QED BY <4>1
    <3>5. i \in 1 .. at - 1
      BY <3>2, <3>3, <3>4, <1>4
    <3>. QED BY <3>2, <3>5
  <2>4. ASSUME NEW i \in 1 .. at - 1, NEW j \in 1 .. at - 1, i < j
        PROVE  index[stack[i]] < index[stack[j]]
    <3>1. i \in DOMAIN stack /\ j \in DOMAIN stack
      BY <1>4
    <3>. QED BY <2>4, <3>1, <1>0 DEF StackInv
  <2>. QED BY <2>1, <2>2, <2>3, <2>4, <1>1 DEF StackInv
<1>16. FrameInv'
  <2>1. ASSUME NEW i \in 1 .. k - 1
        PROVE  Gray(i)' \in Stacked' /\ frames'[i].kids \subseteq Out(Gray(i))'
    <3>1. frames[i].kids \subseteq Out(Gray(i))
      BY <1>0, <1>1 DEF FrameInv
    <3>2. Out(Gray(i))' = Out(Gray(i))
      BY <1>1 DEF Out
    <3>. QED BY <3>1, <3>2, <1>1, <1>11
  <2>2. ASSUME NEW i \in 1 .. k - 1, NEW j \in 1 .. k - 1, i < j
        PROVE  index'[Gray(i)'] < index'[Gray(j)']
    BY <2>2, <1>1, <1>2
  <2>. QED BY <2>1, <2>2, <1>1 DEF FrameInv
<1>17. PathInv'
  <2>1. ASSUME NEW y \in Stacked'
        PROVE  \E i \in 1 .. k - 1 : index'[Gray(i)'] <= index'[y] /\ Leads(y, Gray(i)')
    <3>0. y \in Stacked /\ index[y] < index[v] /\ index[y] \in Nat
      BY <1>0, <1>9
    <3>1. PICK i \in 1 .. k : index[Gray(i)] <= index[y] /\ Leads(y, Gray(i))
      BY <3>0, <1>0, <1>1 DEF PathInv
    <3>2. ASSUME i = k PROVE FALSE
      <4>1. Gray(i) = v /\ index[v] \in Nat
        BY <3>2, <1>1
      <4>. QED BY <4>1, <3>0, <3>1
    <3>3. k \in Nat
      BY <1>1
    <3>4. i \in 1 .. k - 1
      BY <3>2, <3>3
    <3>5. Gray(i)' = Gray(i) /\ index' = index
      BY <3>4, <1>1
    <3>. QED BY <3>1, <3>4, <3>5
  <2>2. \A x, y \in Stacked' : index'[x] <= index'[y] => Leads(x, y)
    BY <1>0, <1>1, <1>9 DEF PathInv
  <2>. QED BY <2>1, <2>2, <1>1, <1>10 DEF PathInv
<1>18. EdgeInv'
  <2>. SUFFICES ASSUME NEW e \in edges
                PROVE  /\ e.from \in Seen /\ ~Waiting(e) => e.to \in Seen
                       /\ comp'[e.from] # None => comp'[e.to] # None /\ comp'[e.to] <= comp'[e.from]
    BY <1>1, <1>2, <1>9 DEF EdgeInv
  <2>1. e.from \in Seen /\ ~Waiting(e) => e.to \in Seen
    BY <1>0 DEF EdgeInv
  <2>2. e.from \in Node /\ e.to \in Node /\ compID # None
    BY <1>8 DEF GraphInv, Present, None
  <2>3. CASE e.from \in M
    <3>1. comp'[e.from] = compID
      BY <2>3, <1>8
    <3>2. CASE e.to \in M
      BY <3>1, <3>2, <2>1, <2>2, <1>8
    <3>3. CASE e.to \notin M
      <4>1. comp'[e.to] = comp[e.to] /\ comp[e.to] # None /\ comp[e.to] < compID
        BY <3>3, <2>2, <2>3, <1>8, <1>12
      <4>2. comp[e.to] \in Nat
        BY <4>1, <2>2, <1>0 DEF SearchTypes
      <4>. QED BY <4>1, <4>2, <3>1, <2>1, <1>8
    <3>. QED BY <3>2, <3>3
  <2>4. CASE e.from \notin M
    <3>1. comp'[e.from] = comp[e.from]
      BY <2>2, <2>4, <1>8
    <3>2. comp[e.from] # None => comp[e.to] # None /\ comp[e.to] <= comp[e.from]
      BY <1>0 DEF EdgeInv
    <3>3. comp[e.to] # None => comp'[e.to] = comp[e.to]
      BY <2>2, <1>8
    <3>. QED BY <3>1, <3>2, <3>3, <2>1
  <2>. QED BY <2>3, <2>4
<1>19. LowInv'
  <2>. SUFFICES ASSUME NEW i \in 1 .. k - 1
                PROVE  /\ low'[Gray(i)] <= index[Gray(i)]
                       /\ \E x \in Stacked' : index[x] = low'[Gray(i)] /\ Leads(Gray(i), x)
                       /\ \A e \in edges : Under(i, e.from)' /\ ~Waiting(e) /\ e.to \in Stacked'
                                             => low'[Gray(i)] <= index[e.to]
    <3>1. ASSUME NEW i \in 1 .. k - 1,
                 /\ low'[Gray(i)] <= index[Gray(i)]
                 /\ \E x \in Stacked' : index[x] = low'[Gray(i)] /\ Leads(Gray(i), x)
                 /\ \A e \in edges : Under(i, e.from)' /\ ~Waiting(e) /\ e.to \in Stacked'
                                       => low'[Gray(i)] <= index[e.to]
          PROVE  /\ low'[Gray(i)'] <= index'[Gray(i)']
                 /\ \E x \in Stacked' : index'[x] = low'[Gray(i)'] /\ Leads(Gray(i)', x)
                 /\ \A e \in edges' : Under(i, e.from)' /\ ~Waiting(e)' /\ e.to \in Stacked'
                                        => low'[Gray(i)'] <= index'[e.to]
      <4>1. Gray(i)' = Gray(i)
        BY <1>1
      <4>. QED BY <3>1, <4>1, <1>1, <1>2
    <3>. QED BY <3>1, <1>1, <1>10 DEF LowInv
  <2>0. /\ low[Gray(i)] <= index[Gray(i)]
        /\ \E x \in Stacked : index[x] = low[Gray(i)] /\ Leads(Gray(i), x)
        /\ \A e \in edges : Under(i, e.from) /\ ~Waiting(e) /\ e.to \in Stacked
                              => low[Gray(i)] <= index[e.to]
        /\ Gray(i)' = Gray(i) /\ Gray(i) \in Node /\ index[Gray(i)] < index[v] /\ index[Gray(i)] \in Nat
    <3>1. i \in DOMAIN frames
      BY <1>1
    <3>. QED BY <3>1, <1>0, <1>1, <1>11 DEF LowInv
  <2>1. PICK x \in Stacked : index[x] = low[Gray(i)] /\ Leads(Gray(i), x)
    BY <2>0
  <2>2. index[x] \in Nat /\ index[x] < index[v] /\ x \in Stacked'
    <3>1. index[x] \in Nat
      BY <1>0
    <3>2. index[x] < index[v]
      BY <3>1, <2>0, <2>1, <1>1
    <3>. QED BY <3>1, <3>2, <1>9
  <2>3. low'[Gray(i)] = low[Gray(i)]
    <3>1. CASE k > 1 /\ Gray(i) = Parent
      <4>1. low' = [low EXCEPT ![Parent] = Smaller(low[Parent], low[v])]
        BY <3>1, <1>1 DEF LowAfter
      <4>2. Smaller(low[Gray(i)], low[v]) = low[Gray(i)]
        BY <2>1, <2>2 DEF Smaller
      <4>. QED BY <4>1, <4>2, <3>1, <2>0, <1>0 DEF SearchTypes
    <3>2. CASE k > 1 /\ Gray(i) # Parent
      BY <3>2, <2>0, <1>0, <1>1 DEF LowAfter, SearchTypes
    <3>3. CASE ~(k > 1)
      BY <3>3, <1>1 DEF LowAfter
    <3>. QED BY <3>1, <3>2, <3>3
  <2>4. ASSUME NEW n, Under(i, n)' PROVE Under(i, n)
    <3>1. n \in Stacked' /\ index[Gray(i)] <= index[n]
      BY <2>0, <2>4, <1>1 DEF Under
    <3>2. n \in Stacked /\ index[n] < index[v]
      BY <3>1, <1>9
    <3>3. k \in Nat /\ \A j \in 1 .. k - 1 : Gray(j)' = Gray(j)
      BY <1>1
    <3>4. CASE i = k - 1
      BY <3>1, <3>2, <3>4, <1>1 DEF Under
    <3>5. CASE i # k - 1
      <4>1. PICK j : j = i + 1
        OBVIOUS
      <4>2. j \in 1 .. k - 1
        BY <3>3, <3>5, <4>1
      <4>3. Gray(j)' = Gray(j) /\ Gray(i + 1)' = Gray(i + 1)
        BY <3>3, <4>1, <4>2
      <4>. QED BY <3>1, <3>2, <4>1, <4>2, <4>3, <2>4, <1>1 DEF Under
    <3>. QED BY <3>4, <3>5
  <2>5. ASSUME NEW e \in edges, Under(i, e.from)', ~Waiting(e), e.to \in Stacked'
        PROVE  low'[Gray(i)] <= index[e.to]
    BY <2>0, <2>3, <2>4, <2>5, <1>9
  <2>. QED BY <2>0, <2>1, <2>2, <2>3, <2>5
<1>20. DoneInv'
  <2>1. nodes \subseteq Node /\ Seen \subseteq nodes
    BY <1>0 DEF GraphInv, Present, SearchTypes
  <2>. DEFINE D == {n \in nodes : comp[n] # None}
  <2>2. Closed(D, edges)
    BY <1>0 DEF EdgeInv, Closed, GraphInv
  <2>3. \A a \in D : \A b : Leads(a, b) => b \in D
    BY <2>2, LeadsIs
  <2>4. \A a \in M : Leads(v, a) /\ Leads(a, v)
    <3>. SUFFICES ASSUME NEW a \in M PROVE Leads(v, a) /\ Leads(a, v)
      OBVIOUS
    <3>1. Leads(v, a) /\ a \in Stacked
      BY <1>0, <1>1, <1>5 DEF PathInv
    <3>2. PICK i \in DOMAIN frames : index[Gray(i)] <= index[a] /\ Leads(a, Gray(i))
      BY <3>1, <1>0 DEF PathInv
    <3>3. i \in 1 .. k /\ (i = k \/ i \in 1 .. k - 1) /\ Gray(i) \in Stacked
      BY <3>2, <1>1, <1>2
    <3>4. index[Gray(i)] <= index[v]
      BY <3>3, <1>1, <1>11
    <3>5. Leads(Gray(i), v)
      BY <3>3, <3>4, <1>0, <1>1 DEF PathInv
    <3>. QED BY <3>1, <3>2, <3>5, LeadsIs
  <2>. SUFFICES ASSUME NEW a \in nodes, NEW b \in nodes, comp'[a] # None, comp'[b] # None
                PROVE  comp'[a] = comp'[b] <=> Leads(a, b) /\ Leads(b, a)
    BY <1>1, <1>10 DEF DoneInv
  <2>5. ASSUME NEW x \in nodes, NEW y \in nodes, x \in M, y \notin M, comp'[y] # None
        PROVE  comp'[x] # comp'[y] /\ ~Leads(y, x)
    <3>1. comp'[y] = comp[y] /\ y \in D /\ comp'[x] = compID /\ x \notin D
      BY <2>1, <2>5, <1>8
    <3>2. comp[y] < compID /\ comp[y] \in Nat
      BY <2>1, <3>1, <1>0 DEF Numbered, SearchTypes
    <3>. QED BY <2>3, <3>1, <3>2, <1>8
  <2>6. CASE a \in M /\ b \in M
    BY <2>4, <2>6, <1>8, LeadsIs
  <2>7. CASE a \in M /\ b \notin M
    BY <2>5, <2>7
  <2>8. CASE a \notin M /\ b \in M
    BY <2>5, <2>8
  <2>9. CASE a \notin M /\ b \notin M
    BY <2>1, <2>9, <1>0, <1>8 DEF DoneInv
  <2>. QED BY <2>6, <2>7, <2>8, <2>9
<1>. QED BY <1>13, <1>14, <1>15, <1>16, <1>17, <1>18, <1>19, <1>20 DEF TarjanInv

LEMMA FinishKeeps ==
  ASSUME GraphInv, TarjanInv, Finish, UNCHANGED <<nodes, edges>>
  PROVE  TarjanInv'
<1>1. PICK k, v : FinishFacts(k, v)
  BY FinishGives
<1>2. CASE low[v] = index[v]
  BY <1>1, <1>2, FinishClosedKeeps
<1>3. CASE low[v] # index[v]
  <2>1. Top.node = v
    BY <1>1 DEF FinishFacts
  <2>. DEFINE t == Top.node
  <2>2. IF low[t] = index[t] THEN TRUE ELSE UNCHANGED <<stack, comp, compID>>
    BY Zenon DEF Finish
  <2>3. UNCHANGED <<stack, comp, compID>>
    BY <1>3, <2>1, <2>2
  <2>. QED BY <1>1, <1>3, <2>3, FinishOpenKeeps
<1>. QED BY <1>2, <1>3

LEMMA NothingSearched == CountInit /\ GraphInv => TarjanInv
<1>. SUFFICES ASSUME CountInit, GraphInv PROVE TarjanInv
  OBVIOUS
<1>1. Seen = {} /\ Stacked = {} /\ DOMAIN stack = {} /\ DOMAIN frames = {} /\ Comps = {}
  BY DEF CountInit, Seen, Stacked, Comps
<1>2. \A n \in Node : comp[n] = None
  BY DEF CountInit
<1>3. SearchTypes
  <2>1. compID = 0 /\ stack = <<>> /\ frames = <<>>
    BY DEF CountInit
  <2>2. index = [n \in Node |-> None] /\ low = [n \in Node |-> None] /\ comp = [n \in Node |-> None]
    BY DEF CountInit
  <2>. QED BY <1>1, <2>1, <2>2 DEF SearchTypes
<1>4. Numbered
  BY <1>1, <1>2 DEF Numbered
<1>5. StackInv /\ FrameInv /\ PathInv /\ LowInv
  BY <1>1 DEF StackInv, FrameInv, PathInv, LowInv
<1>6. EdgeInv
  BY <1>1, <1>2 DEF EdgeInv, GraphInv, Present
<1>7. DoneInv
  BY <1>2 DEF GraphInv, Present, DoneInv
<1>. QED BY <1>3, <1>4, <1>5, <1>6, <1>7 DEF TarjanInv

LEMMA TarjanStays ==
  ASSUME TarjanInv, UNCHANGED <<nodes, edges, searchVars>>
  PROVE  TarjanInv'
<1>1. \A a, b : Leads(a, b)' <=> Leads(a, b)
  BY LeadsStays
<1>2. Seen' = Seen /\ Stacked' = Stacked /\ Comps' = Comps
  BY DEF Seen, Stacked, Comps, searchVars
<1>3. /\ \A i : Gray(i)' = Gray(i)
      /\ \A v : Out(v)' = Out(v)
      /\ \A e : Waiting(e)' <=> Waiting(e)
      /\ \A i, n : Under(i, n)' <=> Under(i, n)
  BY <1>2 DEF Gray, Out, Waiting, Under, searchVars
<1>. QED BY <1>1, <1>2, <1>3
         DEF TarjanInv, SearchTypes, Numbered, StackInv, FrameInv,
             PathInv, EdgeInv, LowInv, DoneInv, searchVars

(* Before the search nothing is seen, and after it everything is.          *)
Searched ==
  /\ phase = "merge" => CountInit
  /\ phase \notin {"merge", "search"} => SearchDone

SearchInv == TarjanInv /\ Searched

LEMMA SearchInvStep ==
  ASSUME SearchInv, GraphInv, GraphInv', [Next]_vars
  PROVE  SearchInv'
<1>. USE DEF SearchInv
<1>1. CASE Merge
  <2>1. CountInit' /\ phase' = "search"
    BY <1>1 DEF Merge, Searched, countVars, searchVars, kahnVars, CountInit
  <2>2. CountInit' /\ GraphInv' => TarjanInv'
    BY NothingSearched, PTL
  <2>. QED BY <2>1, <2>2 DEF Searched
<1>2. CASE Search
  <2>1. UNCHANGED <<nodes, edges>> /\ phase = "search" /\ phase' = "search" /\ SearchStep
    BY <1>2 DEF Search, graphVars
  <2>2. TarjanInv'
    BY <2>1, StrongConnectKeeps, DescendKeeps, KnownKidKeeps, FinishKeeps DEF SearchStep
  <2>. QED BY <2>1, <2>2 DEF Searched
<1>3. CASE UNCHANGED <<nodes, edges, searchVars>>
  <2>1. TarjanInv'
    BY <1>3, TarjanStays
  <2>2. SearchDone' <=> SearchDone
    BY <1>3 DEF SearchDone, Seen, searchVars
  <2>3. CASE UNCHANGED phase
    <3>1. CASE [Next]_vars /\ phase = "merge"
      <4>1. UNCHANGED kahnVars
        BY <3>1, <2>3 DEF Next, Merge, Search, Condense, Count, RollUp, Audit, Walk, Plan,
                 PlanBumps, Report, vars, countVars
      <4>. QED BY <4>1, <2>1, <2>2, <2>3, <1>3, <3>1 DEF Searched, CountInit, kahnVars, searchVars
    <3>2. CASE phase # "merge"
      BY <2>1, <2>2, <2>3, <3>2 DEF Searched
    <3>. QED BY <3>1, <3>2
  <2>4. CASE Condense
    BY <2>1, <2>2, <2>4 DEF Searched, Condense, StartCount
  <2>5. CASE RollUp \/ Audit \/ Plan \/ Report
    BY <2>1, <2>2, <2>5 DEF Searched, RollUp, Audit, Plan, Report
  <2>. QED BY <1>1, <1>2, <2>3, <2>4, <2>5 DEF Next, Count, Walk, PlanBumps, vars
<1>. QED BY <1>1, <1>2, <1>3
         DEF Next, Condense, StartCount, Count, Dequeue, Relax, RollUp, Audit, Walk, Plan,
             PlanBumps, Report, vars, countVars, graphVars

LEMMA SearchInvHolds == Spec => []SearchInv
<1>1. Init => SearchInv
  <2>. SUFFICES ASSUME Init PROVE SearchInv
    OBVIOUS
  <2>1. CountInit /\ phase = "merge"
    BY DEF Init
  <2>2. GraphInv
    BY ReachInvInit DEF ReachInv
  <2>. QED BY <2>1, <2>2, NothingSearched DEF SearchInv, Searched
<1>2. SearchInv /\ ReachInv /\ ReachInv' /\ [Next]_vars => SearchInv'
  BY SearchInvStep DEF ReachInv
<1>. QED BY <1>1, <1>2, ReachInvHolds, PTL DEF Spec

(* tarjan: two nodes share a component exactly when each reaches the       *)
(* other, whatever the graph.                                              *)
THEOREM AnalysisComponentsExact == Spec => []ComponentsExact
<1>1. SearchInv => ComponentsExact
  <2>. SUFFICES ASSUME SearchInv, phase = "count", NEW a \in nodes, NEW b \in nodes
                PROVE  comp[a] = comp[b] <=> {<<a, b>>, <<b, a>>} \subseteq Reaching(edges)
    BY DEF ComponentsExact
  <2>1. TarjanInv /\ frames = <<>> /\ nodes \subseteq Seen
    BY DEF SearchInv, Searched, SearchDone
  <2>2. Stacked = {}
    BY <2>1 DEF TarjanInv, PathInv
  <2>3. comp[a] # None /\ comp[b] # None
    BY <2>1, <2>2 DEF Stacked
  <2>. QED BY <2>1, <2>3 DEF TarjanInv, DoneInv, Leads
<1>. QED BY <1>1, SearchInvHolds, PTL

-----------------------------------------------------------------------------
(* The condensation.  Once the search is over every node has a component,  *)
(* and an edge between two components leads to the one closed first, which *)
(* has the smaller number.                                                 *)
Condensed == TarjanInv /\ GraphInv /\ SearchDone

LEMMA CondensedIs ==
  ASSUME Condensed
  PROVE  /\ compID \in Nat /\ Comps \subseteq Nat /\ Comps = 0 .. compID - 1
         /\ \A n \in nodes : comp[n] \in Comps
         /\ \A c \in Comps : \E n \in nodes : comp[n] = c
         /\ \A e \in edges : e.from \in nodes /\ e.to \in nodes /\ comp[e.to] <= comp[e.from]
         /\ \A a, b \in nodes : comp[a] = comp[b] <=> Leads(a, b) /\ Leads(b, a)
<1>1. /\ SearchTypes /\ Numbered /\ EdgeInv /\ DoneInv /\ PathInv /\ GraphInv
      /\ frames = <<>> /\ nodes \subseteq Seen
  BY DEF Condensed, TarjanInv, SearchDone
<1>2. compID \in Nat /\ Comps \subseteq Nat /\ Comps = 0 .. compID - 1
  BY <1>1 DEF SearchTypes, Comps
<1>3. nodes \subseteq Node /\ Seen \subseteq nodes /\ Stacked = {}
  BY <1>1 DEF SearchTypes, GraphInv, Present, PathInv
<1>4. \A n \in nodes : comp[n] # None
  BY <1>1, <1>3 DEF Stacked
<1>5. \A n \in nodes : comp[n] \in Comps
  <2>. SUFFICES ASSUME NEW n \in nodes PROVE comp[n] \in Comps
    OBVIOUS
  <2>1. comp[n] \in Nat /\ comp[n] < compID
    BY <1>1, <1>3, <1>4 DEF SearchTypes, Numbered
  <2>. QED BY <2>1, <1>2
<1>6. \A c \in Comps : \E n \in nodes : comp[n] = c
  <2>. SUFFICES ASSUME NEW c \in Comps PROVE \E n \in nodes : comp[n] = c
    OBVIOUS
  <2>1. PICK n \in Node : comp[n] = c
    BY <1>1 DEF Numbered
  <2>2. comp[n] # None
    BY <2>1, <1>2 DEF None
  <2>. QED BY <2>1, <2>2, <1>1, <1>3 DEF Numbered
<1>7. \A e \in edges : e.from \in nodes /\ e.to \in nodes /\ comp[e.to] <= comp[e.from]
  BY <1>1, <1>4 DEF GraphInv, EdgeInv
<1>. QED BY <1>1, <1>2, <1>4, <1>5, <1>6, <1>7 DEF DoneInv

Before == {<<comp[p[1]], comp[p[2]]>> : p \in Reaching(edges)}

LEMMA BeforeIs ==
  ASSUME Condensed
  PROVE  /\ \A x, y : <<x, y>> \in Before <=> \E a, b \in nodes : Leads(a, b) /\ comp[a] = x /\ comp[b] = y
         /\ \A c \in Comps : <<c, c>> \in Before
         /\ \A x, y, z : <<x, y>> \in Before /\ <<y, z>> \in Before => <<x, z>> \in Before
         /\ \A x, y \in Comps : <<x, y>> \in Before => y <= x
         /\ \A x \in Comps : \A y \in Adj(x) : <<x, y>> \in Before /\ y < x /\ y \in Comps
<1>. USE CondensedIs
<1>1. \A x, y : <<x, y>> \in Before <=> \E a, b \in nodes : Leads(a, b) /\ comp[a] = x /\ comp[b] = y
  <2>. SUFFICES ASSUME NEW x, NEW y
                PROVE  <<x, y>> \in Before <=> \E a, b \in nodes : Leads(a, b) /\ comp[a] = x /\ comp[b] = y
    OBVIOUS
  <2>1. ASSUME <<x, y>> \in Before
        PROVE  \E a, b \in nodes : Leads(a, b) /\ comp[a] = x /\ comp[b] = y
    <3>1. PICK p \in Reaching(edges) : <<x, y>> = <<comp[p[1]], comp[p[2]]>>
      BY <2>1 DEF Before
    <3>2. p = <<p[1], p[2]>> /\ p[1] \in nodes /\ p[2] \in nodes
      BY DEF Reaching
    <3>3. comp[p[1]] = x /\ comp[p[2]] = y
      BY <3>1
    <3>4. Leads(p[1], p[2])
      BY <3>2, Zenon DEF Leads
    <3>. QED BY <3>2, <3>3, <3>4
  <2>2. ASSUME NEW a \in nodes, NEW b \in nodes, Leads(a, b), comp[a] = x, comp[b] = y
        PROVE  <<x, y>> \in Before
    BY <2>2 DEF Before, Leads
  <2>. QED BY <2>1, <2>2
<1>2. \A c \in Comps : <<c, c>> \in Before
  BY <1>1, LeadsIs
<1>3. \A x, y, z : <<x, y>> \in Before /\ <<y, z>> \in Before => <<x, z>> \in Before
  <2>. SUFFICES ASSUME NEW x, NEW y, NEW z, <<x, y>> \in Before, <<y, z>> \in Before
                PROVE  <<x, z>> \in Before
    OBVIOUS
  <2>1. PICK a \in nodes, b \in nodes : Leads(a, b) /\ comp[a] = x /\ comp[b] = y
    BY <1>1
  <2>2. PICK c \in nodes, d \in nodes : Leads(c, d) /\ comp[c] = y /\ comp[d] = z
    BY <1>1
  <2>3. Leads(b, c)
    BY <2>1, <2>2
  <2>4. Leads(a, d)
    BY <2>1, <2>2, <2>3, LeadsIs
  <2>. QED BY <2>1, <2>2, <2>4, <1>1
<1>4. \A x, y \in Comps : <<x, y>> \in Before => y <= x
  <2>. SUFFICES ASSUME NEW x \in Comps, NEW y \in Comps, <<x, y>> \in Before PROVE y <= x
    OBVIOUS
  <2>1. PICK a \in nodes, b \in nodes : Leads(a, b) /\ comp[a] = x /\ comp[b] = y
    BY <1>1
  <2>. DEFINE S == {n \in nodes : comp[n] <= x}
  <2>2. a \in S /\ S \in SUBSET nodes
    BY <2>1
  <2>3. Closed(S, edges)
    <3>. SUFFICES ASSUME NEW e \in edges, e.from \in S PROVE e.to \in S
      BY DEF Closed
    <3>1. comp[e.to] \in Comps /\ comp[e.from] \in Comps /\ comp[e.to] <= comp[e.from] /\ e.to \in nodes
      OBVIOUS
    <3>2. comp[e.to] <= x
      BY <3>1
    <3>. QED BY <3>1, <3>2
  <2>4. b \in S
    BY <2>1, <2>2, <2>3, LeadsIs
  <2>. QED BY <2>1, <2>4
<1>5. \A x \in Comps : \A y \in Adj(x) : <<x, y>> \in Before /\ y < x /\ y \in Comps
  <2>. SUFFICES ASSUME NEW x \in Comps, NEW y \in Adj(x) PROVE <<x, y>> \in Before /\ y < x /\ y \in Comps
    OBVIOUS
  <2>1. PICK e \in edges : comp[e.from] = x /\ y = comp[e.to] /\ y # x
    BY DEF Adj
  <2>2. Leads(e.from, e.to)
    BY EdgeLeads DEF Condensed
  <2>3. e.from \in nodes /\ e.to \in nodes /\ y <= x /\ y \in Comps
    BY <2>1
  <2>4. <<x, y>> \in Before
    BY <2>1, <2>2, <2>3, <1>1
  <2>. QED BY <2>1, <2>3, <2>4
<1>. QED BY <1>1, <1>2, <1>3, <1>4, <1>5

(* A chain in terms of the numbers alone: from the start down to c, each   *)
(* component adjacent to the next.                                         *)
NextIn(S, x, y) == y \in Adj(x) /\ \A z \in S : x <= z \/ z <= y
Descents(c) ==
  {S \in SUBSET Comps :
     /\ comp[Root] \in S /\ c \in S /\ \A z \in S : c <= z /\ z <= comp[Root]
     /\ \A x \in S \ {c} : \E y \in S : NextIn(S, x, y)}

LEMMA RootIsStart ==
  ASSUME Condensed
  PROVE  comp[Root] \in Comps
  BY CondensedIs DEF Condensed, GraphInv

(* Down a chain everything is before everything under it.                  *)
LEMMA DescentsAreOrdered ==
  ASSUME Condensed, NEW c \in Comps, NEW S \in Descents(c), NEW x \in S, NEW z \in S, z <= x
  PROVE  <<x, z>> \in Before
<1>. USE CondensedIs
<1>. DEFINE Bad == {y \in S : z <= y /\ <<y, z>> \notin Before}
<1>. SUFFICES ASSUME Bad # {} PROVE FALSE
  OBVIOUS
<1>1. S \subseteq Comps /\ S \subseteq Nat /\ Bad \subseteq Nat
  BY DEF Descents
<1>2. PICK m \in Bad : \A y \in Bad : m <= y
  BY <1>1, NatMin
<1>3. m # z
  BY <1>1, BeforeIs
<1>4. m # c
  <2>1. c <= z
    BY DEF Descents
  <2>. QED BY <2>1, <1>1, <1>3
<1>5. PICK y \in S : NextIn(S, m, y)
  BY <1>4 DEF Descents
<1>6. <<m, y>> \in Before /\ y < m
  BY <1>1, <1>5, BeforeIs DEF NextIn
<1>7. z <= y
  BY <1>1, <1>3, <1>5 DEF NextIn
<1>8. <<y, z>> \in Before
  BY <1>1, <1>2, <1>6, <1>7
<1>. QED BY <1>6, <1>8, BeforeIs

LEMMA ChainsAreDescents ==
  ASSUME Condensed, NEW c \in Comps
  PROVE  Chains(c, Before) = Descents(c)
<1>. USE CondensedIs, RootIsStart
<1>1. ASSUME NEW S \in Chains(c, Before) PROVE S \in Descents(c)
  <2>1. /\ S \in SUBSET Comps /\ comp[Root] \in S /\ c \in S
        /\ \A z \in S \ {comp[Root]} : <<comp[Root], z>> \in Before
        /\ \A x \in S \ {c} :
             /\ <<x, c>> \in Before
             /\ \E y \in S : /\ y \in Adj(x)
                             /\ \A z \in S \ {x, y} : <<z, x>> \in Before \/ <<y, z>> \in Before
    BY Zenon DEF Chains
  <2>2. \A z \in S : c <= z /\ z <= comp[Root]
    <3>. SUFFICES ASSUME NEW z \in S PROVE c <= z /\ z <= comp[Root]
      OBVIOUS
    <3>1. z \in Comps /\ z \in Nat
      BY <2>1
    <3>2. z # c => c <= z
      BY <2>1, <3>1, BeforeIs
    <3>3. z # comp[Root] => z <= comp[Root]
      BY <2>1, <3>1, BeforeIs
    <3>. QED BY <3>1, <3>2, <3>3
  <2>3. ASSUME NEW x \in S \ {c} PROVE \E y \in S : NextIn(S, x, y)
    <3>1. PICK y \in S : /\ y \in Adj(x)
                         /\ \A z \in S \ {x, y} : <<z, x>> \in Before \/ <<y, z>> \in Before
      BY <2>1
    <3>2. ASSUME NEW z \in S PROVE x <= z \/ z <= y
      <4>1. x \in Comps /\ y \in Comps /\ z \in Comps
        BY <2>1
      <4>2. CASE z = x \/ z = y
        BY <4>1, <4>2
      <4>3. CASE z # x /\ z # y
        BY <4>1, <4>3, <3>1, BeforeIs
      <4>. QED BY <4>2, <4>3
    <3>. QED BY <3>1, <3>2 DEF NextIn
  <2>. QED BY <2>1, <2>2, <2>3 DEF Descents
<1>2. ASSUME NEW S \in Descents(c) PROVE S \in Chains(c, Before)
  <2>1. /\ S \in SUBSET Comps /\ comp[Root] \in S /\ c \in S
        /\ \A z \in S : c <= z /\ z <= comp[Root]
        /\ \A x \in S \ {c} : \E y \in S : NextIn(S, x, y)
    BY DEF Descents
  <2>2. \A x, z \in S : z <= x => <<x, z>> \in Before
    BY DescentsAreOrdered
  <2>3. \A x \in S \ {c} : \E y \in S : /\ y \in Adj(x)
              /\ \A z \in S \ {x, y} : <<z, x>> \in Before \/ <<y, z>> \in Before
    <3>. SUFFICES ASSUME NEW x \in S \ {c}
                  PROVE  \E y \in S : /\ y \in Adj(x)
                           /\ \A z \in S \ {x, y} : <<z, x>> \in Before \/ <<y, z>> \in Before
      OBVIOUS
    <3>1. PICK y \in S : y \in Adj(x) /\ \A z \in S : x <= z \/ z <= y
      BY <2>1 DEF NextIn
    <3>. QED BY <3>1, <2>2
  <2>4. \A z \in S : <<comp[Root], z>> \in Before
    BY <2>1, <2>2
  <2>5. \A x \in S : <<x, c>> \in Before
    BY <2>1, <2>2
  <2>. QED BY <2>1, <2>3, <2>4, <2>5, Zenon DEF Chains
<1>. QED BY <1>1, <1>2

(* The chains down to c that come through one of B, and the one that       *)
(* starts there.                                                           *)
Extended(c, B) == {S \cup {c} : S \in UNION {Descents(b) : b \in B}}
StartsAt(c) == IF c = comp[Root] THEN {{c}} ELSE {}
Through(c, B) == Extended(c, B) \cup StartsAt(c)
Callers(c) == {b \in Comps : c \in Adj(b)}

LEMMA DescentsAre ==
  ASSUME NEW c, NEW S \in Descents(c)
  PROVE  /\ S \in SUBSET Comps /\ comp[Root] \in S /\ c \in S
         /\ \A z \in S : c <= z /\ z <= comp[Root]
         /\ \A x \in S \ {c} : \E y \in S : NextIn(S, x, y)
  BY DEF Descents

LEMMA ExtendedDescends ==
  ASSUME Condensed, NEW c \in Comps, NEW b \in Callers(c), NEW S \in Descents(b)
  PROVE  c \notin S /\ S \cup {c} \in Descents(c)
<1>. USE CondensedIs
<1>1. b \in Comps /\ c \in Adj(b) /\ c < b
  BY BeforeIs DEF Callers
<1>2. /\ S \in SUBSET Comps /\ comp[Root] \in S /\ b \in S
      /\ \A z \in S : b <= z /\ z <= comp[Root]
      /\ \A x \in S \ {b} : \E y \in S : NextIn(S, x, y)
  BY DescentsAre
<1>3. c \notin S
  BY <1>1, <1>2
<1>4. \A z \in S \cup {c} : c <= z /\ z <= comp[Root]
  <2>. SUFFICES ASSUME NEW z \in S \cup {c} PROVE c <= z /\ z <= comp[Root]
    OBVIOUS
  <2>1. b <= comp[Root] /\ comp[Root] \in Comps
    BY <1>2
  <2>2. CASE z \in S
    <3>1. z \in Comps /\ b <= z /\ z <= comp[Root]
      BY <2>2, <1>2
    <3>. QED BY <3>1, <1>1
  <2>3. CASE z = c
    BY <2>1, <2>3, <1>1
  <2>. QED BY <2>2, <2>3
<1>5. ASSUME NEW x \in (S \cup {c}) \ {c}
      PROVE  \E y \in S \cup {c} : NextIn(S \cup {c}, x, y)
  <2>1. x \in S /\ x \in Comps
    BY <1>2, <1>5
  <2>2. CASE x = b
    <3>1. \A z \in S \cup {c} : x <= z \/ z <= c
      BY <2>2, <1>1, <1>2
    <3>. QED BY <3>1, <2>2, <1>1 DEF NextIn
  <2>3. CASE x # b
    <3>1. PICK y \in S : NextIn(S, x, y)
      BY <2>1, <2>3, <1>2
    <3>2. y \in Comps /\ c <= y
      BY <1>1, <1>2, <1>4
    <3>. QED BY <3>1, <3>2 DEF NextIn
  <2>. QED BY <2>2, <2>3
<1>6. S \cup {c} \in SUBSET Comps /\ comp[Root] \in S \cup {c} /\ c \in S \cup {c}
  BY <1>2
<1>. QED BY <1>3, <1>4, <1>5, <1>6 DEF Descents

(* Every chain to c comes through one of its callers, or starts at c.      *)
LEMMA DescentsThroughCallers ==
  ASSUME Condensed, NEW c \in Comps
  PROVE  Through(c, Callers(c)) = Descents(c)
<1>. USE CondensedIs
<1>1. ASSUME NEW T \in Through(c, Callers(c)) PROVE T \in Descents(c)
  <2>1. CASE T \in Extended(c, Callers(c))
    <3>1. PICK S \in UNION {Descents(b) : b \in Callers(c)} : T = S \cup {c}
      BY <2>1 DEF Extended
    <3>2. PICK b \in Callers(c) : S \in Descents(b)
      OBVIOUS
    <3>. QED BY <3>1, <3>2, ExtendedDescends
  <2>2. CASE T \in StartsAt(c)
    <3>1. c = comp[Root] /\ T = {c}
      BY <2>2 DEF StartsAt
    <3>. QED BY <3>1 DEF Descents
  <2>. QED BY <1>1, <2>1, <2>2 DEF Through
<1>2. ASSUME NEW T \in Descents(c) PROVE T \in Through(c, Callers(c))
  <2>1. /\ T \in SUBSET Comps /\ comp[Root] \in T /\ c \in T
        /\ \A z \in T : c <= z /\ z <= comp[Root]
        /\ \A x \in T \ {c} : \E y \in T : NextIn(T, x, y)
    BY DescentsAre
  <2>2. CASE T = {c}
    BY <2>1, <2>2 DEF Through, StartsAt
  <2>3. CASE T # {c}
    <3>. DEFINE S == T \ {c}
    <3>1. S # {} /\ S \subseteq Nat
      BY <2>1, <2>3
    <3>2. PICK b \in S : \A z \in S : b <= z
      BY <3>1, NatMin
    <3>3. PICK y \in T : NextIn(T, b, y)
      BY <2>1
    <3>4. y \in Adj(b) /\ y < b /\ b \in Comps
      BY <2>1, <3>3, BeforeIs DEF NextIn
    <3>5. y = c
      <4>1. y \notin S
        BY <2>1, <3>2, <3>4
      <4>. QED BY <4>1
    <3>6. b \in Callers(c)
      BY <3>4, <3>5 DEF Callers
    <3>7. comp[Root] # c
      <4>1. ASSUME comp[Root] = c PROVE FALSE
        <5>1. \A z \in T : z \in Nat /\ c <= z /\ z <= c
          BY <2>1, <4>1
        <5>. QED BY <5>1, <2>1, <2>3
      <4>. QED BY <4>1
    <3>8. ASSUME NEW x \in S \ {b} PROVE \E w \in S : NextIn(S, x, w)
      <4>1. PICK w \in T : NextIn(T, x, w)
        BY <2>1
      <4>2. x \in Comps /\ b \in Comps /\ b <= x /\ c <= b /\ w \in Comps
        BY <2>1, <3>2
      <4>3. x <= b \/ b <= w
        BY <4>1 DEF NextIn
      <4>4. w # c
        BY <4>2, <4>3, <3>8, <3>4, <3>5
      <4>. QED BY <4>1, <4>4 DEF NextIn
    <3>9. S \in Descents(b)
      BY <2>1, <3>2, <3>7, <3>8 DEF Descents
    <3>10. T = S \cup {c}
      BY <2>1
    <3>. QED BY <3>6, <3>9, <3>10 DEF Through, Extended
  <2>. QED BY <2>2, <2>3
<1>. QED BY <1>1, <1>2

(* Chains to two components are different, and as many as their images.    *)
LEMMA DescentsAreFinite ==
  ASSUME Condensed
  PROVE  /\ IsFiniteSet(SUBSET Comps)
         /\ \A c \in Comps : \A B \in SUBSET Comps : Through(c, B) \subseteq SUBSET Comps
         /\ \A c : IsFiniteSet(Descents(c)) /\ Cardinality(Descents(c)) \in Nat
         /\ \A c \in Comps : \A B \in SUBSET Comps : /\ IsFiniteSet(Through(c, B))
                                                 /\ Cardinality(Through(c, B)) \in Nat
<1>. USE CondensedIs
<1>1. IsFiniteSet(SUBSET Comps)
  <2>1. 0 \in Int /\ compID - 1 \in Int /\ Comps = 0 .. (compID - 1)
    OBVIOUS
  <2>2. IsFiniteSet(Comps)
    BY <2>1, FS_Interval, Zenon
  <2>. QED BY <2>2, FS_SUBSET
<1>2. \A T \in SUBSET SUBSET Comps : IsFiniteSet(T) /\ Cardinality(T) \in Nat
  BY <1>1, FS_Subset, FS_CardinalityType
<1>3. \A c : Descents(c) \in SUBSET SUBSET Comps
  BY DEF Descents
<1>4. \A c \in Comps : \A B \in SUBSET Comps : Through(c, B) \in SUBSET SUBSET Comps
  <2>. SUFFICES ASSUME NEW c \in Comps, NEW B \in SUBSET Comps, NEW T \in Through(c, B)
                PROVE  T \in SUBSET Comps
    OBVIOUS
  <2>1. CASE T \in Extended(c, B)
    <3>1. PICK S \in UNION {Descents(b) : b \in B} : T = S \cup {c}
      BY <2>1 DEF Extended
    <3>2. S \in SUBSET Comps
      BY <1>3
    <3>. QED BY <3>1, <3>2
  <2>2. CASE T \in StartsAt(c)
    BY <2>2 DEF StartsAt
  <2>. QED BY <2>1, <2>2 DEF Through
<1>. QED BY <1>1, <1>2, <1>3, <1>4

LEMMA SameRest ==
  ASSUME NEW S, NEW T, NEW c, c \notin S, c \notin T, S \cup {c} = T \cup {c}
  PROVE  S = T
<1>1. S = (S \cup {c}) \ {c} /\ T = (T \cup {c}) \ {c}
  OBVIOUS
<1>. QED BY <1>1, Zenon

LEMMA ThroughOneMore ==
  ASSUME Condensed, NEW c \in Comps, NEW B \in SUBSET Callers(c), NEW b \in Callers(c), b \notin B
  PROVE  Cardinality(Through(c, B \cup {b})) = Cardinality(Through(c, B)) + Cardinality(Descents(b))
<1>. USE CondensedIs
<1>. DEFINE X == {S \cup {c} : S \in Descents(b)}
            f == [S \in Descents(b) |-> S \cup {c}]
<1>1. Through(c, B \cup {b}) = Through(c, B) \cup X
  <2>1. UNION {Descents(a) : a \in B \cup {b}} = (UNION {Descents(a) : a \in B}) \cup Descents(b)
    OBVIOUS
  <2>2. Extended(c, B \cup {b}) = Extended(c, B) \cup X
    BY <2>1 DEF Extended
  <2>. QED BY <2>2 DEF Through
<1>2. \A a \in Callers(c) : \A S \in Descents(a) : c \notin S
  BY ExtendedDescends
<1>3. Through(c, B) \cap X = {}
  <2>. SUFFICES ASSUME NEW T \in Through(c, B), T \in X PROVE FALSE
    OBVIOUS
  <2>1. PICK S \in Descents(b) : T = S \cup {c}
    OBVIOUS
  <2>2. c \notin S /\ b \in S /\ b # c /\ S \subseteq Comps
    BY <1>2, DescentsAre, BeforeIs DEF Callers
  <2>3. CASE T \in StartsAt(c)
    BY <2>1, <2>2, <2>3 DEF StartsAt
  <2>4. CASE T \in Extended(c, B)
    <3>1. PICK R \in UNION {Descents(a) : a \in B} : T = R \cup {c}
      BY <2>4 DEF Extended
    <3>2. PICK a \in B : R \in Descents(a)
      OBVIOUS
    <3>3. c \notin R
      BY <3>2, <1>2
    <3>4. R = S
      <4>1. R \cup {c} = S \cup {c}
        BY <2>1, <3>1
      <4>. QED BY <2>2, <3>3, <4>1, SameRest
    <3>5. a \in S /\ a <= b /\ b <= a
      BY <3>2, <3>4, <2>2, DescentsAre
    <3>6. a \in Nat /\ b \in Nat
      BY DEF Callers
    <3>. QED BY <3>5, <3>6
  <2>. QED BY <2>3, <2>4 DEF Through
<1>4. IsFiniteSet(X) /\ Cardinality(X) = Cardinality(Descents(b))
  <2>1. f \in Bijection(Descents(b), X)
    <3>1. f \in [Descents(b) -> X] /\ \A t \in X : \E S \in Descents(b) : f[S] = t
      OBVIOUS
    <3>2. ASSUME NEW S \in Descents(b), NEW T \in Descents(b), f[S] = f[T] PROVE S = T
      <4>1. c \notin S /\ c \notin T
        BY <1>2
      <4>2. S \cup {c} = T \cup {c}
        BY <3>2
      <4>. QED BY <4>1, <4>2, SameRest
    <3>. QED BY <3>1, <3>2 DEF Bijection, Injection, Surjection, IsInjective
  <2>. QED BY <2>1, FS_Bijection, DescentsAreFinite DEF ExistsBijection
<1>5. B \in SUBSET Comps
  BY DEF Callers
<1>6. IsFiniteSet(Through(c, B)) /\ Cardinality(Through(c, B)) \in Nat /\ Cardinality(Descents(b)) \in Nat
  BY <1>5, DescentsAreFinite
<1>. HIDE DEF X, f
<1>7. Cardinality(Through(c, B) \cup X) = Cardinality(Through(c, B)) + Cardinality(X) - Cardinality({})
  BY <1>3, <1>4, <1>6, FS_Union
<1>8. Cardinality({}) = 0
  BY FS_EmptySet
<1>9. \A i, j \in Nat : i + j - 0 = i + j
  OBVIOUS
<1>10. Cardinality(Through(c, B) \cup X) = Cardinality(Through(c, B)) + Cardinality(Descents(b))
  BY <1>4, <1>6, <1>7, <1>8, <1>9, Zenon
<1>. QED BY <1>1, <1>10, Zenon
-----------------------------------------------------------------------------
(* The queue starts with what nothing calls, in the order of their         *)
(* numbers, each once.                                                     *)
IsAscending(q) == \A i, j \in DOMAIN q : i < j => q[i] < q[j]

LEMMA FiniteIsBounded ==
  ASSUME NEW S, S \subseteq Nat, IsFiniteSet(S)
  PROVE  \E k \in Nat : \A x \in S : x <= k
<1>. DEFINE Bounded(R) == \E k \in Nat : \A x \in R : x <= k
            Bad == {n \in Nat : \E R \in SUBSET S : Cardinality(R) = n /\ ~Bounded(R)}
<1>1. \A R \in SUBSET S : IsFiniteSet(R) /\ Cardinality(R) \in Nat
  BY FS_Subset, FS_CardinalityType
<1>. SUFFICES ASSUME ~Bounded(S) PROVE FALSE
  OBVIOUS
<1>. HIDE DEF Bounded
<1>2. Cardinality(S) \in Bad /\ Bad \subseteq Nat
  <2>1. S \in SUBSET S /\ Cardinality(S) \in Nat
    BY <1>1
  <2>. QED BY <2>1
<1>3. PICK n \in Bad : \A m \in Bad : n <= m
  BY <1>2, NatMin
<1>4. PICK R \in SUBSET S : Cardinality(R) = n /\ ~Bounded(R)
  BY <1>3
<1>5. R # {}
  BY <1>4 DEF Bounded
<1>6. PICK m \in R : TRUE
  BY <1>5
<1>7. m \in Nat /\ R \ {m} \in SUBSET S /\ n \in Nat
  BY <1>2, <1>6
<1>8. Cardinality(R \ {m}) = n - 1 /\ n # 0
  BY <1>1, <1>4, <1>5, <1>6, <1>7, FS_RemoveElement, FS_EmptySet
<1>9. Bounded(R \ {m})
  <2>1. n - 1 \in Nat /\ n - 1 \notin Bad
    BY <1>3, <1>7, <1>8
  <2>. QED BY <2>1, <1>7, <1>8
<1>10. PICK k \in Nat : \A x \in R \ {m} : x <= k
  BY <1>9 DEF Bounded
<1>11. \A x \in R : x <= (IF m > k THEN m ELSE k)
  <2>. SUFFICES ASSUME NEW x \in R PROVE x <= (IF m > k THEN m ELSE k)
    OBVIOUS
  <2>1. x \in Nat /\ (x = m \/ x <= k)
    BY <1>10
  <2>. QED BY <2>1, <1>7
<1>12. (IF m > k THEN m ELSE k) \in Nat
  BY <1>7
<1>. QED BY <1>4, <1>11, <1>12 DEF Bounded

LEMMA AscendingExists ==
  ASSUME NEW S, S \subseteq Nat, IsFiniteSet(S)
  PROVE  \E q \in SetToSeqs(S) : IsAscending(q)
<1>. DEFINE N == Cardinality(S)
            Has(R) == \E q \in SetToSeqs(R) : IsAscending(q)
            Bad == {n \in Nat : \E R \in SUBSET S : Cardinality(R) = n /\ ~Has(R)}
<1>1. \A R \in SUBSET S : IsFiniteSet(R) /\ Cardinality(R) \in Nat
  BY FS_Subset, FS_CardinalityType
<1>2. SUFFICES ASSUME Bad # {} PROVE FALSE
  <2>1. S \in SUBSET S /\ N \in Nat
    BY <1>1
  <2>2. Bad = {} => Has(S)
    <3>. HIDE DEF Has
    <3>. QED BY <2>1
  <2>. QED BY <2>2
<1>3. PICK n \in Bad : \A m \in Bad : n <= m
  <2>. HIDE DEF Has
  <2>1. Bad \subseteq Nat
    OBVIOUS
  <2>. QED BY <1>2, <2>1, NatMin
<1>4. PICK R \in SUBSET S : Cardinality(R) = n /\ ~Has(R)
  BY <1>3
<1>. HIDE DEF Has
<1>5. n # 0
  <2>1. ASSUME n = 0 PROVE Has(R)
    <3>1. R = {} /\ Cardinality(R) = 0
      BY <2>1, <1>1, <1>4, FS_EmptySet
    <3>. DEFINE q == [i \in 1 .. 0 |-> 0]
    <3>2. q \in [1 .. 0 -> R] /\ DOMAIN q = {}
      OBVIOUS
    <3>3. q \in SetToSeqs(R) /\ IsAscending(q)
      BY <3>1, <3>2 DEF SetToSeqs, IsAscending
    <3>. QED BY <3>3 DEF Has
  <2>. QED BY <2>1, <1>4
<1>6. n \in Nat /\ n - 1 \in Nat
  BY <1>5
<1>7. PICK m \in R : \A x \in R : x <= m
  <2>1. R # {}
    BY <1>4, <1>5, FS_EmptySet
  <2>. DEFINE Above == {k \in Nat : \A x \in R : x <= k}
  <2>2. Above # {}
    <3>1. \E k \in Nat : \A x \in R : x <= k
      BY <1>1, FiniteIsBounded
    <3>. QED BY <3>1
  <2>3. PICK k \in Above : \A j \in Above : k <= j
    BY <2>2, NatMin
  <2>4. k \in R
    <3>1. ASSUME k \notin R PROVE FALSE
      <4>1. \A x \in R : x \in Nat /\ x <= k /\ x # k
        BY <3>1
      <4>2. k # 0
        <5>1. PICK x \in R : TRUE
          BY <2>1
        <5>2. x \in Nat /\ x <= k /\ x # k
          BY <4>1
        <5>. QED BY <5>2
      <4>3. k - 1 \in Above
        BY <4>1, <4>2
      <4>. QED BY <4>3, <2>3
    <3>. QED BY <3>1
  <2>. QED BY <2>4
<1>8. Cardinality(R \ {m}) = n - 1 /\ m \in Nat
  BY <1>1, <1>4, <1>7, FS_RemoveElement
<1>9. Has(R \ {m})
  <2>1. n - 1 \notin Bad
    BY <1>3, <1>6
  <2>. QED BY <2>1, <1>6, <1>8
<1>10. PICK q \in SetToSeqs(R \ {m}) : IsAscending(q)
  BY <1>9 DEF Has
<1>11. q \in [1 .. n - 1 -> R \ {m}]
  BY <1>8, <1>10 DEF SetToSeqs
<1>. DEFINE p == [i \in 1 .. n |-> IF i = n THEN m ELSE q[i]]
<1>12. p \in [1 .. n -> R]
  <2>. SUFFICES ASSUME NEW i \in 1 .. n PROVE p[i] \in R
    OBVIOUS
  <2>1. i = n \/ i \in 1 .. n - 1
    BY <1>6
  <2>. QED BY <2>1, <1>7, <1>11
<1>13. ASSUME NEW i \in 1 .. n, NEW j \in 1 .. n, i < j PROVE p[i] < p[j]
  <2>1. i \in 1 .. n - 1 /\ p[i] = q[i] /\ q[i] \in R \ {m} /\ i # n
    BY <1>6, <1>11, <1>13
  <2>2. CASE j = n
    <3>1. q[i] <= m /\ q[i] # m /\ q[i] \in Nat
      BY <2>1, <1>7
    <3>. QED BY <3>1, <2>1, <2>2, <1>8
  <2>3. CASE j # n
    <3>1. j \in 1 .. n - 1 /\ p[j] = q[j]
      BY <2>3, <1>6
    <3>. QED BY <3>1, <2>1, <1>10, <1>11, <1>13 DEF IsAscending
  <2>. QED BY <2>2, <2>3
<1>14. p \in SetToSeqs(R) /\ IsAscending(p)
  <2>1. ASSUME NEW i \in 1 .. n, NEW j \in 1 .. n, i # j PROVE p[i] # p[j]
    <3>1. p[i] \in Nat /\ p[j] \in Nat
      BY <1>12
    <3>2. i < j \/ j < i
      BY <2>1, <1>6
    <3>. HIDE DEF p
    <3>. QED BY <3>1, <3>2, <1>13
  <2>. HIDE DEF p
  <2>2. DOMAIN p = 1 .. n
    BY <1>12
  <2>. QED BY <2>1, <2>2, <1>4, <1>12, <1>13 DEF SetToSeqs, IsAscending
<1>. QED BY <1>4, <1>14 DEF Has

LEMMA AscendingIs ==
  ASSUME NEW S, S \subseteq Nat, IsFiniteSet(S)
  PROVE  /\ Ascending(S) \in Seq(S)
         /\ \A i, j \in DOMAIN Ascending(S) : i # j => Ascending(S)[i] # Ascending(S)[j]
         /\ \A c \in S : \E i \in DOMAIN Ascending(S) : Ascending(S)[i] = c
<1>1. PICK q : q = Ascending(S)
  OBVIOUS
<1>2. q \in SetToSeqs(S)
  BY <1>1, AscendingExists DEF Ascending, IsAscending
<1>3. Cardinality(S) \in Nat
  BY FS_CardinalityType
<1>. DEFINE D == 1 .. Cardinality(S)
<1>4. q \in [D -> S] /\ \A i, j \in D : i # j => q[i] # q[j]
  BY <1>2 DEF SetToSeqs
<1>5. q \in Seq(S) /\ DOMAIN q = D
  BY <1>3, <1>4
<1>6. \A c \in S : \E i \in D : q[i] = c
  <2>1. IsFiniteSet(D) /\ Cardinality(D) = Cardinality(S)
    <3>1. IsFiniteSet(1 .. Cardinality(S))
          /\ Cardinality(1 .. Cardinality(S)) = IF 1 > Cardinality(S) THEN 0 ELSE Cardinality(S) - 1 + 1
      BY <1>3, FS_Interval
    <3>. QED BY <3>1, <1>3
  <2>2. q \in Injection(D, S)
    BY <1>4 DEF Injection, IsInjective
  <2>3. q \in Surjection(D, S)
    BY <2>1, <2>2, FS_Injection
  <2>. QED BY <2>3 DEF Surjection
<1>. QED BY <1>1, <1>4, <1>5, <1>6
-----------------------------------------------------------------------------
(* Kahn's pass.  D holds the components taken off the queue so far; those  *)
(* of the callers of c among them that have already added their chains,    *)
(* and the ones still owed.                                                *)
Added(D, c) == {b \in D : c \in Adj(b) /\ ~(b = cur /\ c \in todo)}
Owed(D, c) == Callers(c) \ Added(D, c)
Queued(c) == \E i \in DOMAIN queue : queue[i] = c

(* The in-degree counts what is owed, a component is queued once nothing   *)
(* is, and its count is that of the chains that came through so far.       *)
KahnTypes ==
  /\ indeg \in [Component -> Int] /\ count \in [Component -> Nat] /\ queue \in Seq(Comps)
  /\ \A i, j \in DOMAIN queue : i # j => queue[i] # queue[j]

Taken(D) ==
  /\ D \in SUBSET Comps /\ \A c \in D : ~Queued(c)
  /\ cur = None => D = {} /\ todo = {}
  /\ cur # None => cur \in D /\ todo \subseteq Adj(cur)

Counted(D) ==
  \A c \in Comps :
    /\ indeg[c] = Cardinality(Owed(D, c))
    /\ Owed(D, c) = {} <=> c \in D \/ Queued(c)
    /\ count[c] = Capped(Cardinality(Through(c, Added(D, c))))

KahnInv == KahnTypes /\ \E D : Taken(D) /\ Counted(D)

(* A component has a node, so there are no more of them than nodes,        *)
(* whether the search is over or not.                                      *)
LEMMA NumbersFit ==
  ASSUME SearchTypes, Numbered
  PROVE  /\ Comps \subseteq Component /\ compID \in 0 .. Cardinality(Node)
         /\ comp \in [Node -> Component \cup {None}]
<1>. DEFINE S == {n \in Node : comp[n] # None}
            f == [n \in S |-> comp[n]]
<1>1. compID \in Nat /\ Comps = 0 .. compID - 1 /\ comp \in [Node -> Nat \cup {None}]
  BY DEF SearchTypes, Comps
<1>2. IsFiniteSet(S) /\ Cardinality(S) \in Nat /\ Cardinality(Node) \in Nat
  BY NodesAreFinite
<1>3. Cardinality(S) <= Cardinality(Node)
  BY CountAssumption, FS_Subset
<1>4. f \in Surjection(S, Comps)
  <2>1. \A n \in S : comp[n] \in Comps
    <3>. SUFFICES ASSUME NEW n \in S PROVE comp[n] \in Comps
      OBVIOUS
    <3>1. comp[n] \in Nat /\ comp[n] < compID
      BY <1>1 DEF Numbered
    <3>. QED BY <1>1, <3>1
  <2>2. \A c \in Comps : \E n \in S : comp[n] = c
    <3>. SUFFICES ASSUME NEW c \in Comps PROVE \E n \in S : comp[n] = c
      OBVIOUS
    <3>1. PICK n \in Node : comp[n] = c
      BY DEF Numbered
    <3>2. c # None
      BY <1>1 DEF None
    <3>. QED BY <3>1, <3>2
  <2>. QED BY <2>1, <2>2 DEF Surjection
<1>5. Cardinality(Comps) <= Cardinality(S)
  BY <1>2, <1>4, FS_Surjection
<1>6. Cardinality(Comps) = compID
  <2>1. 0 \in Int /\ compID - 1 \in Int /\ Comps = 0 .. (compID - 1) /\ compID \in Nat
    BY <1>1
  <2>2. Cardinality(Comps) = IF 0 > compID - 1 THEN 0 ELSE compID - 1 - 0 + 1
    BY <2>1, FS_Interval, Zenon
  <2>. QED BY <2>1, <2>2
<1>7. compID <= Cardinality(Node)
  BY <1>1, <1>2, <1>3, <1>5, <1>6
<1>8. Comps \subseteq Component
  BY <1>1, <1>2, <1>7 DEF Component
<1>9. \A n \in Node : comp[n] \in Component \cup {None}
  BY <1>4, <1>8 DEF Surjection
<1>. QED BY <1>1, <1>2, <1>7, <1>8, <1>9

LEMMA CompsAreComponents ==
  ASSUME Condensed
  PROVE  Comps \subseteq Component
  BY NumbersFit DEF Condensed, TarjanInv

LEMMA CondensationStays ==
  ASSUME UNCHANGED <<nodes, edges, searchVars>>
  PROVE  /\ Comps' = Comps /\ \A c : Adj(c)' = Adj(c) /\ Callers(c)' = Callers(c)
         /\ \A c, B : Through(c, B)' = Through(c, B)
<1>1. Comps' = Comps
  BY DEF Comps, searchVars
<1>2. \A c : Adj(c)' = Adj(c)
  BY DEF Adj, searchVars
<1>3. \A c : Callers(c)' = Callers(c)
  BY <1>1, <1>2 DEF Callers
<1>4. \A S, x, y : NextIn(S, x, y)' <=> NextIn(S, x, y)
  BY <1>2 DEF NextIn
<1>5. \A c : Descents(c)' = Descents(c)
  BY <1>1, <1>4 DEF Descents, searchVars
<1>6. \A c, B : Extended(c, B)' = Extended(c, B)
  BY <1>5 DEF Extended
<1>7. \A c : StartsAt(c)' = StartsAt(c)
  BY DEF StartsAt, searchVars
<1>. QED BY <1>1, <1>2, <1>3, <1>6, <1>7 DEF Through

LEMMA CappedIs ==
  /\ \A a \in Nat : Capped(a) \in Nat
  /\ \A a, b \in Nat : SatAdd(Capped(a), Capped(b)) = Capped(a + b)
  /\ Capped(0) = 0 /\ Capped(1) = 1
  /\ \A a \in Nat : a > 0 => Capped(a) > 0
  BY CountAssumption DEF Capped, SatAdd

LEMMA CallersAreFinite ==
  ASSUME Condensed, NEW c, NEW S \in SUBSET Callers(c)
  PROVE  IsFiniteSet(S) /\ Cardinality(S) \in Nat /\ (Cardinality(S) = 0 <=> S = {})
<1>1. 0 \in Int /\ compID - 1 \in Int /\ Comps = 0 .. (compID - 1) /\ S \in SUBSET Comps
  BY CondensedIs DEF Callers
<1>2. IsFiniteSet(Comps)
  BY <1>1, FS_Interval, Zenon
<1>. QED BY <1>1, <1>2, FS_Subset, FS_CardinalityType, FS_EmptySet

LEMMA StartCountGives ==
  ASSUME Condensed, StartCount, cur = None, todo = {}, UNCHANGED <<nodes, edges>>
  PROVE  KahnInv'
<1>. USE CondensedIs, CondensationStays
<1>1. UNCHANGED <<nodes, edges, searchVars>> /\ cur' = None /\ todo' = {}
  BY DEF StartCount
<1>2. /\ Comps' = Comps /\ \A c : Adj(c)' = Adj(c) /\ Callers(c)' = Callers(c)
      /\ \A c, B : Through(c, B)' = Through(c, B)
  BY <1>1, CondensationStays
<1>3. \A c : InDegree(c) = Cardinality(Callers(c))
  BY DEF InDegree, Callers
<1>4. PICK Z : Z = {c \in Comps : InDegree(c) = 0}
  OBVIOUS
<1>5. Z \subseteq Nat /\ IsFiniteSet(Z)
  <2>1. 0 \in Int /\ compID - 1 \in Int /\ Comps = 0 .. (compID - 1)
    OBVIOUS
  <2>2. IsFiniteSet(Comps)
    BY <2>1, FS_Interval, Zenon
  <2>. QED BY <1>4, <2>2, FS_Subset
<1>6. queue' = Ascending(Z)
  BY <1>4 DEF StartCount
<1>7. /\ queue' \in Seq(Z)
      /\ \A i, j \in DOMAIN queue' : i # j => queue'[i] # queue'[j]
      /\ \A c \in Z : \E i \in DOMAIN queue' : queue'[i] = c
  <2>1. /\ Ascending(Z) \in Seq(Z)
        /\ \A i, j \in DOMAIN Ascending(Z) : i # j => Ascending(Z)[i] # Ascending(Z)[j]
        /\ \A c \in Z : \E i \in DOMAIN Ascending(Z) : Ascending(Z)[i] = c
    BY <1>5, AscendingIs
  <2>. QED BY <2>1, <1>6, Zenon
<1>8. \A c : Queued(c)' <=> c \in Z
  BY <1>7 DEF Queued
<1>9. \A c \in Comps : Added({}, c)' = {} /\ Owed({}, c)' = Callers(c)
  BY <1>2 DEF Added, Owed
<1>10. KahnTypes'
  <2>1. queue' \in Seq(Comps)
    BY <1>4, <1>7
  <2>2. indeg' = [c \in Component |-> IF c \in Comps THEN InDegree(c) ELSE 0]
        /\ count' = [c \in Component |-> IF c = comp[Root] THEN 1 ELSE 0]
    BY DEF StartCount
  <2>3. \A c \in Comps : InDegree(c) \in Nat
    BY <1>3, CallersAreFinite
  <2>4. indeg' \in [Component -> Int] /\ count' \in [Component -> Nat]
    BY <2>2, <2>3
  <2>. QED BY <2>1, <2>4, <1>2, <1>7 DEF KahnTypes
<1>11. Taken({})'
  BY <1>1 DEF Taken
<1>12. Counted({})'
  <2>. SUFFICES ASSUME NEW c \in Comps
                PROVE  /\ indeg'[c] = Cardinality(Callers(c))
                       /\ Callers(c) = {} <=> Queued(c)'
                       /\ count'[c] = Capped(Cardinality(Through(c, {})))
    BY <1>2, <1>9 DEF Counted
  <2>1. c \in Component
    BY CompsAreComponents
  <2>2. indeg'[c] = Cardinality(Callers(c))
    BY <2>1, <1>3 DEF StartCount
  <2>3. Callers(c) = {} <=> c \in Z
    BY <1>3, <1>4, CallersAreFinite
  <2>4. count'[c] = IF c = comp[Root] THEN 1 ELSE 0
    BY <2>1 DEF StartCount
  <2>5. Through(c, {}) = StartsAt(c)
    BY DEF Through, Extended
  <2>6. Cardinality(StartsAt(c)) = IF c = comp[Root] THEN 1 ELSE 0
    BY FS_EmptySet, FS_Singleton DEF StartsAt
  <2>. QED BY <2>2, <2>3, <2>4, <2>5, <2>6, <1>8, CappedIs
<1>. QED BY <1>10, <1>11, <1>12 DEF KahnInv

LEMMA DequeueKeeps ==
  ASSUME Condensed, KahnInv, Dequeue, UNCHANGED <<nodes, edges>>
  PROVE  KahnInv'
<1>. USE CondensedIs
<1>1. PICK D : Taken(D) /\ Counted(D)
  BY DEF KahnInv
<1>2. PICK q : q = Head(queue)
  OBVIOUS
<1>3. /\ todo = {} /\ queue # <<>> /\ cur' = q /\ queue' = Tail(queue) /\ todo' = Adj(q)
      /\ UNCHANGED <<nodes, edges, searchVars>> /\ indeg' = indeg /\ count' = count
  BY <1>2 DEF Dequeue
<1>4. /\ Comps' = Comps /\ \A c : Adj(c)' = Adj(c) /\ Callers(c)' = Callers(c)
      /\ \A c, B : Through(c, B)' = Through(c, B)
  BY <1>3, CondensationStays
<1>5. /\ queue \in Seq(Comps) /\ \A i, j \in DOMAIN queue : i # j => queue[i] # queue[j]
      /\ indeg \in [Component -> Int] /\ count \in [Component -> Nat]
  BY DEF KahnInv, KahnTypes
<1>6. /\ Len(queue) \in Nat \ {0} /\ DOMAIN queue = 1 .. Len(queue) /\ q = queue[1]
      /\ queue' \in Seq(Comps) /\ DOMAIN queue' = 1 .. Len(queue) - 1
      /\ \A i \in 1 .. Len(queue) - 1 : queue'[i] = queue[i + 1]
  BY <1>2, <1>3, <1>5
<1>7. q \in Comps /\ Queued(q) /\ q \notin D /\ q # None
  BY <1>1, <1>5, <1>6 DEF Queued, Taken, None
<1>8. \A c : Queued(c)' <=> Queued(c) /\ c # q
  <2>. SUFFICES ASSUME NEW c PROVE Queued(c)' <=> Queued(c) /\ c # q
    OBVIOUS
  <2>1. Queued(c)' <=> \E i \in 1 .. Len(queue) - 1 : queue[i + 1] = c
    BY <1>6 DEF Queued
  <2>2. Queued(c) <=> \E i \in 1 .. Len(queue) : queue[i] = c
    BY <1>6 DEF Queued
  <2>3. ASSUME NEW i \in 1 .. Len(queue) - 1, queue[i + 1] = c PROVE Queued(c) /\ c # q
    <3>1. i + 1 \in 1 .. Len(queue) /\ 1 \in 1 .. Len(queue) /\ i + 1 # 1
      BY <1>6
    <3>. QED BY <2>2, <2>3, <3>1, <1>5, <1>6
  <2>4. ASSUME NEW i \in 1 .. Len(queue), queue[i] = c, c # q
        PROVE  \E j \in 1 .. Len(queue) - 1 : queue[j + 1] = c
    <3>1. i # 1
      BY <2>4, <1>6
    <3>2. i - 1 \in 1 .. Len(queue) - 1 /\ i - 1 + 1 = i
      BY <3>1, <1>6
    <3>. QED BY <2>4, <3>2
  <2>. QED BY <2>1, <2>2, <2>3, <2>4
<1>e. PICK E : E = D \cup {q}
  OBVIOUS
<1>9. \A c \in Comps : Added(E, c)' = Added(D, c) /\ Owed(E, c)' = Owed(D, c)
  <2>. SUFFICES ASSUME NEW c \in Comps
                PROVE  Added(E, c)' = Added(D, c) /\ Owed(E, c)' = Owed(D, c)
    OBVIOUS
  <2>1. Added(E, c)' = {b \in D \cup {q} : c \in Adj(b) /\ ~(b = q /\ c \in Adj(q))}
    BY <1>e, <1>3, <1>4 DEF Added
  <2>2. Added(D, c) = {b \in D : c \in Adj(b)}
    BY <1>3 DEF Added
  <2>3. Added(E, c)' = Added(D, c)
    BY <2>1, <2>2, <1>7
  <2>. QED BY <2>3, <1>4 DEF Owed
<1>10. KahnTypes'
  <2>1. ASSUME NEW i \in DOMAIN queue', NEW j \in DOMAIN queue', i # j PROVE queue'[i] # queue'[j]
    <3>1. i + 1 \in DOMAIN queue /\ j + 1 \in DOMAIN queue /\ i + 1 # j + 1
      BY <2>1, <1>6
    <3>. QED BY <3>1, <1>5, <1>6
  <2>. QED BY <2>1, <1>3, <1>4, <1>5, <1>6 DEF KahnTypes
<1>11. Taken(E)'
  BY <1>1, <1>3, <1>4, <1>7, <1>8, <1>e DEF Taken
<1>12. Counted(E)'
  <2>. SUFFICES ASSUME NEW c \in Comps
                PROVE  /\ indeg[c] = Cardinality(Owed(D, c))
                       /\ Owed(D, c) = {} <=> c \in E \/ Queued(c)'
                       /\ count[c] = Capped(Cardinality(Through(c, Added(D, c))))
    BY <1>3, <1>4, <1>9 DEF Counted
  <2>. QED BY <1>1, <1>7, <1>8, <1>e DEF Counted
<1>. QED BY <1>10, <1>11, <1>12 DEF KahnInv

LEMMA RelaxKeeps ==
  ASSUME Condensed, KahnInv, NEW c, Relax(c), UNCHANGED <<nodes, edges>>
  PROVE  KahnInv'
<1>. USE CondensedIs
<1>1. PICK D : Taken(D) /\ Counted(D)
  BY DEF KahnInv
<1>2. PICK b : b = cur
  OBVIOUS
<1>3. /\ c \in todo /\ todo' = todo \ {c} /\ cur' = b
      /\ count' = [count EXCEPT ![c] = SatAdd(count[c], count[b])]
      /\ indeg' = [indeg EXCEPT ![c] = indeg[c] - 1]
      /\ queue' = IF indeg[c] = 1 THEN Append(queue, c) ELSE queue
      /\ UNCHANGED <<nodes, edges, searchVars>>
  BY <1>2 DEF Relax
<1>4. /\ Comps' = Comps /\ \A d : Adj(d)' = Adj(d) /\ Callers(d)' = Callers(d)
      /\ \A d, B : Through(d, B)' = Through(d, B)
  BY <1>3, CondensationStays
<1>5. /\ queue \in Seq(Comps) /\ \A i, j \in DOMAIN queue : i # j => queue[i] # queue[j]
      /\ indeg \in [Component -> Int] /\ count \in [Component -> Nat]
      /\ DOMAIN queue = 1 .. Len(queue) /\ Len(queue) \in Nat
  BY DEF KahnInv, KahnTypes
<1>6. b \in D /\ b \in Comps /\ c \in Adj(b) /\ c \in Comps /\ c # b /\ todo \subseteq Adj(b)
  <2>1. b \in D /\ D \subseteq Comps /\ todo \subseteq Adj(b)
    BY <1>1, <1>2, <1>3 DEF Taken
  <2>2. b \in Comps /\ c \in Adj(b)
    BY <2>1, <1>3
  <2>3. c < b /\ c \in Comps
    BY <2>2, BeforeIs
  <2>4. b \in Nat /\ c \in Nat
    BY <2>2, <2>3
  <2>5. c # b
    BY <2>3, <2>4
  <2>. QED BY <2>1, <2>2, <2>3, <2>5
<1>7. c \in Component /\ b \in Component
  BY <1>6, CompsAreComponents
<1>8. b \in Callers(c) /\ b \notin Added(D, c) /\ b \in Owed(D, c)
  BY <1>2, <1>3, <1>6 DEF Callers, Added, Owed
<1>9. Added(D, c)' = Added(D, c) \cup {b} /\ Owed(D, c)' = Owed(D, c) \ {b}
  <2>1. Added(D, c)' = {a \in D : c \in Adj(a)}
    BY <1>3, <1>4 DEF Added
  <2>2. Added(D, c) = {a \in D : c \in Adj(a) /\ a # b}
    BY <1>2, <1>3 DEF Added
  <2>3. Added(D, c)' = Added(D, c) \cup {b}
    BY <2>1, <2>2, <1>6
  <2>. QED BY <2>3, <1>4 DEF Owed
<1>10. \A d \in Comps : d # c => Added(D, d)' = Added(D, d) /\ Owed(D, d)' = Owed(D, d)
  <2>. SUFFICES ASSUME NEW d \in Comps, d # c
                PROVE  Added(D, d)' = Added(D, d) /\ Owed(D, d)' = Owed(D, d)
    OBVIOUS
  <2>1. Added(D, d)' = {a \in D : d \in Adj(a) /\ ~(a = b /\ d \in todo)}
    BY <1>3, <1>4 DEF Added
  <2>2. Added(D, d)' = Added(D, d)
    BY <2>1, <1>2 DEF Added
  <2>. QED BY <2>2, <1>4 DEF Owed
<1>11. /\ indeg[c] = Cardinality(Owed(D, c)) /\ Owed(D, c) \in SUBSET Callers(c)
       /\ c \notin D /\ ~Queued(c)
       /\ count[c] = Capped(Cardinality(Through(c, Added(D, c))))
  BY <1>1, <1>6, <1>8 DEF Counted, Owed
<1>12. Cardinality(Owed(D, c) \ {b}) = indeg[c] - 1 /\ indeg[c] \in Nat
       /\ (indeg[c] = 1 <=> Owed(D, c) \ {b} = {})
  <2>1. IsFiniteSet(Owed(D, c)) /\ Cardinality(Owed(D, c)) \in Nat
    BY <1>11, CallersAreFinite
  <2>2. Cardinality(Owed(D, c) \ {b}) = Cardinality(Owed(D, c)) - 1
    BY <2>1, <1>8, FS_RemoveElement
  <2>3. Owed(D, c) \ {b} \in SUBSET Callers(c)
    BY <1>11
  <2>4. Cardinality(Owed(D, c) \ {b}) = 0 <=> Owed(D, c) \ {b} = {}
    BY <2>3, CallersAreFinite
  <2>. QED BY <2>1, <2>2, <2>4, <1>11
(* What the component taken last has counted is final.                     *)
<1>13. count[b] = Capped(Cardinality(Descents(b)))
  <2>1. Owed(D, b) = {} /\ count[b] = Capped(Cardinality(Through(b, Added(D, b))))
    BY <1>1, <1>6 DEF Counted
  <2>2. Added(D, b) \subseteq Callers(b)
    BY <1>1 DEF Added, Callers, Taken
  <2>3. Added(D, b) = Callers(b)
    BY <2>1, <2>2 DEF Owed
  <2>. QED BY <2>1, <2>3, <1>6, DescentsThroughCallers
<1>14. SatAdd(count[c], count[b]) = Capped(Cardinality(Through(c, Added(D, c) \cup {b})))
  <2>1. Added(D, c) \in SUBSET Callers(c) /\ Added(D, c) \in SUBSET Comps
    BY <1>1 DEF Added, Callers, Taken
  <2>2. Cardinality(Through(c, Added(D, c) \cup {b}))
          = Cardinality(Through(c, Added(D, c))) + Cardinality(Descents(b))
    BY <2>1, <1>6, <1>8, ThroughOneMore
  <2>3. Cardinality(Through(c, Added(D, c))) \in Nat /\ Cardinality(Descents(b)) \in Nat
    BY <2>1, <1>6, DescentsAreFinite
  <2>. QED BY <2>2, <2>3, <1>11, <1>13, CappedIs
<1>15. \A d : Queued(d)' <=> Queued(d) \/ (d = c /\ indeg[c] = 1)
  <2>1. CASE indeg[c] = 1
    <3>1. queue' = Append(queue, c)
      BY <2>1, <1>3
    <3>2. DOMAIN queue' = 1 .. Len(queue) + 1 /\ queue'[Len(queue) + 1] = c
          /\ \A i \in 1 .. Len(queue) : queue'[i] = queue[i]
      BY <3>1, <1>5, <1>6
    <3>3. /\ Len(queue) + 1 \in 1 .. Len(queue) + 1
          /\ \A i \in 1 .. Len(queue) + 1 : i \in 1 .. Len(queue) \/ i = Len(queue) + 1
          /\ \A i \in 1 .. Len(queue) : i \in 1 .. Len(queue) + 1
      BY <1>5
    <3>. QED BY <2>1, <3>2, <3>3, <1>5 DEF Queued
  <2>2. CASE indeg[c] # 1
    BY <2>2, <1>3 DEF Queued
  <2>. QED BY <2>1, <2>2
<1>16. KahnTypes'
  <2>1. indeg' \in [Component -> Int] /\ count' \in [Component -> Nat]
    <3>1. SatAdd(count[c], count[b]) \in Nat
      BY <1>5, <1>7, CountAssumption DEF SatAdd
    <3>. QED BY <3>1, <1>3, <1>5, <1>7
  <2>2. queue' \in Seq(Comps)
    BY <1>3, <1>5, <1>6
  <2>3. ASSUME NEW i \in DOMAIN queue', NEW j \in DOMAIN queue', i # j PROVE queue'[i] # queue'[j]
    <3>1. CASE indeg[c] = 1
      <4>1. queue' = Append(queue, c)
        BY <3>1, <1>3
      <4>2. DOMAIN queue' = 1 .. Len(queue) + 1 /\ queue'[Len(queue) + 1] = c
            /\ \A k \in 1 .. Len(queue) : queue'[k] = queue[k]
        BY <4>1, <1>5, <1>6
      <4>n. \A k \in 1 .. Len(queue) : queue[k] # c
        BY <1>5, <1>11 DEF Queued
      <4>3. /\ i \in 1 .. Len(queue) \/ i = Len(queue) + 1
            /\ j \in 1 .. Len(queue) \/ j = Len(queue) + 1
        BY <4>2, <1>5
      <4>. QED BY <2>3, <4>2, <4>n, <4>3, <1>5
    <3>2. CASE indeg[c] # 1
      BY <2>3, <3>2, <1>3, <1>5
    <3>. QED BY <3>1, <3>2
  <2>. QED BY <2>1, <2>2, <2>3, <1>4 DEF KahnTypes
<1>17. Taken(D)'
  <2>1. \A d \in D : ~Queued(d)'
    BY <1>1, <1>11, <1>15 DEF Taken
  <2>2. b # None
    BY <1>6 DEF None
  <2>. QED BY <2>1, <2>2, <1>1, <1>3, <1>4, <1>6 DEF Taken
<1>18. Counted(D)'
  <2>. SUFFICES ASSUME NEW d \in Comps
                PROVE  /\ indeg'[d] = Cardinality(Owed(D, d)')
                       /\ Owed(D, d)' = {} <=> d \in D \/ Queued(d)'
                       /\ count'[d] = Capped(Cardinality(Through(d, Added(D, d)')))
    BY <1>4 DEF Counted
  <2>1. CASE d = c
    <3>1. indeg'[c] = indeg[c] - 1 /\ count'[c] = SatAdd(count[c], count[b])
      BY <1>3, <1>5, <1>7
    <3>2. Through(c, Added(D, c)') = Through(c, Added(D, c) \cup {b})
      BY <1>9
    <3>. QED BY <2>1, <3>1, <3>2, <1>9, <1>11, <1>12, <1>14, <1>15
  <2>2. CASE d # c
    <3>1. indeg'[d] = indeg[d] /\ count'[d] = count[d]
      <4>1. d \in Component
        BY CompsAreComponents
      <4>. QED BY <4>1, <2>2, <1>3, <1>5
    <3>2. /\ indeg[d] = Cardinality(Owed(D, d))
          /\ Owed(D, d) = {} <=> d \in D \/ Queued(d)
          /\ count[d] = Capped(Cardinality(Through(d, Added(D, d))))
      BY <1>1 DEF Counted
    <3>3. Queued(d)' <=> Queued(d)
      BY <2>2, <1>15
    <3>. QED BY <2>2, <3>1, <3>2, <3>3, <1>10
  <2>. QED BY <2>1, <2>2
<1>. QED BY <1>16, <1>17, <1>18 DEF KahnInv

LEMMA KahnStays ==
  ASSUME KahnInv, UNCHANGED <<nodes, edges, searchVars, kahnVars>>
  PROVE  KahnInv'
<1>1. /\ Comps' = Comps /\ \A d : Adj(d)' = Adj(d) /\ Callers(d)' = Callers(d)
      /\ \A d, B : Through(d, B)' = Through(d, B)
  BY CondensationStays
<1>2. PICK D : Taken(D) /\ Counted(D)
  BY DEF KahnInv
<1>3. /\ \A d : Queued(d)' <=> Queued(d)
      /\ \A d : Added(D, d)' = Added(D, d)
      /\ \A d : Owed(D, d)' = Owed(D, d)
  BY <1>1 DEF Queued, Added, Owed, kahnVars
<1>4. KahnTypes'
  BY <1>1 DEF KahnInv, KahnTypes, kahnVars
<1>5. Taken(D)'
  BY <1>1, <1>2, <1>3 DEF Taken, kahnVars
<1>6. Counted(D)'
  BY <1>1, <1>2, <1>3 DEF Counted, kahnVars
<1>. QED BY <1>4, <1>5, <1>6 DEF KahnInv

(* When the queue is empty every component has been taken: the greatest    *)
(* one that was not would be owed nothing.                                 *)
LEMMA AllCounted ==
  ASSUME Condensed, KahnInv, CountDone, NEW c \in Comps
  PROVE  count[c] = Capped(Cardinality(Descents(c)))
<1>. USE CondensedIs
<1>1. PICK D : Taken(D) /\ Counted(D)
  BY DEF KahnInv
<1>2. \A d : ~Queued(d)
  BY DEF CountDone, Queued
<1>3. \A d : Added(D, d) = {b \in D : d \in Adj(b)}
  BY DEF CountDone, Added
<1>4. Comps \subseteq D
  <2>. DEFINE Bad == {k \in Nat : compID - k \in Comps /\ compID - k \notin D}
  <2>1. ASSUME Bad # {} PROVE FALSE
    <3>1. PICK k \in Bad : \A j \in Bad : k <= j
      BY <2>1, NatMin
    <3>2. PICK d : d = compID - k
      OBVIOUS
    <3>3. d \in Comps /\ d \notin D /\ k \in Nat
      BY <3>1, <3>2
    <3>4. \A b \in Callers(d) : b \in D
      <4>. SUFFICES ASSUME NEW b \in Callers(d) PROVE b \in D
        OBVIOUS
      <4>1. b \in Comps /\ d < b
        BY BeforeIs DEF Callers
      <4>2. compID - b \in Nat /\ compID - b < k /\ compID - (compID - b) = b
        BY <4>1, <3>2, <3>3
      <4>. QED BY <4>1, <4>2, <3>1, <3>3
    <3>5. Owed(D, d) = {}
      BY <3>4, <1>3 DEF Owed, Callers
    <3>. QED BY <3>3, <3>5, <1>1, <1>2 DEF Counted
  <2>2. ASSUME NEW d \in Comps PROVE d \in D
    <3>1. compID - d \in Nat /\ compID - (compID - d) = d
      OBVIOUS
    <3>. QED BY <2>1, <3>1
  <2>. QED BY <2>2
<1>5. Added(D, c) = Callers(c)
  BY <1>1, <1>3, <1>4 DEF Callers, Taken
<1>. QED BY <1>1, <1>5, DescentsThroughCallers DEF Counted

-----------------------------------------------------------------------------
(* The count begins where the search ends, and is complete when the rows   *)
(* are made.                                                               *)
CountedUp ==
  /\ phase \in {"merge", "search"} => cur = None /\ todo = {}
  /\ phase \in {"count", "rolled"} => KahnInv
  /\ phase = "rolled" => CountDone

LEMMA CountedUpStep ==
  ASSUME CountedUp, SearchInv, GraphInv, [Next]_vars
  PROVE  CountedUp'
<1>1. phase \notin {"merge", "search"} => Condensed
  BY DEF SearchInv, Searched, Condensed
<1>2. CASE Merge \/ Search
  BY <1>2 DEF Merge, Search, SearchStep, countVars, kahnVars, CountedUp
<1>3. CASE Condense
  <2>1. /\ StartCount /\ cur = None /\ todo = {} /\ phase' = "count"
        /\ UNCHANGED <<nodes, edges>>
    BY <1>3 DEF Condense, CountedUp, graphVars
  <2>2. Condensed
    BY <2>1 DEF StartCount, SearchInv, Condensed
  <2>3. KahnInv'
    BY <2>1, <2>2, StartCountGives
  <2>. QED BY <2>1, <2>3 DEF CountedUp
<1>4. CASE Count
  <2>1. phase = "count" /\ phase' = "count" /\ UNCHANGED <<nodes, edges>> /\ KahnInv /\ Condensed
    BY <1>1, <1>4 DEF Count, CountedUp, graphVars
  <2>2. CASE Dequeue
    <3>1. KahnInv'
      BY <2>1, <2>2, DequeueKeeps
    <3>. QED BY <2>1, <3>1 DEF CountedUp
  <2>3. CASE \E c \in todo : Relax(c)
    <3>1. KahnInv'
      BY <2>1, <2>3, RelaxKeeps
    <3>. QED BY <2>1, <3>1 DEF CountedUp
  <2>. QED BY <1>4, <2>2, <2>3 DEF Count
<1>5. CASE RollUp
  <2>1. /\ KahnInv /\ CountDone /\ phase' = "rolled"
        /\ UNCHANGED <<nodes, edges, searchVars, kahnVars>>
    BY <1>5 DEF RollUp, CountedUp, graphVars, countVars
  <2>2. KahnInv'
    BY <2>1, KahnStays
  <2>3. CountDone'
    BY <2>1 DEF CountDone, kahnVars
  <2>. QED BY <2>1, <2>2, <2>3 DEF CountedUp
<1>6. CASE Audit \/ Walk \/ Plan \/ PlanBumps \/ Report
  <2>1. phase' \notin {"merge", "search", "count", "rolled"}
    BY <1>6 DEF Audit, Walk, Plan, PlanBumps, Report
  <2>. QED BY <2>1 DEF CountedUp
<1>7. CASE UNCHANGED vars
  <2>1. UNCHANGED <<phase, nodes, edges, searchVars, kahnVars>>
    BY <1>7 DEF vars, graphVars, countVars
  <2>2. KahnInv => KahnInv'
    BY <2>1, KahnStays
  <2>. QED BY <2>1, <2>2 DEF CountedUp, CountDone, kahnVars
<1>. QED BY <1>2, <1>3, <1>4, <1>5, <1>6, <1>7 DEF Next

CountInv == CountedUp /\ SearchInv /\ ReachInv

LEMMA CountInvHolds == Spec => []CountInv
<1>1. Init => CountedUp
  BY DEF Init, CountInit, CountedUp
<1>2. CountedUp /\ SearchInv /\ ReachInv /\ [Next]_vars => CountedUp'
  BY CountedUpStep DEF ReachInv
<1>. QED BY <1>1, <1>2, SearchInvHolds, ReachInvHolds, PTL DEF Spec, CountInv

(* What the rows are made from: a complete count over the condensation.    *)
LEMMA PathsAre ==
  ASSUME CountInv, phase = "rolled", NEW n \in nodes
  PROVE  /\ Condensed /\ comp[n] \in Comps
         /\ Paths(n) = Capped(Cardinality(Descents(comp[n])))
<1>1. Condensed /\ KahnInv /\ CountDone
  BY DEF CountInv, CountedUp, SearchInv, Searched, ReachInv, Condensed
<1>2. comp[n] \in Comps /\ comp[n] # None
  BY <1>1, CondensedIs DEF None
<1>. QED BY <1>1, <1>2, AllCounted DEF Paths

(* countPaths: the count of a node is the number of chains of components   *)
(* from the root to it, or the cap, whatever order the map is ranged over. *)
THEOREM AnalysisCountsExact == Spec => []CountsExact
<1>1. CountInv => CountsExact
  <2>. SUFFICES ASSUME CountInv, phase = "rolled", NEW n \in nodes
                PROVE  Paths(n) = Capped(Cardinality(Chains(comp[n], Before)))
    BY DEF CountsExact, Before
  <2>. QED BY PathsAre, ChainsAreDescents
<1>. QED BY <1>1, CountInvHolds, PTL

-----------------------------------------------------------------------------
(* What the lockfiles install.  Merge leaves an edge to each copy from the *)
(* one that holds it, or from the root.                                    *)
PlacedInv ==
  /\ phase # "merge" =>
       /\ inst = Instances(files)
       /\ \A i \in inst :
            [from |-> Placement(inst, i, Root), to |-> i.node, spec |-> ""] \in edges
  /\ phase = "rolled" => versionRow = VersionRows

LEMMA RowsStay ==
  ASSUME UNCHANGED <<nodes, edges, inst, searchVars, kahnVars>>
  PROVE  VersionRows' = VersionRows
<1>1. /\ \A n : Copies(n)' = Copies(n) /\ Specs(n)' = Specs(n) /\ Paths(n)' = Paths(n)
      /\ RowNodes' = RowNodes
  BY DEF Copies, Specs, Paths, searchVars, kahnVars, RowNodes
<1>2. \A n : ByName(n)' = ByName(n)
  BY <1>1 DEF ByName
<1>3. \A n : Declares(n)' = Declares(n)
  BY <1>1, <1>2 DEF Declares
<1>4. \A n : PinningOf(n)' = PinningOf(n)
  BY <1>1, <1>3 DEF PinningOf
<1>5. \A n : StateOf(n)' = StateOf(n)
  BY <1>1 DEF StateOf
<1>6. \A n : VersionRow(n)' = VersionRow(n)
  BY <1>1, <1>4, <1>5 DEF VersionRow
<1>. QED BY <1>1, <1>6 DEF VersionRows

LEMMA PlacedInvHolds == Spec => []PlacedInv
<1>1. Init => PlacedInv
  BY DEF Init, PlacedInv
<1>2. PlacedInv /\ [Next]_vars => PlacedInv'
  <2>. SUFFICES ASSUME PlacedInv, [Next]_vars PROVE PlacedInv'
    OBVIOUS
  <2>1. CASE Merge
    BY <2>1 DEF Merge, MergedEdges, PlacedInv
  <2>2. CASE RollUp
    <3>1. phase # "merge" /\ phase' = "rolled" /\ UNCHANGED <<files, inst, edges>>
      BY <2>2 DEF RollUp, graphVars
    <3>2. versionRow' = VersionRows /\ VersionRows' = VersionRows
      BY <2>2, RowsStay DEF RollUp, graphVars, countVars
    <3>. QED BY <3>1, <3>2 DEF PlacedInv
  <2>3. CASE UNCHANGED vars
    <3>1. UNCHANGED <<phase, files, inst, edges, versionRow>> /\ VersionRows' = VersionRows
      BY <2>3, RowsStay DEF vars, graphVars, countVars
    <3>. QED BY <3>1 DEF PlacedInv
  <2>4. CASE Search \/ Condense \/ Count \/ Audit \/ Walk \/ Plan \/ PlanBumps \/ Report
    <3>1. phase # "merge" /\ phase' \notin {"merge", "rolled"} /\ UNCHANGED <<files, inst, edges>>
      BY <2>4 DEF Search, Condense, Count, Audit, Walk, Plan, PlanBumps, Report, graphVars
    <3>. QED BY <3>1 DEF PlacedInv
  <2>. QED BY <2>1, <2>2, <2>3, <2>4 DEF Next
<1>. QED BY <1>1, <1>2, PTL DEF Spec

(* A copy is at a path of one name or more, and the one that holds it at   *)
(* the path without the last.                                              *)
LEMMA InstancesAreNested ==
  ASSUME FilesInv, NEW i \in Instances(files)
  PROVE  /\ i.locator.path \in Seq(STRING) \ {<<>>}
         /\ \/ i.parent.path = <<>>
            \/ /\ i.parent.path = Front(i.locator.path)
               /\ Len(i.locator.path) # 1
<1>1. PICK k \in DOMAIN files : i \in Resolve(files[k])
  BY DEF Instances
<1>2. PICK c \in files[k].copies :
        /\ i.locator = Locator(files[k].npm, files[k].dir, c.path)
        /\ i.parent = IF files[k].npm THEN ParentLocator(c.path) ELSE TopLevel
  BY <1>1 DEF Resolve
<1>3. i.locator.path = c.path
  BY <1>2 DEF Locator
<1>4. c.path \in Seq(STRING) \ {<<>>}
  BY DEF FilesInv
<1>5. i.parent = TopLevel \/ (Len(c.path) # 1 /\ i.parent = Locator(TRUE, ".", Front(c.path)))
  BY <1>2 DEF ParentLocator
<1>6. TopLevel.path = <<>> /\ Locator(TRUE, ".", Front(c.path)).path = Front(c.path)
  BY DEF TopLevel, Locator
<1>. QED BY <1>3, <1>4, <1>5, <1>6

(* So from the root one gets to every copy, host after host.               *)
LEMMA RootLeadsToCopies ==
  ASSUME FilesInv, GraphInv, PlacedInv, phase # "merge", NEW i \in inst
  PROVE  Leads(Root, i.node)
<1>1. inst = Instances(files)
  BY DEF PlacedInv
<1>. DEFINE Bad == {n \in Nat : \E j \in inst : Len(j.locator.path) = n /\ ~Leads(Root, j.node)}
<1>2. ASSUME Bad # {} PROVE FALSE
  <2>1. PICK n \in Bad : \A m \in Bad : n <= m
    BY <1>2, NatMin
  <2>2. PICK j \in inst : Len(j.locator.path) = n /\ ~Leads(Root, j.node)
    BY <2>1
  <2>3. PICK e : e = [from |-> Placement(inst, j, Root), to |-> j.node, spec |-> ""]
    OBVIOUS
  <2>4. e \in edges /\ e.from = Placement(inst, j, Root) /\ e.to = j.node
    BY <2>2, <2>3 DEF PlacedInv
  <2>5. Leads(e.from, j.node)
    BY <2>4, EdgeLeads
  <2>6. CASE e.from = Root
    BY <2>2, <2>5, <2>6
  <2>7. CASE e.from # Root
    <3>1. PICK p \in inst : e.from = p.node /\ p.locator = j.parent
      BY <2>4, <2>7 DEF Placement
    <3>2. p.locator.path \in Seq(STRING) \ {<<>>} /\ j.locator.path \in Seq(STRING) \ {<<>>}
      BY <1>1, <2>2, <3>1, InstancesAreNested
    <3>3. p.locator.path = Front(j.locator.path)
      BY <1>1, <2>2, <3>1, <3>2, InstancesAreNested
    <3>4. Len(Front(j.locator.path)) = Len(j.locator.path) - 1
      BY <3>2 DEF Front
    <3>5. Len(p.locator.path) \in Nat /\ Len(p.locator.path) < n
      BY <2>2, <3>2, <3>3, <3>4
    <3>6. Leads(Root, p.node)
      BY <2>1, <3>1, <3>5
    <3>. QED BY <2>2, <2>5, <3>1, <3>6, LeadsIs
  <2>. QED BY <2>6, <2>7
<1>3. Len(i.locator.path) \in Nat
  BY <1>1, InstancesAreNested
<1>. QED BY <1>2, <1>3

(* Some chain leads to what the root leads to.                             *)
LEMMA ReachedHasChain ==
  ASSUME Condensed, NEW n \in nodes, Leads(Root, n)
  PROVE  Descents(comp[n]) # {}
<1>. USE CondensedIs
<1>. DEFINE S == {m \in nodes : Descents(comp[m]) # {}}
<1>1. Root \in nodes /\ comp[Root] \in Comps
  BY DEF Condensed, GraphInv
<1>2. {comp[Root]} \in Descents(comp[Root])
  BY <1>1 DEF Descents
<1>3. Closed(S, edges)
  <2>. SUFFICES ASSUME NEW e \in edges, e.from \in S PROVE Descents(comp[e.to]) # {}
    BY DEF Closed
  <2>1. comp[e.from] \in Comps /\ comp[e.to] \in Comps
    OBVIOUS
  <2>2. CASE comp[e.from] = comp[e.to]
    BY <2>2
  <2>3. CASE comp[e.from] # comp[e.to]
    <3>1. comp[e.from] \in Callers(comp[e.to])
      BY <2>1, <2>3 DEF Callers, Adj
    <3>2. PICK C : C \in Descents(comp[e.from])
      OBVIOUS
    <3>. QED BY <2>1, <3>1, <3>2, ExtendedDescends
  <2>. QED BY <2>2, <2>3
<1>4. n \in S
  BY <1>1, <1>2, <1>3, LeadsIs
<1>. QED BY <1>4

(* Merge and ComputeWith: what a lockfile installs has a version row that  *)
(* says so, and a chain from the root.                                     *)
THEOREM AnalysisInstalledIsReached == Spec => []InstalledIsReached
<1>1. ASSUME FilesInv, CountInv, PlacedInv PROVE InstalledIsReached
  <2>. SUFFICES ASSUME phase = "rolled", NEW i \in Instances(files)
                PROVE  /\ i.node \in DOMAIN versionRow
                       /\ versionRow[i.node].state = "installed"
                       /\ versionRow[i.node].paths > 0
    BY DEF InstalledIsReached
  <2>1. GraphInv
    BY <1>1 DEF CountInv, ReachInv
  <2>2. inst = Instances(files) /\ versionRow = VersionRows
    BY <1>1 DEF PlacedInv
  <2>3. i.node \in nodes /\ Leads(Root, i.node)
    BY <1>1, <2>1, <2>2, RootLeadsToCopies, LeadsIs
  <2>4. i.node # Root /\ Kind[i.node] = "version"
    BY <1>1, InstancesAreVersions, NodeDataAssumption
  <2>5. i.node \in RowNodes
    BY <2>3, <2>4 DEF RowNodes
  <2>6. versionRow[i.node] = VersionRow(i.node)
    BY <2>2, <2>5 DEF VersionRows
  <2>7. StateOf(i.node) = "installed"
    BY <2>2 DEF StateOf, Copies
  <2>8. Paths(i.node) > 0
    <3>1. /\ Condensed /\ comp[i.node] \in Comps
          /\ Paths(i.node) = Capped(Cardinality(Descents(comp[i.node])))
      BY <1>1, <2>3, PathsAre
    <3>2. Descents(comp[i.node]) # {}
      BY <2>3, <3>1, ReachedHasChain
    <3>3. Cardinality(Descents(comp[i.node])) \in Nat /\ Cardinality(Descents(comp[i.node])) > 0
      BY <3>1, <3>2, DescentsAreFinite, FS_EmptySet
    <3>. QED BY <3>1, <3>3, CappedIs
  <2>. QED BY <2>5, <2>2, <2>6, <2>7, <2>8 DEF VersionRow, VersionRows
<1>. QED BY <1>1, FilesInvHolds, CountInvHolds, PlacedInvHolds, PTL

-----------------------------------------------------------------------------
(* The arithmetic of the count: an in-degree is never taken below zero,    *)
(* and no sum is above the cap.                                            *)
CountRange ==
  /\ indeg \in [Component -> Nat] /\ count \in [Component -> 0 .. PathCap]
  /\ queue \in Seq(Component) /\ todo \subseteq Component
  /\ cur \in Component \cup {None}

LEMMA CountRangeStep ==
  ASSUME CountRange, CountInv, CountInv', [Next]_vars
  PROVE  CountRange'
<1>. USE DEF CountRange
<1>1. CASE UNCHANGED kahnVars
  BY <1>1 DEF kahnVars
<1>2. CASE Condense
  <2>1. StartCount /\ phase' = "count" /\ UNCHANGED <<todo, cur>>
    BY <1>2 DEF Condense, StartCount
  <2>2. Condensed
    BY <2>1 DEF StartCount, CountInv, SearchInv, ReachInv, Condensed
  <2>3. Comps \subseteq Component /\ Comps' = Comps
    BY <2>1, <2>2, CompsAreComponents DEF StartCount, searchVars, Comps
  <2>4. queue' \in Seq(Comps')
    BY <2>1 DEF CountInv, CountedUp, KahnInv, KahnTypes
  <2>5. queue' \in Seq(Component)
    BY <2>3, <2>4
  <2>6. \A c : InDegree(c) \in Nat
    <3>. SUFFICES ASSUME NEW c PROVE InDegree(c) \in Nat
      OBVIOUS
    <3>1. InDegree(c) = Cardinality(Callers(c))
      BY DEF InDegree, Callers
    <3>. QED BY <2>2, <3>1, CallersAreFinite
  <2>7. indeg' = [c \in Component |-> IF c \in Comps THEN InDegree(c) ELSE 0]
        /\ count' = [c \in Component |-> IF c = comp[Root] THEN 1 ELSE 0]
    BY <2>1 DEF StartCount
  <2>8. indeg' \in [Component -> Nat] /\ count' \in [Component -> 0 .. PathCap]
    BY <2>6, <2>7, CountAssumption
  <2>. QED BY <2>1, <2>5, <2>8
<1>3. CASE Count
  <2>1. phase = "count" /\ phase' = "count" /\ UNCHANGED <<nodes, edges>>
    BY <1>3 DEF Count, graphVars
  <2>2. Condensed /\ KahnInv /\ Condensed' /\ KahnInv'
    BY <2>1 DEF CountInv, CountedUp, SearchInv, Searched, ReachInv, Condensed
  <2>3. Comps \subseteq Component
    BY <2>2, CompsAreComponents
  <2>4. queue \in Seq(Comps)
    BY <2>2 DEF KahnInv, KahnTypes
  <2>5. CASE Dequeue
    <3>1. /\ queue # <<>> /\ queue' = Tail(queue) /\ UNCHANGED <<indeg, count>>
          /\ todo' = Adj(cur') /\ cur' = Head(queue)
      BY <2>5 DEF Dequeue
    <3>2. Head(queue) \in Comps /\ Tail(queue) \in Seq(Comps)
      BY <2>4, <3>1
    <3>3. PICK q : q = Head(queue)
      OBVIOUS
    <3>4. todo' = Adj(q)
      BY <2>5, <3>3 DEF Dequeue
    <3>5. \A d \in Adj(q) : d \in Comps
      BY <2>2, <3>2, <3>3, BeforeIs
    <3>6. Tail(queue) \in Seq(Component)
      BY <3>2, <2>3
    <3>. QED BY <2>3, <3>1, <3>2, <3>4, <3>5, <3>6
  <2>6. CASE \E c \in todo : Relax(c)
    <3>1. PICK c \in todo : Relax(c)
      BY <2>6
    <3>2. /\ todo' = todo \ {c} /\ UNCHANGED <<cur, searchVars>>
          /\ count' = [count EXCEPT ![c] = SatAdd(count[c], count[cur])]
          /\ indeg' = [indeg EXCEPT ![c] = indeg[c] - 1]
          /\ queue' = IF indeg[c] = 1 THEN Append(queue, c) ELSE queue
      BY <3>1 DEF Relax
    <3>3. cur \in Comps /\ c \in Adj(cur)
      <4>1. PICK D : Taken(D)
        BY <2>2 DEF KahnInv
      <4>2. cur # None
        BY <3>1, <4>1 DEF Taken
      <4>. QED BY <3>1, <4>1, <4>2 DEF Taken
    <3>4. c \in Comps /\ c \in Component /\ cur \in Component
      BY <2>2, <2>3, <3>3, BeforeIs
    <3>5. indeg'[c] \in Nat
      <4>1. Comps' = Comps /\ \A d : Callers(d)' = Callers(d)
        BY <2>1, <3>2, CondensationStays
      <4>2. PICK D : Counted(D)'
        BY <2>2 DEF KahnInv
      <4>3. indeg'[c] = Cardinality(Owed(D, c)')
        BY <3>4, <4>1, <4>2 DEF Counted
      <4>4. Owed(D, c)' \in SUBSET Callers(c)
        BY <4>1 DEF Owed
      <4>. QED BY <2>2, <4>3, <4>4, CallersAreFinite
    <3>6. indeg' \in [Component -> Nat]
      BY <3>2, <3>4, <3>5
    <3>7. SatAdd(count[c], count[cur]) \in 0 .. PathCap
      BY <3>4, CountAssumption DEF SatAdd
    <3>8. count' \in [Component -> 0 .. PathCap]
      BY <3>2, <3>4, <3>7
    <3>9. queue' \in Seq(Component)
      BY <3>2, <3>4
    <3>. QED BY <3>2, <3>6, <3>8, <3>9
  <2>. QED BY <1>3, <2>5, <2>6 DEF Count
<1>. QED BY <1>1, <1>2, <1>3
         DEF Next, Merge, Search, SearchStep, RollUp, Audit, Walk, Plan, PlanBumps, Report,
             vars, countVars

(* The plan never has more entries than it may, and looks for the next one *)
(* only while there is a gain.                                             *)
PlanRange ==
  /\ gain = 0 <=> best = None
  /\ Len(plan) <= PlanDepth
  /\ plan \in Seq(Entry) /\ done \subseteq affected

LEMMA PlanRangeStep ==
  ASSUME PlanRange, MadeInv, MadeInv', PlanInv, ReachInv, [Next]_vars
  PROVE  PlanRange'
<1>. USE DEF PlanRange
<1>1. CASE UNCHANGED <<affected, planVars>>
  BY <1>1 DEF planVars
<1>2. CASE Audit
  <2>1. UNCHANGED planVars /\ done = {}
    BY <1>2 DEF Audit, Attribute, ReachInv, NotYet, ReachInit
  <2>. QED BY <2>1 DEF planVars
<1>3. CASE Plan
  BY <1>3 DEF Plan, StartPlan, walkVars
<1>4. CASE Pick
  <2>1. /\ Planning /\ scan = {} /\ gain > 0
        /\ plan' = Append(plan, [direct |-> best, affected |-> Cardinality(sets[best]), new |-> gain])
        /\ done' = done \cup sets[best] /\ best' = None /\ gain' = 0
        /\ affected' = affected
    BY <1>4 DEF Pick, DoneAfter, walkVars
  <2>2. best \in Node /\ gain \in Nat /\ sets[best] \in SUBSET Node
    BY <2>1 DEF PlanInv, PlanTypeInv, ScanInv
  <2>3. sets[best] \subseteq affected
    BY <2>2 DEF ReachInv, AttributeInv
  <2>4. [direct |-> best, affected |-> Cardinality(sets[best]), new |-> gain] \in Entry
    BY <2>2, NodesAreFinite DEF Entry
  <2>5. Len(plan') = Len(plan) + 1 /\ plan' \in Seq(Entry)
    BY <2>1, <2>4
  <2>. QED BY <2>1, <2>3, <2>5, PlanDepthAssumption DEF Planning
<1>5. ASSUME NEW d \in scan, Consider(d) PROVE PlanRange'
  <2>1. /\ UNCHANGED <<affected, plan, done>>
        /\ IF Better(d, Left(d)) THEN best' = d /\ gain' = Left(d) ELSE UNCHANGED <<best, gain>>
    BY <1>5 DEF Consider, walkVars
  <2>2. d \in Node /\ Left(d) \in Nat /\ gain \in Nat /\ d # None
    BY LeftIsNat, NoneIsNoNode DEF PlanInv, PlanTypeInv
  <2>3. Better(d, Left(d)) => Left(d) # 0
    BY <2>2 DEF Better
  <2>. QED BY <2>1, <2>2, <2>3
<1>. QED BY <1>1, <1>2, <1>3, <1>4, <1>5
         DEF Next, Merge, Search, Condense, Count, RollUp, Walk, BeginWalk, WalkOn, EndWalk,
             PlanBumps, Report, vars, reachVars, walkVars

(* Components number nodes, in-degrees and counts stay in their ranges,    *)
(* and the plan stays within its limit.                                    *)
THEOREM AnalysisTypeOK == Spec => []TypeOK
<1>. DEFINE PhaseInv ==
              phase \in {"merge", "search", "count", "rolled", "attribute", "plan", "reported"}
<1>1. Init => CountRange /\ PlanRange /\ PhaseInv
  <2>1. CountInit => CountRange
    BY CountAssumption DEF CountInit, CountRange
  <2>2. ReachInit => PlanRange
    BY PlanDepthAssumption DEF ReachInit, PlanRange
  <2>. QED BY <2>1, <2>2 DEF Init
<1>2. PhaseInv /\ [Next]_vars => PhaseInv'
  BY DEF Next, Merge, Search, Condense, Count, RollUp, Audit, Walk, Plan, PlanBumps, Report, vars
<1>3. CountRange /\ CountInv /\ CountInv' /\ [Next]_vars => CountRange'
  BY CountRangeStep
<1>4. PlanRange /\ MadeInv /\ MadeInv' /\ PlanInv /\ ReachInv /\ [Next]_vars => PlanRange'
  BY PlanRangeStep
<1>5. PhaseInv /\ CountRange /\ PlanRange /\ CountInv /\ PlanInv => TypeOK
  <2>. SUFFICES ASSUME PhaseInv, CountRange, PlanRange, CountInv, PlanInv PROVE TypeOK
    OBVIOUS
  <2>1. GraphInv /\ SearchTypes /\ Numbered
    BY DEF CountInv, ReachInv, SearchInv, TarjanInv
  <2>2. CountTypeOK
    BY <2>1, NumbersFit DEF SearchTypes, CountRange, CountTypeOK
  <2>3. nodes \subseteq Node /\ Root \in nodes /\ \A e \in edges : e.from \in nodes /\ e.to \in nodes
    BY <2>1 DEF GraphInv, Present
  <2>4. /\ remaining \subseteq Node /\ scan \subseteq remaining
        /\ best \in Node \cup {None}
    BY DEF PlanInv, PlanTypeInv, ScanInv, PlanRange
  <2>. QED BY <2>2, <2>3, <2>4 DEF PlanRange, TypeOK
<1>. QED BY <1>1, <1>2, <1>3, <1>4, <1>5, CountInvHolds, MadeInvHolds, PTL DEF Spec
==============================================================================
