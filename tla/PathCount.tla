------------------------------ MODULE PathCount ------------------------------
(***************************************************************************)
(* countPaths and tarjan of internal/rollup: how many distinct chains lead *)
(* from the root to each node.  The strongly connected components are      *)
(* found first, with an explicit stack of frames; then one pass of Kahn's  *)
(* algorithm over the condensation adds up the chains, saturating at       *)
(* PathCap.                                                                *)
(*                                                                         *)
(* Nodes are numbers, in the order of their ids; g.Edges() is the set      *)
(* `edges` of records with at least the fields from and to.  Go iterates   *)
(* the adjacency map of a component in any order: Relax picks any.         *)
(***************************************************************************)
EXTENDS Integers, FiniteSetsExt, SequencesExt

CONSTANTS Node, Root, PathCap

ASSUME CountAssumption ==
  /\ Node \subseteq Nat /\ IsFiniteSet(Node)
  /\ Root \in Node
  /\ PathCap \in Nat \ {0}

VARIABLES
  nodes, edges,        \* the graph
  index, low, comp,    \* tarjan: of each node, None until it is set
  stack, frames,       \* its two stacks; a frame is [node, kids left]
  compID,              \* the next component
  indeg, count,        \* Kahn: of each component
  queue, todo, cur     \* the queue, and what is left of adj[cur]

graphVars == <<nodes, edges>>
searchVars == <<index, low, comp, stack, frames, compID>>
kahnVars  == <<indeg, count, queue, todo, cur>>
countVars == <<searchVars, kahnVars>>

None == -1
Component == 0 .. Cardinality(Node) - 1
Smaller(a, b) == IF a < b THEN a ELSE b

CountTypeOK ==
  /\ index \in [Node -> Nat \cup {None}] /\ low \in [Node -> Nat \cup {None}]
  /\ comp \in [Node -> Component \cup {None}] /\ compID \in 0 .. Cardinality(Node)
  /\ stack \in Seq(Node) /\ frames \in Seq([node : Node, kids : SUBSET Node])
  /\ indeg \in [Component -> Nat] /\ count \in [Component -> 0 .. PathCap]
  /\ queue \in Seq(Component) /\ todo \subseteq Component
  /\ cur \in Component \cup {None}

CountInit ==
  /\ index = [n \in Node |-> None] /\ low = index /\ comp = index
  /\ stack = <<>> /\ frames = <<>> /\ compID = 0
  /\ indeg = [c \in Component |-> 0] /\ count = indeg
  /\ queue = <<>> /\ todo = {} /\ cur = None

-----------------------------------------------------------------------------
(* tarjan                                                                  *)

Out(v)     == {e.to : e \in {e \in edges : e.from = v}}
Seen       == {n \in Node : index[n] # None}

(* Mutant: a node of a finished component is taken for an ancestor.        *)
OnStack_Forgotten(w) == w \in Seen
OnStack(w) == \E i \in DOMAIN stack : stack[i] = w
Top        == frames[Len(frames)]
Parent     == frames[Len(frames) - 1].node

(* Number a node, push it, and open a frame for it on top of fs.           *)
Open(w, fs) ==
  /\ index' = [index EXCEPT ![w] = Cardinality(Seen)]
  /\ low' = [low EXCEPT ![w] = Cardinality(Seen)]
  /\ stack' = Append(stack, w)
  /\ frames' = Append(fs, [node |-> w, kids |-> Out(w)])
  /\ UNCHANGED <<comp, compID>>

(* The outer loop: strongConnect on the first node not yet seen.           *)
StrongConnect ==
  /\ frames = <<>> /\ nodes \ Seen # {}
  /\ Open(Min(nodes \ Seen), frames)

(* The next child of the top frame, in the order of ids.                   *)
NextKid == Min(Top.kids)
Popped  == [frames EXCEPT ![Len(frames)].kids = @ \ {NextKid}]
AtKid   == frames # <<>> /\ Top.kids # {}

Descend == AtKid /\ NextKid \notin Seen /\ Open(NextKid, Popped)

LowOf(w) == IF OnStack(w) THEN Smaller(low[Top.node], index[w]) ELSE low[Top.node]

KnownKid ==
  /\ AtKid /\ NextKid \in Seen
  /\ low' = [low EXCEPT ![Top.node] = LowOf(NextKid)]
  /\ frames' = Popped
  /\ UNCHANGED <<index, comp, stack, compID>>

(* The parent's low when the frame of v is popped.                         *)
LowAfter(v) ==
  IF Len(frames) > 1 THEN [low EXCEPT ![Parent] = Smaller(@, low[v])] ELSE low

(* A finished node: pop its frame and, when it is the root of a component, *)
(* pop that component off the stack.                                       *)
Finish ==
  LET v       == Top.node
      at      == CHOOSE i \in DOMAIN stack : stack[i] = v
      members == {stack[i] : i \in at .. Len(stack)}
  IN /\ frames # <<>> /\ Top.kids = {}
     /\ frames' = Front(frames)
     /\ low' = LowAfter(v)
     /\ IF low[v] = index[v]
        THEN /\ stack' = SubSeq(stack, 1, at - 1)
             /\ comp' = [n \in Node |-> IF n \in members THEN compID ELSE comp[n]]
             /\ compID' = compID + 1
        ELSE UNCHANGED <<stack, comp, compID>>
     /\ UNCHANGED index

SearchStep == (StrongConnect \/ Descend \/ KnownKid \/ Finish) /\ UNCHANGED kahnVars
SearchDone == frames = <<>> /\ nodes \subseteq Seen

-----------------------------------------------------------------------------
(* countPaths                                                              *)

Comps == 0 .. compID - 1
Adj(c) == {comp[e.to] : e \in {e \in edges : comp[e.from] = c}} \ {c}

(* Mutant: every edge counts, not every pair of components.                *)
InDegree_PerEdge(c) ==
  Cardinality({e \in edges : comp[e.to] = c /\ comp[e.from] # c})
InDegree(c) == Cardinality({b \in Comps : c \in Adj(b)})

(* sort.Ints                                                               *)
Ascending(S) ==
  CHOOSE q \in SetToSeqs(S) : \A i, j \in DOMAIN q : i < j => q[i] < q[j]

SatAdd(a, b) == IF a + b > PathCap THEN PathCap ELSE a + b

StartCount ==
  /\ SearchDone
  /\ indeg' = [c \in Component |-> IF c \in Comps THEN InDegree(c) ELSE 0]
  /\ count' = [c \in Component |-> IF c = comp[Root] THEN 1 ELSE 0]
  /\ queue' = Ascending({c \in Comps : InDegree(c) = 0})
  /\ UNCHANGED <<searchVars, todo, cur>>

Dequeue ==
  /\ todo = {} /\ queue # <<>>
  /\ cur' = Head(queue) /\ queue' = Tail(queue) /\ todo' = Adj(Head(queue))
  /\ UNCHANGED <<searchVars, indeg, count>>

(* The rest of adj[cur], in any order: the body of the inner loop.         *)
Relax(c) ==
  /\ c \in todo
  /\ todo' = todo \ {c}
  /\ count' = [count EXCEPT ![c] = SatAdd(@, count[cur])]
  /\ indeg' = [indeg EXCEPT ![c] = @ - 1]
  /\ queue' = IF indeg[c] = 1 THEN Append(queue, c) ELSE queue
  /\ UNCHANGED <<searchVars, cur>>

CountDone == todo = {} /\ queue = <<>>

Paths(n) == IF comp[n] = None THEN 0 ELSE count[comp[n]]
==============================================================================
