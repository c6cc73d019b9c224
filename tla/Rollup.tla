------------------------------- MODULE Rollup --------------------------------
(***************************************************************************)
(* ComputeWith of internal/rollup: the rows a run stores for its packages, *)
(* one per version and one per name, from the graph, the lockfile's        *)
(* instances and the path counts.                                          *)
(*                                                                         *)
(* A node has a name and a kind: "root", "version" and "requirement" (the  *)
(* id of a package with and without a version), and the nodes that are no  *)
(* package: the build files "dockerfile" and "ci", and "step".  A spec is  *)
(* "" (none), "exact" or "range", which is all IsExact tells apart.  The   *)
(* order of g.Edges(), and so which of several ranges is shown, is left    *)
(* out.                                                                    *)
(***************************************************************************)
EXTENDS PathCount, Lockfile

CONSTANTS Name, Kind

KindOf == {"root", "version", "requirement", "dockerfile", "ci", "step"}

ASSUME NodeDataAssumption ==
  /\ Kind \in [Node -> KindOf] /\ Kind[Root] = "root"
  /\ DOMAIN Name = Node
  /\ NoNode \notin Node

IsPackage(n)  == Kind[n] \in {"version", "requirement"}
HasVersion(n) == Kind[n] # "requirement"

VARIABLES facts, inst      \* what is known of each node; the instances

Copies(n) == {i \in inst : i.node = n}

(* The declared constraints that reach a node, and the offline join: those *)
(* that reach the version-less node of the same package.                   *)
Specs(n) == {e.spec : e \in {e \in edges : e.to = n /\ e.spec # ""}}
ByName(n) ==
  UNION {Specs(r) : r \in {r \in Node : ~HasVersion(r) /\ Name[r] = Name[n]}}

Declares(n) == IF Specs(n) # {} THEN Specs(n) ELSE ByName(n)

PinningOf(n) ==
  CASE "exact" \in Declares(n) -> "pinned"
    [] "exact" \notin Declares(n) /\ Copies(n) # {} -> "locked"
    [] OTHER -> "floating"

StateOf(n) ==
  CASE Copies(n) # {} -> "installed"
    [] Copies(n) = {} /\ inst # {} -> "possible"
    [] OTHER -> "unknown"

VersionRow(n) ==
  [state |-> StateOf(n), pinning |-> PinningOf(n),
   instances |-> Cardinality(Copies(n)), paths |-> Paths(n)]

RowNodes == {n \in nodes \ {Root} : Kind[n] = "version"}
VersionRows == [n \in RowNodes |-> VersionRow(n)]

(* One entry per name: the sums are taken over its version rows, and the   *)
(* paths over its version-less node as well; Direct is an edge from the    *)
(* root, whatever put it there.                                            *)
Capped(n) == IF n > PathCap THEN PathCap ELSE n
Named(p)  == {n \in nodes \ {Root} : Name[n] = p}

PackageEntry(p) ==
  LET versions == Named(p) \cap RowNodes
      counted  == versions \cup {n \in Named(p) : ~HasVersion(n)}
  IN [direct    |-> \E e \in edges : e.from = Root /\ e.to \in Named(p),
      instances |-> MapThenSumSet(LAMBDA n : Cardinality(Copies(n)), versions),
      paths     |-> Capped(MapThenSumSet(Paths, counted)),
      worst     |-> Min({Rank(facts[n].comp) : n \in Named(p)})]

PackageNames == {Name[n] : n \in nodes \ {Root}}
PackageEntries == [p \in PackageNames |-> PackageEntry(p)]
==============================================================================
