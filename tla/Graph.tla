-------------------------------- MODULE Graph --------------------------------
(***************************************************************************)
(* The closure graph of internal/graph: a map from node ids to what is     *)
(* known of the node, ordered by completeness, and a set of edges.  An     *)
(* edge is a record [from, to, spec, scope]; its kind is left out, as no   *)
(* two edges here differ in their kind alone.                              *)
(***************************************************************************)
EXTENDS Integers

Completeness == {"resolved", "inferred", "declared", "opaque"}

(* The order Add upgrades along; "absent" stands for a missing map entry.  *)
Rank(c) ==
  CASE c = "resolved" -> 3
    [] c = "inferred" -> 2
    [] c = "declared" -> 1
    [] c = "opaque"   -> 0
    [] OTHER          -> -1

Fact(c, why) == [comp |-> c, reason |-> why]
Absent       == Fact("absent", "")
Resolved     == Fact("resolved", "")
Declared(why) == Fact("declared", why)

(* Mutant: the last writer wins, whatever was known before.                *)
Upgrade_LastWins(old, new) == new

(* Graph.Add: upgrade wholesale when strictly better known, else keep.     *)
Upgrade(old, new) == IF Rank(new.comp) <= Rank(old.comp) THEN old ELSE new

(* Add one fact for each of several ids, or for each id its own fact.      *)
AddAll(g, ids, fact) ==
  [id \in DOMAIN g |-> IF id \in ids THEN Upgrade(g[id], fact) ELSE g[id]]
AddEach(g, facts) ==
  [id \in DOMAIN g |-> IF id \in DOMAIN facts THEN Upgrade(g[id], facts[id])
                                             ELSE g[id]]

Present(g) == {id \in DOMAIN g : g[id].comp # "absent"}
==============================================================================
