------------------------------- MODULE RunStore ------------------------------
(***************************************************************************)
(* The run tables of internal/store, one SQLite database shared by every   *)
(* deepdep process: the project registry, the stored runs and the          *)
(* observations.  An operator that changes tables is one transaction, a    *)
(* query is one SELECT.                                                    *)
(***************************************************************************)
EXTENDS Integers, FiniteSets

CONSTANTS Key,     \* project identities: canonical remotes and local paths
          NoKey    \* the origin of a scan that has none

ASSUME KeyAssumption == NoKey \notin Key

VARIABLES
  projects,  \* rows [num, key]
  lastNum,   \* sqlite_sequence: the largest number ever given to a project
  runs,      \* rows [id, num, at]; num 0 is NULL, a run no project claims
  counted,   \* rows of the append-only observation tables
  written    \* history: every run row ever committed

tables == <<projects, lastNum, runs, counted, written>>

EmptyTables ==
  /\ projects = {} /\ lastNum = 0 /\ runs = {}
  /\ counted = 0 /\ written = {}

Nums == {p.num : p \in projects}

(* Mutant: INTEGER PRIMARY KEY without AUTOINCREMENT.                      *)
FreshNum_Reuse ==
  IF projects = {} THEN 1 ELSE 1 + CHOOSE n \in Nums : \A m \in Nums : m <= n

FreshNum == lastNum + 1

(* upsertProject: the row of a key, made now if there is none.             *)
NumOf(key) ==
  IF \E p \in projects : p.key = key
    THEN (CHOOSE p \in projects : p.key = key).num ELSE FreshNum

(* Mutant: the run is stamped with no project, the registry row stays.     *)
WriteRun_Unlinked(key, at) ==
  LET row == [id |-> Cardinality(written) + 1, num |-> 0, at |-> at] IN
  /\ runs' = runs \cup {row} /\ written' = written \cup {row}
  /\ projects' = projects \cup
       (IF key = NoKey THEN {} ELSE {[num |-> NumOf(key), key |-> key]})
  /\ lastNum' = IF key # NoKey /\ NumOf(key) = FreshNum THEN FreshNum ELSE lastNum
  /\ UNCHANGED counted

(* WriteRun: registry row and run row in one transaction.  "at" was read   *)
(* before the transaction could write, so it may precede a committed row's.*)
WriteRun(key, at) ==
  LET num == IF key = NoKey THEN 0 ELSE NumOf(key)
      row == [id |-> Cardinality(written) + 1, num |-> num, at |-> at] IN
  /\ runs' = runs \cup {row} /\ written' = written \cup {row}
  /\ projects' = projects \cup
       (IF key = NoKey THEN {} ELSE {[num |-> num, key |-> key]})
  /\ lastNum' = IF num > lastNum THEN num ELSE lastNum
  /\ UNCHANGED counted

(* queryRuns: ORDER BY created_at DESC, rowid DESC.                        *)
Newer(r, s) == r.at > s.at \/ (r.at = s.at /\ r.id > s.id)
RunsForProject(num) == {r \in runs : r.num = num}
UnclaimedRuns == RunsForProject(0)
(* The index of a run in its project's list, newest first.                 *)
Place(r, rows) == Cardinality({s \in rows : s.num = r.num /\ Newer(s, r)})

(* Mutant: foreign_keys left out of the DSN, a DELETE does not cascade.    *)
ApplyPrune_NoCascade(ids, nums) ==
  /\ runs' = {r \in runs : r.id \notin ids}
  /\ projects' = {p \in projects : p.num \notin nums}
  /\ UNCHANGED <<lastNum, counted, written>>

(* ApplyPrune: the planned runs, then the planned projects, and by cascade *)
(* every run a planned project has by then.                                *)
ApplyPrune(ids, nums) ==
  /\ runs' = {r \in runs : r.id \notin ids /\ r.num \notin nums}
  /\ projects' = {p \in projects : p.num \notin nums}
  /\ UNCHANGED <<lastNum, counted, written>>

RecordObservation ==
  /\ counted' = counted + 1
  /\ UNCHANGED <<projects, lastNum, runs, written>>

Runs     == [id : Nat \ {0}, num : Nat, at : Nat]
TablesOK ==
  /\ projects \subseteq [num : Nat \ {0}, key : Key] /\ lastNum \in Nat
  /\ runs \subseteq Runs /\ written \subseteq Runs
  /\ counted \in Nat

(* What the foreign keys, the UNIQUE key and the sequence promise together:*)
(* a run's project exists, one row per identity, and every project that    *)
(* ever was had a number of its own.                                       *)
StoreConsistent ==
  /\ \A r \in runs : r.num # 0 => r.num \in Nums
  /\ \A p, q \in projects : p.key = q.key <=> p.num = q.num
  /\ \A p \in projects : p.num <= lastNum
  /\ \A r, s \in written : r.id = s.id => r = s
  /\ runs \subseteq written

(* "A project cannot end up in the registry without the run that created   *)
(* it": every registered project was given a run, if only one since pruned.*)
NoEmptyRegistration ==
  \A p \in projects : \E r \in written : r.num = p.num
==============================================================================
