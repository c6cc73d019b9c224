--------------------------- MODULE CommandsProofs ----------------------------
(***************************************************************************)
(* What the store and its two kinds of process promise, for every number   *)
(* of scanners and cleaners, every query and every number of runs.         *)
(*                                                                         *)
(* The argument has three layers.  The first is about the tables alone:    *)
(* what a transaction can do to registry and runs, whoever runs it.  The   *)
(* second adds the plans that cleaners hold while others scan and purge: a *)
(* plan only names numbers given out before, and a number is never given   *)
(* out twice.  The third is about what a plan may contain.                 *)
(***************************************************************************)
EXTENDS Commands, FiniteSetTheorems, TLAPS

(* Row ids count up: the history is finite, and no id exceeds its size.    *)
RowsNumbered ==
  /\ IsFiniteSet(written)
  /\ \A r \in written : r.id <= Cardinality(written)

TablesInv == TablesOK /\ StoreConsistent /\ NoEmptyRegistration /\ RowsNumbered

(* What any transaction can do to the tables, as the others see it: rows   *)
(* of the history stay, their ids are never reused, and a project that was *)
(* not there has a number above all numbers ever given.                    *)
TablesMove ==
  /\ lastNum <= lastNum' /\ written \subseteq written'
  /\ runs' \cap written \subseteq runs
  /\ \A p \in projects' \ projects : p.num > lastNum
  /\ \A r \in written' \ written : r.id > Cardinality(written)

(* A key has the number of its row, or one that was never given.           *)
LEMMA NumOfKey ==
  ASSUME TablesInv, NEW key \in Key
  PROVE  /\ NumOf(key) \in Nat \ {0}
         /\ \/ [num |-> NumOf(key), key |-> key] \in projects /\ NumOf(key) <= lastNum
            \/ /\ NumOf(key) = lastNum + 1
               /\ \A p \in projects : p.key # key /\ p.num <= lastNum
<1> USE DEF TablesInv, TablesOK, StoreConsistent
<1>1. CASE \E p \in projects : p.key = key
  <2>1. PICK p \in projects : p = CHOOSE q \in projects : q.key = key
    BY <1>1
  <2>2. p.key = key /\ NumOf(key) = p.num
    BY <1>1, <2>1 DEF NumOf
  <2>3. p = [num |-> p.num, key |-> p.key] /\ p.num \in Nat \ {0} /\ p.num <= lastNum
    OBVIOUS
  <2> QED BY <2>2, <2>3
<1>2. CASE ~\E p \in projects : p.key = key
  BY <1>2 DEF NumOf, FreshNum
<1> QED BY <1>1, <1>2

(* The transaction of WriteRun.                                            *)
LEMMA WriteRunKeeps ==
  ASSUME TablesInv, NEW key \in Key \cup {NoKey}, NEW at \in Nat, WriteRun(key, at)
  PROVE  TablesInv' /\ TablesMove
<1> DEFINE num == IF key = NoKey THEN 0 ELSE NumOf(key)
           row == [id |-> Cardinality(written) + 1, num |-> num, at |-> at]
           new == [num |-> num, key |-> key]
<1>1. /\ runs' = runs \cup {row} /\ written' = written \cup {row}
      /\ projects' = projects \cup (IF key = NoKey THEN {} ELSE {new})
      /\ lastNum' = IF num > lastNum THEN num ELSE lastNum
      /\ counted' = counted
  BY DEF WriteRun
<1>2. /\ key = NoKey => num = 0
      /\ key # NoKey => /\ key \in Key /\ num \in Nat \ {0}
                        /\ \/ new \in projects /\ num <= lastNum
                           \/ /\ num = lastNum + 1
                              /\ \A p \in projects : p.key # key /\ p.num <= lastNum
  BY NumOfKey
<1>3. /\ row.num = num /\ row.id = Cardinality(written) + 1 /\ row.at = at
      /\ new.num = num /\ new.key = key
  OBVIOUS
<1> DEFINE size == Cardinality(written)
<1>4. size = Cardinality(written) /\ size \in Nat /\ IsFiniteSet(written) /\ \A r \in written : r.id <= size /\ r.id \in Nat
  BY FS_CardinalityType DEF TablesInv, RowsNumbered, TablesOK, Runs
<1>5. row \notin written
  BY <1>3, <1>4
<1>6. IsFiniteSet(written') /\ Cardinality(written') = size + 1
  BY <1>1, <1>4, <1>5, FS_AddElement
<1>7. TablesOK'
  <2>1. row \in Runs /\ num \in Nat
    BY <1>2, <1>4 DEF Runs
  <2>2. key # NoKey => new \in [num : Nat \ {0}, key : Key]
    BY <1>2
  <2> QED BY <1>1, <2>1, <2>2 DEF TablesInv, TablesOK
<1> HIDE DEF num, row, new, size
<1>8. lastNum \in Nat /\ num \in Nat /\ lastNum' \in Nat /\ lastNum <= lastNum' /\ num <= lastNum'
  BY <1>1, <1>2 DEF TablesInv, TablesOK
<1>9. /\ runs \subseteq written
      /\ \A r \in runs : r.num # 0 => \E p \in projects : p.num = r.num
      /\ \A p, q \in projects : p.key = q.key <=> p.num = q.num
      /\ \A p \in projects : p.num <= lastNum /\ p.num \in Nat
      /\ \A r, s \in written : r.id = s.id => r = s
  BY DEF TablesInv, TablesOK, StoreConsistent, Nums
<1>10. key # NoKey => new \in projects'
  BY <1>1
<1>11. \A p \in projects' : p \in projects \/ (p = new /\ key # NoKey)
  BY <1>1
<1>12. projects \subseteq projects'
  BY <1>1
<1>13. StoreConsistent'
  <2>1. \A r \in runs' : r.num # 0 => \E p \in projects' : p.num = r.num
    BY <1>1, <1>2, <1>3, <1>9, <1>10, <1>12
  <2>2. \A p, q \in projects' : p.key = q.key <=> p.num = q.num
    <3> SUFFICES ASSUME NEW p \in projects', NEW q \in projects'
                 PROVE  p.key = q.key <=> p.num = q.num
      OBVIOUS
    <3>1. CASE p \in projects /\ q \in projects
      BY <3>1, <1>9
    <3>2. CASE p = new /\ q = new
      BY <3>2
    <3>3. CASE key # NoKey /\ p \in projects /\ q = new
      BY <3>3, <1>2, <1>3, <1>8, <1>9
    <3>4. CASE key # NoKey /\ q \in projects /\ p = new
      BY <3>4, <1>2, <1>3, <1>8, <1>9
    <3> QED BY <1>11, <3>1, <3>2, <3>3, <3>4
  <2>3. \A p \in projects' : p.num <= lastNum'
    BY <1>3, <1>8, <1>9, <1>11
  <2>4. \A r, s \in written' : r.id = s.id => r = s
    BY <1>1, <1>3, <1>4, <1>9
  <2>5. runs' \subseteq written'
    BY <1>1, <1>9
  <2> QED BY <2>1, <2>2, <2>3, <2>4, <2>5 DEF StoreConsistent, Nums
<1>14. NoEmptyRegistration'
  BY <1>1, <1>3, <1>11 DEF TablesInv, NoEmptyRegistration
<1>15. RowsNumbered'
  BY <1>1, <1>3, <1>4, <1>6 DEF RowsNumbered
<1>16. TablesMove
  <2>1. \A p \in projects' \ projects : p.num > lastNum
    BY <1>2, <1>3, <1>8, <1>11
  <2>2. \A r \in written' \ written : r.id > Cardinality(written)
    BY <1>1, <1>3, <1>4 DEF size
  <2>3. runs' \cap written \subseteq runs
    BY <1>1, <1>5
  <2> QED BY <1>1, <1>8, <2>1, <2>2, <2>3 DEF TablesMove
<1> QED BY <1>7, <1>13, <1>14, <1>15, <1>16 DEF TablesInv

(* The transaction of ApplyPrune, whatever it is asked to delete.          *)
LEMMA ApplyPruneKeeps ==
  ASSUME TablesInv, NEW ids, NEW nums, ApplyPrune(ids, nums)
  PROVE  TablesInv' /\ TablesMove
<1>1. /\ runs' = {r \in runs : r.id \notin ids /\ r.num \notin nums}
      /\ projects' = {p \in projects : p.num \notin nums}
      /\ lastNum' = lastNum /\ counted' = counted /\ written' = written
  BY DEF ApplyPrune
<1>2. TablesOK' /\ NoEmptyRegistration' /\ RowsNumbered'
  BY <1>1 DEF TablesInv, TablesOK, NoEmptyRegistration, RowsNumbered
<1>3. StoreConsistent'
  BY <1>1 DEF TablesInv, StoreConsistent, Nums
<1>4. TablesMove
  BY <1>1 DEF TablesMove, TablesInv, TablesOK
<1> QED BY <1>2, <1>3, <1>4 DEF TablesInv

(* A step that leaves the tables alone, or only counts an observation.     *)
LEMMA QuietTables ==
  ASSUME TablesInv, UNCHANGED <<projects, lastNum, runs, written>>, counted' \in Nat
  PROVE  TablesInv' /\ TablesMove
BY DEF TablesInv, TablesOK, StoreConsistent, Nums, NoEmptyRegistration,
       RowsNumbered, TablesMove


-----------------------------------------------------------------------------
(* Scanners and cleaners keep their types, whatever the order of steps.    *)

Scanning == [pc : {"ready", "walk", "write", "refs", "emit", "failed"},
             at : Nat, expired : BOOLEAN, refs : BOOLEAN]
Cleaning == [pc : {"ready", "plan", "apply", "recount", "bug"},
             query : Query \cup {NoQuery}, cutoff : Int, todo : SUBSET (Nat \ {0}),
             ids : SUBSET (Nat \ {0}), nums : SUBSET (Nat \ {0}), obs : Nat,
             means : SUBSET [num : Nat \ {0}, key : Key], saw : SUBSET Runs]

TypeInv == TypeOK /\ TablesInv

(* The states a process starts from have the types.                        *)
LEMMA StartTypes == Ready \in Scanning /\ Quiet \in Cleaning
BY DEF Ready, Quiet, Scanning, Cleaning

(* The initial states have the types and a consistent store.               *)
LEMMA InitTypes == Init => TypeInv
<1> SUFFICES ASSUME Init PROVE TypeInv
  OBVIOUS
<1>1. TablesInv
  <2>1. IsFiniteSet({})
    BY FS_EmptySet
  <2> QED BY <2>1 DEF Init, EmptyTables, TablesInv, TablesOK, StoreConsistent, Nums,
                   NoEmptyRegistration, RowsNumbered
<1>2. scan \in [Scanner -> Scanning] /\ clean \in [Cleaner -> Cleaning]
  BY StartTypes DEF Init
<1>3. clock \in Instant /\ cleans \in 0..MaxCleans
  BY LimitAssumption DEF Init
<1> QED BY <1>1, <1>2, <1>3 DEF TypeInv, TypeOK, TablesInv, Scanning, Cleaning

(* A step of a scanner: only Persist writes a run.                         *)
LEMMA ScannerStep ==
  ASSUME TypeInv, NEW s \in Scanner,
         \/ Scan(s) \/ Observe(s) \/ Expire(s) \/ Stamp(s)
         \/ Persist(s) \/ Refs(s) \/ Emit(s) \/ StopScan(s)
  PROVE  TypeInv' /\ TablesMove /\ UNCHANGED <<clean, cleans>>
<1>1. /\ scan \in [Scanner -> Scanning] /\ clean \in [Cleaner -> Cleaning]
      /\ clock \in Instant /\ Instant \subseteq Nat /\ cleans \in 0..MaxCleans
      /\ TablesInv /\ TablesOK /\ counted \in Nat
  BY LimitAssumption DEF TypeInv, TypeOK, TablesOK, TablesInv, Scanning, Cleaning
<1>2. clean' = clean /\ cleans' = cleans /\ clock' = clock
  BY DEF Scan, Observe, Expire, Stamp, Persist, Refs, Emit, StopScan
<1>3. scan' \in [Scanner -> Scanning]
  <2>1. scan[s] \in Scanning
    BY <1>1
  <2>2. CASE Scan(s)
    <3>1. [Ready EXCEPT !.pc = "walk"] \in Scanning
      BY DEF Ready, Scanning
    <3> QED BY <1>1, <2>2, <3>1 DEF Scan
  <2>3. CASE Observe(s)
    BY <1>1, <2>3 DEF Observe
  <2>4. CASE Expire(s)
    BY <1>1, <2>1, <2>4 DEF Expire, Scanning
  <2>5. CASE Stamp(s)
    BY <1>1, <2>1, <2>5 DEF Stamp, Scanning
  <2>6. CASE Persist(s)
    BY <1>1, <2>1, <2>6 DEF Persist, Scanning
  <2>7. CASE Refs(s)
    BY <1>1, <2>1, <2>7 DEF Refs, Scanning
  <2>8. CASE Emit(s) \/ StopScan(s)
    <3>1. [Ready EXCEPT !.pc = "failed"] \in Scanning /\ Ready \in Scanning
      BY DEF Ready, Scanning
    <3> QED BY <1>1, <2>8, <3>1 DEF Emit, StopScan
  <2> QED BY <2>2, <2>3, <2>4, <2>5, <2>6, <2>7, <2>8
<1>4. TablesInv' /\ TablesMove
  <2>1. CASE Persist(s)
    <3>1. PICK k \in Key \cup {NoKey} : WriteRun(k, scan[s].at)
      BY <2>1 DEF Persist
    <3>2. scan[s].at \in Nat
      BY <1>1 DEF Scanning
    <3> QED BY <1>1, <3>1, <3>2, WriteRunKeeps
  <2>2. CASE ~Persist(s)
    <3>1. UNCHANGED <<projects, lastNum, runs, written>> /\ counted' \in Nat
      BY <1>1, <2>2 DEF Scan, Observe, Expire, Stamp, Refs, Emit, StopScan,
                        RecordObservation, tables
    <3> QED BY <1>1, <3>1, QuietTables
  <2> QED BY <2>1, <2>2
<1> QED BY <1>1, <1>2, <1>3, <1>4 DEF TypeInv, TypeOK, TablesInv, Scanning, Cleaning


(* A step of a cleaner moves no other, and only Apply touches the tables.  *)
LEMMA CleanerStep ==
  ASSUME TypeInv, NEW c \in Cleaner,
         \/ Clean(c) \/ PlanProject(c) \/ PlanUnclaimed(c)
         \/ Apply(c) \/ Recount(c) \/ StopClean(c)
  PROVE  /\ TypeInv' /\ TablesMove
         /\ \A d \in Cleaner \ {c} : clean'[d] = clean[d]
<1>1. /\ scan \in [Scanner -> Scanning] /\ clean \in [Cleaner -> Cleaning]
      /\ clock \in Instant /\ Instant \subseteq Nat /\ cleans \in 0..MaxCleans
      /\ TablesInv /\ TablesOK /\ counted \in Nat /\ MaxCleans \in Nat
  BY LimitAssumption DEF TypeInv, TypeOK, TablesOK, TablesInv, Scanning, Cleaning
<1>2. scan' = scan /\ clock' = clock /\ cleans' \in 0..MaxCleans
  <2>1. CASE Clean(c)
    <3>1. scan' = scan /\ clock' = clock /\ cleans < MaxCleans /\ cleans' = cleans + 1
      BY <2>1, Zenon DEF Clean
    <3> QED BY <1>1, <3>1
  <2>2. CASE ~Clean(c)
    BY <1>1, <2>2 DEF PlanProject, PlanUnclaimed, Apply, Recount, StopClean
  <2> QED BY <2>1, <2>2
<1>3. clean[c] \in Cleaning
  BY <1>1
<1>4. /\ \A p \in projects : p.num \in Nat \ {0} /\ p \in [num : Nat \ {0}, key : Key]
      /\ \A r \in runs : r \in Runs /\ r.num \in Nat /\ r.id \in Nat \ {0}
  BY <1>1 DEF TablesOK, Runs
<1>5. \E rec \in Cleaning : clean' = [clean EXCEPT ![c] = rec]
  <2>1. CASE Clean(c)
    <3>1. PICK q \in Query : \E nums \in IF q.scoped THEN {{r.num} : r \in {r \in runs : r.num # 0}}
                                                     ELSE {Nums} :
            clean' = [clean EXCEPT ![c] = [Quiet EXCEPT
              !.pc = "plan", !.query = q, !.todo = nums,
              !.cutoff = IF q.age = 0 THEN 0 ELSE clock - q.age]]
      BY <2>1 DEF Clean
    <3>2. PICK nums \in IF q.scoped THEN {{r.num} : r \in {r \in runs : r.num # 0}}
                                                     ELSE {Nums} :
            clean' = [clean EXCEPT ![c] = [Quiet EXCEPT
              !.pc = "plan", !.query = q, !.todo = nums,
              !.cutoff = IF q.age = 0 THEN 0 ELSE clock - q.age]]
      BY <3>1
    <3>3. nums \in SUBSET (Nat \ {0})
      BY <1>4, <3>2 DEF Nums
    <3>4. q.age \in Nat
      BY QueryAssumption DEF Queries
    <3>5. (IF q.age = 0 THEN 0 ELSE clock - q.age) \in Int
      BY <1>1, <3>4
    <3> DEFINE rec == [Quiet EXCEPT !.pc = "plan", !.query = q, !.todo = nums,
                         !.cutoff = IF q.age = 0 THEN 0 ELSE clock - q.age]
    <3>6. rec \in Cleaning
      BY StartTypes, <3>3, <3>5 DEF Cleaning
    <3> QED BY <3>2, <3>6
  <2>2. CASE PlanProject(c)
    <3>1. PICK n \in clean[c].todo :
            LET q    == clean[c].query
                rows == RunsForProject(n)
                sel  == {r \in rows : q.purge \/ Surplus(q, r, rows)
                                        \/ TooOld(q, clean[c].cutoff, r)} IN
            clean' = [clean EXCEPT
              ![c].todo = @ \ {n},
              ![c].ids  = @ \cup {r.id : r \in sel},
              ![c].nums = IF q.purge THEN @ \cup {n} ELSE @,
              ![c].means = IF q.purge THEN @ \cup {p \in projects : p.num = n} ELSE @,
              ![c].saw  = @ \cup rows]
      BY <2>2 DEF PlanProject
    <3> DEFINE q    == clean[c].query
               rows == RunsForProject(n)
               sel  == {r \in rows : q.purge \/ Surplus(q, r, rows)
                                        \/ TooOld(q, clean[c].cutoff, r)}
               rec == [clean[c] EXCEPT
                         !.todo = @ \ {n},
                         !.ids  = @ \cup {r.id : r \in sel},
                         !.nums = IF q.purge THEN @ \cup {n} ELSE @,
                         !.means = IF q.purge THEN @ \cup {p \in projects : p.num = n} ELSE @,
                         !.saw  = @ \cup rows]
    <3>2. /\ rows \subseteq Runs /\ {r.id : r \in sel} \subseteq Nat \ {0}
          /\ n \in Nat \ {0} /\ {p \in projects : p.num = n} \subseteq [num : Nat \ {0}, key : Key]
      BY <1>3, <1>4 DEF RunsForProject, Cleaning
    <3>3. clean' = [clean EXCEPT ![c] = rec]
      BY <1>1, <3>1
    <3> HIDE DEF rows, sel, q
    <3>4. rec \in Cleaning
      BY <1>3, <3>2 DEF Cleaning
    <3> QED BY <3>3, <3>4
  <2>3. CASE PlanUnclaimed(c)
    <3>1. CASE clean' = [clean EXCEPT ![c] = Quiet]
      BY StartTypes, <3>1
    <3>2. CASE clean' # [clean EXCEPT ![c] = Quiet]
      <4> DEFINE q == clean[c].query
                 loose == {r \in UnclaimedRuns :
                    q.unclaimed /\ (q.age = 0 \/ TooOld(q, clean[c].cutoff, r))}
                 ids == clean[c].ids \cup {r.id : r \in loose}
                 rec == [clean[c] EXCEPT !.pc = "apply", !.ids = ids, !.obs = counted]
      <4>1. clean' = [clean EXCEPT ![c].pc = "apply", ![c].ids = ids, ![c].obs = counted]
        BY <2>3, <3>2 DEF PlanUnclaimed
      <4>2. clean' = [clean EXCEPT ![c] = rec]
        BY <1>1, <4>1
      <4>3. ids \in SUBSET (Nat \ {0})
        BY <1>3, <1>4 DEF UnclaimedRuns, RunsForProject, Cleaning
      <4> HIDE DEF ids
      <4>4. rec \in Cleaning
        BY <1>1, <1>3, <4>3 DEF Cleaning
      <4> QED BY <4>2, <4>4
    <3> QED BY <3>1, <3>2
  <2>4. CASE Apply(c)
    <3> DEFINE rec == [Quiet EXCEPT !.pc = "recount", !.query = clean[c].query,
                                    !.obs = clean[c].obs, !.saw = clean[c].saw]
    <3>1. rec \in Cleaning
      BY StartTypes, <1>3 DEF Cleaning
    <3>2. clean' = [clean EXCEPT ![c] = rec]
      BY <2>4 DEF Apply
    <3> QED BY <3>1, <3>2
  <2>5. CASE Recount(c) \/ StopClean(c)
    <3>1. Quiet \in Cleaning /\ [Quiet EXCEPT !.pc = "bug"] \in Cleaning
      BY StartTypes DEF Cleaning
    <3> QED BY <2>5, <3>1 DEF Recount, StopClean
  <2> QED BY <2>1, <2>2, <2>3, <2>4, <2>5
<1>6. TablesInv' /\ TablesMove
  <2>1. CASE Apply(c)
    BY <1>1, <2>1, ApplyPruneKeeps DEF Apply
  <2>2. CASE ~Apply(c)
    <3>1. UNCHANGED <<projects, lastNum, runs, written>> /\ counted' \in Nat
      BY <1>1, <2>2 DEF Clean, PlanProject, PlanUnclaimed, Recount, StopClean, tables
    <3> QED BY <1>1, <3>1, QuietTables
  <2> QED BY <2>1, <2>2
<1>7. clean' \in [Cleaner -> Cleaning] /\ \A d \in Cleaner \ {c} : clean'[d] = clean[d]
  BY <1>1, <1>5
<1> QED BY <1>1, <1>2, <1>6, <1>7 DEF TypeInv, TypeOK, TablesInv, Scanning, Cleaning

(* Any step keeps the types and moves the tables as TablesMove allows.     *)
LEMMA StepTypes ==
  ASSUME TypeInv, [Next]_vars
  PROVE  TypeInv' /\ TablesMove
<1>1. CASE Tick
  <2>1. /\ UNCHANGED <<projects, lastNum, runs, counted, written, scan, clean, cleans>>
        /\ clock' \in Instant /\ TablesInv /\ counted \in Nat
    BY <1>1 DEF Tick, tables, TypeInv, TablesInv, TablesOK
  <2>2. TablesInv' /\ TablesMove
    BY <2>1, QuietTables
  <2> QED BY <2>1, <2>2 DEF TypeInv, TypeOK, TablesInv
<1>2. CASE UNCHANGED vars
  <2>1. /\ UNCHANGED <<projects, lastNum, runs, counted, written, clock, scan, clean, cleans>>
        /\ TablesInv /\ counted \in Nat
    BY <1>2 DEF vars, tables, TypeInv, TablesInv, TablesOK
  <2>2. TablesInv' /\ TablesMove
    BY <2>1, QuietTables
  <2> QED BY <2>1, <2>2 DEF TypeInv, TypeOK, TablesInv
<1> QED BY <1>1, <1>2, ScannerStep, CleanerStep DEF Next


(* Every variable of the two commands and their store keeps its type.      *)
THEOREM CommandsTypeOK == CommandsSpec => []TypeOK
<1>1. TypeInv => TypeOK
  BY DEF TypeInv
<1> QED BY <1>1, InitTypes, StepTypes, PTL DEF CommandsSpec

(* In every state of the two commands the registry and the runs agree: a   *)
(* run's project exists, one row per identity, one identity per number.    *)
THEOREM CommandsKeepStoreConsistent == CommandsSpec => []StoreConsistent
<1>1. TypeInv => StoreConsistent
  BY DEF TypeInv, TablesInv
<1> QED BY <1>1, InitTypes, StepTypes, PTL DEF CommandsSpec

(* No project is registered that was not given a run.                      *)
THEOREM CommandsRegisterWithRun == CommandsSpec => []NoEmptyRegistration
<1>1. TypeInv => NoEmptyRegistration
  BY DEF TypeInv, TablesInv
<1> QED BY <1>1, InitTypes, StepTypes, PTL DEF CommandsSpec

-----------------------------------------------------------------------------
(* What the plans of the cleaners mean.                                    *)

(* A cleaner's step starts or drops a plan, ...                            *)
StartsAfresh(c) ==
  /\ clean'[c].ids = {} /\ clean'[c].nums = {} /\ clean'[c].todo \subseteq Nums
  /\ \/ clean'[c].pc # "recount" /\ clean'[c].saw = {}
     \/ /\ Apply(c) /\ clean'[c].pc = "recount" /\ clean'[c].todo = {}
        /\ clean'[c].query = clean[c].query /\ clean'[c].saw = clean[c].saw
SameQuery(c) ==
  clean'[c].query = clean[c].query /\ clean'[c].cutoff = clean[c].cutoff
(* ... adds one project to it, ...                                         *)
PlansProject(c) == \E n \in clean[c].todo :
  LET q == clean[c].query
      rows == RunsForProject(n) IN
  /\ SameQuery(c) /\ clean'[c].todo = clean[c].todo \ {n}
  /\ clean[c].pc = "plan" /\ clean'[c].pc = "plan" /\ clean'[c].saw = clean[c].saw \cup rows
  /\ clean'[c].nums = IF q.purge THEN clean[c].nums \cup {n} ELSE clean[c].nums
  /\ clean'[c].means = IF q.purge THEN clean[c].means \cup {p \in projects : p.num = n}
                                  ELSE clean[c].means
  /\ clean[c].ids \subseteq clean'[c].ids
  /\ \A r \in rows : q.purge \/ Surplus(q, r, rows) \/ TooOld(q, clean[c].cutoff, r)
                       => r.id \in clean'[c].ids
  /\ \A i \in clean'[c].ids \ clean[c].ids : \E r \in rows :
       /\ r.id = i
       /\ q.purge \/ Surplus(q, r, rows) \/ TooOld(q, clean[c].cutoff, r)
(* ... or adds the unclaimed runs.                                         *)
PlansLoose(c) ==
  LET q == clean[c].query IN
  /\ SameQuery(c) /\ clean'[c].todo = clean[c].todo
  /\ clean[c].pc = "plan" /\ clean'[c].pc = "apply" /\ clean'[c].saw = clean[c].saw
  /\ clean'[c].nums = clean[c].nums /\ clean'[c].means = clean[c].means
  /\ clean[c].ids \subseteq clean'[c].ids
  /\ \A i \in clean'[c].ids \ clean[c].ids : \E r \in UnclaimedRuns :
       r.id = i /\ q.unclaimed /\ (q.age = 0 \/ TooOld(q, clean[c].cutoff, r))

(* Each action of a cleaner is one of these three.                         *)
LEMMA CleanerEffect ==
  ASSUME TypeInv, NEW c \in Cleaner,
         \/ Clean(c) \/ PlanProject(c) \/ PlanUnclaimed(c)
         \/ Apply(c) \/ Recount(c) \/ StopClean(c)
  PROVE  \/ StartsAfresh(c)
         \/ UNCHANGED tables /\ (PlansProject(c) \/ PlansLoose(c))
<1>1. clean \in [Cleaner -> Cleaning] /\ clean[c] \in Cleaning
  BY DEF TypeInv, TypeOK, Cleaning
<1>2. CASE Clean(c)
  <2>1. \E q \in Query : \E nums \in IF q.scoped THEN {{r.num} : r \in {r \in runs : r.num # 0}}
                                                  ELSE {Nums} :
          clean' = [clean EXCEPT ![c] = [Quiet EXCEPT
            !.pc = "plan", !.query = q, !.todo = nums,
            !.cutoff = IF q.age = 0 THEN 0 ELSE clock - q.age]]
    BY <1>2 DEF Clean
  <2>2. PICK nums : /\ nums \subseteq Nums
                    /\ clean'[c].todo = nums /\ clean'[c].ids = {} /\ clean'[c].nums = {}
                    /\ clean'[c].pc = "plan" /\ clean'[c].saw = {}
    BY <1>1, <2>1 DEF Quiet, TypeInv, TablesInv, StoreConsistent
  <2> QED BY <1>2, <2>2 DEF StartsAfresh, Clean
<1>3. CASE PlanProject(c)
  <2>1. PICK n \in clean[c].todo :
          LET q    == clean[c].query
              rows == RunsForProject(n)
              sel  == {r \in rows : q.purge \/ Surplus(q, r, rows)
                                      \/ TooOld(q, clean[c].cutoff, r)} IN
          clean' = [clean EXCEPT
            ![c].todo = @ \ {n},
            ![c].ids  = @ \cup {r.id : r \in sel},
            ![c].nums = IF q.purge THEN @ \cup {n} ELSE @,
            ![c].means = IF q.purge THEN @ \cup {p \in projects : p.num = n} ELSE @,
            ![c].saw  = @ \cup rows]
    BY <1>3 DEF PlanProject
  <2> DEFINE q    == clean[c].query
             rows == RunsForProject(n)
             sel  == {r \in rows : q.purge \/ Surplus(q, r, rows)
                                      \/ TooOld(q, clean[c].cutoff, r)}
  <2> HIDE DEF rows, sel
  <2>2. /\ clean'[c].query = clean[c].query /\ clean'[c].cutoff = clean[c].cutoff
        /\ clean'[c].todo = clean[c].todo \ {n}
        /\ clean'[c].pc = clean[c].pc /\ clean'[c].saw = clean[c].saw \cup rows
        /\ clean'[c].ids = clean[c].ids \cup {r.id : r \in sel}
        /\ clean'[c].nums = IF q.purge THEN clean[c].nums \cup {n} ELSE clean[c].nums
        /\ clean'[c].means = IF q.purge THEN clean[c].means \cup {p \in projects : p.num = n}
                                        ELSE clean[c].means
    BY <1>1, <2>1 DEF Cleaning, rows, sel
  <2>3. \A i \in clean'[c].ids \ clean[c].ids : \E r \in rows :
          /\ r.id = i
          /\ q.purge \/ Surplus(q, r, rows) \/ TooOld(q, clean[c].cutoff, r)
    BY <2>2 DEF sel
  <2>4. \A r \in rows : q.purge \/ Surplus(q, r, rows) \/ TooOld(q, clean[c].cutoff, r)
                       => r.id \in clean'[c].ids
    BY <2>2 DEF sel
  <2>5. clean[c].pc = "plan"
    BY <1>3 DEF PlanProject
  <2>6. PlansProject(c)
    BY <2>2, <2>3, <2>4, <2>5 DEF PlansProject, SameQuery, rows
  <2> QED BY <1>3, <2>6 DEF PlanProject
<1>4. CASE PlanUnclaimed(c)
  <2>1. CASE clean' = [clean EXCEPT ![c] = Quiet]
    BY <1>1, <1>4, <2>1 DEF StartsAfresh, Quiet, PlanUnclaimed
  <2>2. CASE clean' # [clean EXCEPT ![c] = Quiet]
    <3> DEFINE q == clean[c].query
               loose == {r \in UnclaimedRuns :
                  q.unclaimed /\ (q.age = 0 \/ TooOld(q, clean[c].cutoff, r))}
               ids == clean[c].ids \cup {r.id : r \in loose}
    <3>1. clean' = [clean EXCEPT ![c].pc = "apply", ![c].ids = ids, ![c].obs = counted]
      BY <1>4, <2>2 DEF PlanUnclaimed
    <3> HIDE DEF loose
    <3>2. /\ clean'[c].query = clean[c].query /\ clean'[c].cutoff = clean[c].cutoff
          /\ clean'[c].todo = clean[c].todo /\ clean'[c].nums = clean[c].nums
          /\ clean'[c].means = clean[c].means /\ clean'[c].ids = ids
          /\ clean'[c].pc = "apply" /\ clean'[c].saw = clean[c].saw
      BY <1>1, <3>1 DEF Cleaning
    <3>3. \A i \in clean'[c].ids \ clean[c].ids : \E r \in UnclaimedRuns :
            r.id = i /\ q.unclaimed /\ (q.age = 0 \/ TooOld(q, clean[c].cutoff, r))
      BY <3>2 DEF loose
    <3>4. PlansLoose(c)
      BY <1>4, <3>2, <3>3 DEF PlansLoose, SameQuery, PlanUnclaimed
    <3> QED BY <1>4, <3>4 DEF PlanUnclaimed
  <2> QED BY <2>1, <2>2
<1>5. CASE Apply(c) \/ Recount(c) \/ StopClean(c)
  <2>1. /\ clean'[c].ids = {} /\ clean'[c].nums = {} /\ clean'[c].todo = {}
        /\ \/ clean'[c].pc # "recount" /\ clean'[c].saw = {}
           \/ /\ Apply(c) /\ clean'[c].pc = "recount"
              /\ clean'[c].query = clean[c].query /\ clean'[c].saw = clean[c].saw
    <3>1. CASE Apply(c)
      BY <1>1, <3>1 DEF Apply, Quiet
    <3>2. CASE Recount(c)
      BY <1>1, <3>2 DEF Recount, Quiet
    <3>3. CASE StopClean(c)
      BY <1>1, <3>3 DEF StopClean, Quiet
    <3> QED BY <1>5, <3>1, <3>2, <3>3
  <2> QED BY <2>1 DEF StartsAfresh
<1> QED BY <1>2, <1>3, <1>4, <1>5


(* What a step of the whole system does to the plan of one cleaner.        *)
LEMMA PlanEffect ==
  ASSUME TypeInv, [Next]_vars, NEW c \in Cleaner
  PROVE  \/ clean'[c] = clean[c]
         \/ StartsAfresh(c)
         \/ UNCHANGED tables /\ (PlansProject(c) \/ PlansLoose(c))
<1>1. CASE \E d \in Cleaner : \/ Clean(d) \/ PlanProject(d) \/ PlanUnclaimed(d)
                              \/ Apply(d) \/ Recount(d) \/ StopClean(d)
  <2>1. PICK d \in Cleaner : \/ Clean(d) \/ PlanProject(d) \/ PlanUnclaimed(d)
                             \/ Apply(d) \/ Recount(d) \/ StopClean(d)
    BY <1>1
  <2>2. CASE d = c
    BY <2>1, <2>2, CleanerEffect
  <2>3. CASE d # c
    BY <2>1, <2>3, CleanerStep
  <2> QED BY <2>2, <2>3
<1>2. CASE Tick \/ UNCHANGED vars
  BY <1>2 DEF Tick, vars
<1>3. CASE \E s \in Scanner : \/ Scan(s) \/ Observe(s) \/ Expire(s) \/ Stamp(s)
                              \/ Persist(s) \/ Refs(s) \/ Emit(s) \/ StopScan(s)
  BY <1>3, ScannerStep
<1> QED BY <1>1, <1>2, <1>3 DEF Next

(* A plan names numbers given out before, and each still means its project.*)
PlansKnow ==
  \A c \in Cleaner :
    /\ \A n \in clean[c].todo \cup clean[c].nums : n <= lastNum
    /\ \A n \in clean[c].nums : {p \in projects : p.num = n} \subseteq clean[c].means

(* Purges and registrations by others do not change what a plan means.     *)
LEMMA PlansKnowStep ==
  ASSUME TypeInv, PlansKnow, [Next]_vars
  PROVE  PlansKnow'
<1> SUFFICES ASSUME NEW c \in Cleaner
             PROVE  /\ \A n \in clean'[c].todo \cup clean'[c].nums : n <= lastNum'
                    /\ \A n \in clean'[c].nums :
                         {p \in projects' : p.num = n} \subseteq clean'[c].means
  BY DEF PlansKnow
<1>1. /\ TypeInv' /\ TablesMove
      /\ lastNum \in Nat /\ lastNum' \in Nat /\ lastNum <= lastNum'
      /\ \A p \in projects : p.num \in Nat /\ p.num <= lastNum
      /\ \A p \in projects' : p.num \in Nat
  BY StepTypes DEF TypeInv, TablesInv, TablesOK, StoreConsistent, TablesMove
<1>2. /\ \A n \in clean[c].todo \cup clean[c].nums : n <= lastNum /\ n \in Nat
      /\ \A n \in clean[c].nums : {p \in projects : p.num = n} \subseteq clean[c].means
  BY DEF PlansKnow, TypeInv, TypeOK
<1>3. CASE clean'[c] = clean[c]
  <2>1. \A n \in clean[c].nums : {p \in projects' : p.num = n} \subseteq projects
    BY <1>1, <1>2 DEF TablesMove
  <2> QED BY <1>1, <1>2, <1>3, <2>1
<1>4. CASE StartsAfresh(c)
  BY <1>1, <1>4 DEF StartsAfresh, Nums
<1>5. CASE UNCHANGED tables /\ PlansProject(c)
  BY <1>1, <1>2, <1>5 DEF PlansProject, tables
<1>6. CASE UNCHANGED tables /\ PlansLoose(c)
  BY <1>1, <1>2, <1>6 DEF PlansLoose, tables
<1> QED BY <1>3, <1>4, <1>5, <1>6, PlanEffect

(* A project number in a plan means the project it meant when the plan was *)
(* made, or nothing, whatever was purged, scanned and registered since.    *)
THEOREM CommandsPlanMeansSameProject == CommandsSpec => []PlanMeansSameProject
<1>1. Init => PlansKnow
  BY DEF Init, Quiet, PlansKnow
<1>2. PlansKnow => PlanMeansSameProject
  BY DEF PlansKnow, PlanMeansSameProject
<1> QED BY <1>1, <1>2, InitTypes, StepTypes, PlansKnowStep, PTL DEF CommandsSpec

-----------------------------------------------------------------------------
(* What a plan may contain.                                                *)

(* A run that a plan names by its id is one its query selects, and stays so*)
(* as more is written; whole projects are planned only by a purge.         *)
PlansSelect ==
  \A c \in Cleaner :
    /\ clean[c].nums # {} => clean[c].query.purge
    /\ \A i \in clean[c].ids : i <= Cardinality(written)
    /\ \A r \in written : r.id \in clean[c].ids => Selects(c, r)

(* More rows never move a run forward.                                     *)
LEMMA PlaceGrows ==
  ASSUME NEW r, NEW few, NEW many, few \subseteq many, IsFiniteSet(many)
  PROVE  Place(r, few) \in Nat /\ Place(r, many) \in Nat /\ Place(r, few) <= Place(r, many)
<1> DEFINE A == {s \in few : s.num = r.num /\ Newer(s, r)}
           B == {s \in many : s.num = r.num /\ Newer(s, r)}
<1>1. A \subseteq B /\ B \subseteq many
  OBVIOUS
<1>2. IsFiniteSet(B)
  BY <1>1, FS_Subset
<1>3. IsFiniteSet(A) /\ Cardinality(A) <= Cardinality(B)
  BY <1>1, <1>2, FS_Subset
<1> QED BY <1>2, <1>3, FS_CardinalityType DEF Place

(* What selects a run goes on selecting it while its query is the same.    *)
LEMMA SelectsStays ==
  ASSUME TypeInv, TypeInv', TablesMove, NEW c \in Cleaner, NEW r \in written,
         SameQuery(c), clean[c].means \subseteq clean'[c].means, Selects(c, r)
  PROVE  Selects(c, r)'
<1>1. IsFiniteSet(written') /\ written \subseteq written' /\ clean[c].query.keep \in Int
  <2>1. clean[c].query \in Query \cup {NoQuery}
    BY DEF TypeInv, TypeOK
  <2> QED BY <2>1, QueryAssumption
          DEF TypeInv, TablesInv, RowsNumbered, TablesMove, Queries, NoQuery
<1>2. Place(r, written) \in Nat /\ Place(r, written') \in Nat
      /\ Place(r, written) <= Place(r, written')
  BY <1>1, PlaceGrows
<1> DEFINE q == clean[c].query
           old == TooOld(q, clean[c].cutoff, r)
<1>3. (r.num = 0 /\ q.unclaimed /\ (q.age = 0 \/ old))
      \/ (r.num # 0 /\ q.purge /\ \E p \in clean[c].means : p.num = r.num)
      \/ (r.num # 0 /\ q.keep >= 0 /\ Place(r, written) >= q.keep)
      \/ (r.num # 0 /\ old)
  BY DEF Selects
<1>4. clean'[c].query = q /\ clean'[c].cutoff = clean[c].cutoff
  BY DEF SameQuery
<1>5. (q.keep >= 0 /\ Place(r, written) >= q.keep)
         => (q.keep >= 0 /\ Place(r, written') >= q.keep)
  BY <1>1, <1>2
<1>6. (\E p \in clean[c].means : p.num = r.num) => \E p \in clean'[c].means : p.num = r.num
  OBVIOUS
<1> HIDE DEF q
<1>7. Place(r, written') = Place(r, written)'
  BY DEF Place, Newer
<1> QED BY <1>3, <1>4, <1>5, <1>6, <1>7 DEF Selects, TooOld


(* Nor do runs written by others change what it selects.                   *)
LEMMA PlansSelectStep ==
  ASSUME TypeInv, PlansSelect, [Next]_vars
  PROVE  PlansSelect'
<1> SUFFICES ASSUME NEW c \in Cleaner
             PROVE  /\ clean'[c].nums # {} => clean'[c].query.purge
                    /\ \A i \in clean'[c].ids : i <= Cardinality(written')
                    /\ \A r \in written' : r.id \in clean'[c].ids => Selects(c, r)'
  BY DEF PlansSelect
<1> DEFINE q == clean[c].query
<1>1. /\ TypeInv' /\ TablesMove /\ written \subseteq written' /\ runs \subseteq written
      /\ IsFiniteSet(written) /\ IsFiniteSet(written')
      /\ Cardinality(written) \in Nat /\ Cardinality(written') \in Nat
      /\ Cardinality(written) <= Cardinality(written')
      /\ \A r \in written : r.id <= Cardinality(written) /\ r.id \in Nat
      /\ \A r \in written' \ written : r.id > Cardinality(written) /\ r.id \in Nat
      /\ \A r, s \in written' : r.id = s.id => r = s
  <2>1. TypeInv' /\ TablesMove
    BY StepTypes
  <2>2. IsFiniteSet(written) /\ IsFiniteSet(written') /\ written \subseteq written'
    BY <2>1 DEF TypeInv, TablesInv, RowsNumbered, TablesMove
  <2>3. /\ Cardinality(written) \in Nat /\ Cardinality(written') \in Nat
        /\ Cardinality(written) <= Cardinality(written')
    BY <2>2, FS_CardinalityType, FS_Subset
  <2> QED BY <2>1, <2>2, <2>3 DEF TypeInv, TablesInv, RowsNumbered, TablesMove,
                                  TablesOK, Runs, StoreConsistent
<1>2. /\ clean[c].nums # {} => q.purge
      /\ \A i \in clean[c].ids : i <= Cardinality(written) /\ i \in Nat
      /\ \A r \in written : r.id \in clean[c].ids => Selects(c, r)
      /\ \A n \in clean[c].todo : n \in Nat \ {0}
      /\ q.keep \in Int
  <2>1. q \in Query \cup {NoQuery}
    BY DEF TypeInv, TypeOK
  <2>2. q.keep \in Int
    BY <2>1, QueryAssumption DEF Queries, NoQuery
  <2> QED BY <2>2 DEF PlansSelect, TypeInv, TypeOK
(* A row written in this step is in no plan yet, an older one stays chosen.*)
<1>3. ASSUME SameQuery(c), clean[c].means \subseteq clean'[c].means,
             NEW r \in written', r.id \in clean[c].ids
      PROVE  Selects(c, r)'
  <2>1. r \in written
    BY <1>1, <1>2, <1>3
  <2> QED BY <1>1, <1>2, <1>3, <2>1, SelectsStays
<1>4. CASE clean'[c] = clean[c]
  BY <1>1, <1>2, <1>3, <1>4 DEF SameQuery
<1>5. CASE StartsAfresh(c)
  BY <1>5 DEF StartsAfresh
<1>6. CASE UNCHANGED tables /\ PlansProject(c)
  <2>1. PICK n \in clean[c].todo :
          /\ SameQuery(c)
          /\ clean'[c].nums = IF q.purge THEN clean[c].nums \cup {n} ELSE clean[c].nums
          /\ clean'[c].means = IF q.purge THEN clean[c].means \cup {p \in projects : p.num = n}
                                          ELSE clean[c].means
          /\ \A i \in clean'[c].ids \ clean[c].ids : \E r \in RunsForProject(n) :
               /\ r.id = i
               /\ q.purge \/ Surplus(q, r, RunsForProject(n)) \/ TooOld(q, clean[c].cutoff, r)
    BY <1>6 DEF PlansProject
  <2>2. /\ RunsForProject(n) \subseteq written /\ n # 0
        /\ \A r \in RunsForProject(n) : r \in runs /\ r.num = n
    BY <1>1, <1>2 DEF RunsForProject
  <2>3. clean[c].means \subseteq clean'[c].means
    BY <2>1
  <2>4. ASSUME NEW r \in RunsForProject(n),
               q.purge \/ Surplus(q, r, RunsForProject(n)) \/ TooOld(q, clean[c].cutoff, r)
        PROVE  Selects(c, r)'
    <3>1. CASE q.purge
      <4>1. \E p \in projects : p.num = r.num
        BY <2>2 DEF TypeInv, TablesInv, StoreConsistent, Nums
      <4>2. \E p \in clean'[c].means : p.num = r.num
        BY <2>1, <2>2, <3>1, <4>1
      <4> QED BY <2>1, <2>2, <3>1, <4>2 DEF Selects, SameQuery
    <3>2. CASE Surplus(q, r, RunsForProject(n))
      <4>1. Place(r, RunsForProject(n)) \in Nat /\ Place(r, written) \in Nat
            /\ Place(r, RunsForProject(n)) <= Place(r, written)
        BY <1>1, <2>2, PlaceGrows
      <4>2. q.keep >= 0 /\ Place(r, written) >= q.keep
        BY <1>2, <3>2, <4>1 DEF Surplus
      <4>3. Place(r, written)' = Place(r, written)
        BY <1>6 DEF Place, Newer, tables
      <4> QED BY <2>1, <2>2, <4>2, <4>3 DEF Selects, SameQuery
    <3>3. CASE TooOld(q, clean[c].cutoff, r)
      BY <2>1, <2>2, <3>3 DEF Selects, SameQuery, TooOld
    <3> QED BY <2>4, <3>1, <3>2, <3>3
  <2>5. \A i \in clean'[c].ids : i <= Cardinality(written')
    BY <1>1, <1>2, <2>1, <2>2
  <2>6. ASSUME NEW r \in written', r.id \in clean'[c].ids
        PROVE  Selects(c, r)'
    <3>1. CASE r.id \in clean[c].ids
      BY <1>3, <2>1, <2>3, <3>1
    <3>2. CASE r.id \notin clean[c].ids
      <4>1. PICK s \in RunsForProject(n) :
              /\ s.id = r.id
              /\ q.purge \/ Surplus(q, s, RunsForProject(n)) \/ TooOld(q, clean[c].cutoff, s)
        BY <2>1, <2>6, <3>2
      <4>2. s = r
        BY <1>1, <2>2, <4>1
      <4> QED BY <2>4, <4>1, <4>2
    <3> QED BY <3>1, <3>2
  <2>7. clean'[c].nums # {} => clean'[c].query.purge
    BY <1>2, <2>1 DEF SameQuery
  <2> QED BY <2>5, <2>6, <2>7
<1>7. CASE UNCHANGED tables /\ PlansLoose(c)
  <2>1. /\ SameQuery(c) /\ clean'[c].nums = clean[c].nums /\ clean'[c].means = clean[c].means
        /\ \A i \in clean'[c].ids \ clean[c].ids : \E r \in UnclaimedRuns :
             r.id = i /\ q.unclaimed /\ (q.age = 0 \/ TooOld(q, clean[c].cutoff, r))
    BY <1>7 DEF PlansLoose
  <2>2. \A r \in UnclaimedRuns : r \in written /\ r.num = 0
    BY <1>1 DEF UnclaimedRuns, RunsForProject
  <2>3. \A i \in clean'[c].ids : i <= Cardinality(written')
    BY <1>1, <1>2, <2>1, <2>2
  <2>4. ASSUME NEW r \in written', r.id \in clean'[c].ids
        PROVE  Selects(c, r)'
    <3>1. CASE r.id \in clean[c].ids
      BY <1>3, <2>1, <3>1
    <3>2. CASE r.id \notin clean[c].ids
      <4>1. PICK s \in UnclaimedRuns :
              s.id = r.id /\ q.unclaimed /\ (q.age = 0 \/ TooOld(q, clean[c].cutoff, s))
        BY <2>1, <2>4, <3>2
      <4>2. s = r /\ r.num = 0
        BY <1>1, <2>2, <4>1
      <4> QED BY <2>1, <4>1, <4>2 DEF Selects, SameQuery, TooOld
    <3> QED BY <3>1, <3>2
  <2>5. clean'[c].nums # {} => clean'[c].query.purge
    BY <1>2, <2>1 DEF SameQuery
  <2> QED BY <2>3, <2>4, <2>5
<1> QED BY <1>4, <1>5, <1>6, <1>7, PlanEffect

(* The deletion itself: what goes is what the plan names, ...              *)
LEMMA ApplySelects ==
  ASSUME TypeInv, PlansKnow, PlansSelect, NEW c \in Cleaner, Apply(c),
         NEW r \in runs \ runs'
  PROVE  Selects(c, r)
<1>1. r \in written /\ (r.id \in clean[c].ids \/ r.num \in clean[c].nums)
  BY DEF Apply, ApplyPrune, TypeInv, TablesInv, StoreConsistent
<1>2. CASE r.id \in clean[c].ids
  BY <1>1, <1>2 DEF PlansSelect
<1>3. CASE r.num \in clean[c].nums
  <2>1. r.num # 0 /\ clean[c].query.purge
    BY <1>3 DEF TypeInv, TypeOK, PlansSelect
  <2>2. \E p \in projects : p.num = r.num
    BY <2>1 DEF TypeInv, TablesInv, StoreConsistent, Nums
  <2>3. \E p \in clean[c].means : p.num = r.num
    BY <1>3, <2>2 DEF PlansKnow
  <2> QED BY <2>1, <2>3 DEF Selects
<1> QED BY <1>1, <1>2, <1>3

(* ... and no other step looks like one.                                   *)
LEMMA OnlyApplyDeletes ==
  ASSUME TypeInv, [Next]_vars, NEW c \in Cleaner,
         clean[c].pc = "apply", clean'[c].pc = "recount"
  PROVE  Apply(c)
<1>1. clean \in [Cleaner -> Cleaning] /\ clean'[c] # clean[c]
  BY DEF TypeInv, TypeOK, Cleaning
<1>2. PICK d \in Cleaner : \/ Clean(d) \/ PlanProject(d) \/ PlanUnclaimed(d)
                           \/ Apply(d) \/ Recount(d) \/ StopClean(d)
  BY <1>1, ScannerStep DEF Next, Tick, vars
<1>3. d = c
  BY <1>1, <1>2, CleanerStep
<1>4. ~(Clean(c) \/ PlanProject(c) \/ PlanUnclaimed(c) \/ Recount(c))
  BY DEF Clean, PlanProject, PlanUnclaimed, Recount
<1>5. ~StopClean(c)
  BY <1>1 DEF StopClean, Quiet
<1> QED BY <1>2, <1>3, <1>4, <1>5

(* However many runs are written and pruned between the plan and the       *)
(* deletion, a clean deletes only what its command line selects.           *)
THEOREM CommandsCleanHonoursSelection == CommandsSpec => CleanHonoursSelection
<1>1. Init => PlansKnow /\ PlansSelect
  BY DEF Init, Quiet, PlansKnow, PlansSelect
<1>2. TypeInv /\ PlansKnow /\ PlansSelect /\ [Next]_vars =>
        [\A c \in Cleaner : clean[c].pc = "apply" /\ clean'[c].pc = "recount" =>
           \A r \in runs \ runs' : Selects(c, r)]_vars
  BY ApplySelects, OnlyApplyDeletes
<1>3. TypeInv /\ PlansSelect /\ [Next]_vars => PlansSelect'
  BY PlansSelectStep
<1>4. TypeInv /\ PlansKnow /\ [Next]_vars => PlansKnow'
  BY PlansKnowStep
<1>5. TypeInv /\ [Next]_vars => TypeInv'
  BY StepTypes
<1> QED BY <1>1, <1>2, <1>3, <1>4, <1>5, InitTypes, PTL
        DEF CommandsSpec, CleanHonoursSelection


-----------------------------------------------------------------------------
(* What a clean leaves.                                                    *)

(* Of rows with ids of their own, at most "keep" have fewer than "keep"    *)
(* newer ones: two rows never have the same place.                         *)
LEMMA FewInFront ==
  ASSUME NEW rows \in SUBSET Runs, IsFiniteSet(rows), NEW n, NEW keep \in Nat,
         \A r \in rows : r.num = n,
         \A r, s \in rows : r.id = s.id => r = s
  PROVE  Cardinality({r \in rows : Place(r, rows) < keep}) <= keep
<1> DEFINE Front(r) == {s \in rows : Newer(s, r)}
           first == {r \in rows : Place(r, rows) < keep}
<1>1. \A r \in rows : r.id \in Nat /\ r.at \in Nat
  BY DEF Runs
<1>2. \A r \in rows : /\ IsFiniteSet(Front(r)) /\ Cardinality(Front(r)) \in Nat
                      /\ Place(r, rows) = Cardinality(Front(r))
  <2> SUFFICES ASSUME NEW r \in rows
               PROVE  /\ IsFiniteSet(Front(r)) /\ Cardinality(Front(r)) \in Nat
                      /\ Place(r, rows) = Cardinality(Front(r))
    OBVIOUS
  <2>1. IsFiniteSet(Front(r))
    BY FS_Subset
  <2>2. {s \in rows : s.num = r.num /\ Newer(s, r)} = Front(r)
    OBVIOUS
  <2> QED BY <2>1, <2>2, FS_CardinalityType DEF Place
<1>3. ASSUME NEW r \in rows, NEW s \in rows, Newer(r, s)
      PROVE  Place(r, rows) # Place(s, rows)
  <2>1. \A t \in rows : Newer(t, r) => Newer(t, s)
    BY <1>1, <1>3 DEF Newer
  <2>2. Front(r) \subseteq Front(s) /\ r \in Front(s) /\ r \notin Front(r)
    BY <1>1, <1>3, <2>1 DEF Newer
  <2> HIDE DEF Front
  <2>3. Cardinality(Front(r)) # Cardinality(Front(s))
    BY <1>2, <2>2, FS_Subset
  <2> QED BY <1>2, <2>3
<1>4. \A r, s \in rows : r # s => Place(r, rows) # Place(s, rows)
  <2>1. \A r, s \in rows : r # s => Newer(r, s) \/ Newer(s, r)
    BY <1>1 DEF Newer
  <2> QED BY <1>3, <2>1
<1>5. IsFiniteSet(first) /\ Cardinality(first) \in Nat
  <2>1. IsFiniteSet(first)
    BY FS_Subset
  <2> QED BY <2>1, FS_CardinalityType
<1>6. IsFiniteSet(0..(keep - 1)) /\ Cardinality(0..(keep - 1)) = keep
  BY FS_Interval
<1> DEFINE f == [r \in first |-> Place(r, rows)]
<1>7. f \in [first -> 0..(keep - 1)]
  <2>1. \A r \in first : Place(r, rows) \in 0..(keep - 1)
    <3> SUFFICES ASSUME NEW r \in first PROVE Place(r, rows) \in 0..(keep - 1)
      OBVIOUS
    <3>1. Place(r, rows) \in Nat /\ Place(r, rows) < keep
      BY <1>2
    <3> QED BY <3>1
  <2> QED BY <2>1
<1>8. \A r, s \in first : r # s => f[r] # f[s]
  BY <1>4
<1> HIDE DEF f, first
<1>9. ~(keep < Cardinality(first))
  BY <1>5, <1>6, <1>7, <1>8, FS_PigeonHole
<1> QED BY <1>5, <1>9 DEF first

(* While a clean with --keep plans, it spares at most that many of the runs*)
(* it looked at in any project, and looks at each project once; when it has*)
(* deleted, no more than that are left of them.                            *)
KeepsOf(c, n) == {r \in clean[c].saw : r.num = n /\ r.id \notin clean[c].ids}
LeftOf(c, n)  == {r \in runs \cap clean[c].saw : r.num = n}
PlansKeep ==
  \A c \in Cleaner : clean[c].query.keep >= 0 =>
    /\ clean[c].saw \subseteq written
    /\ \A n \in clean[c].todo : \A r \in clean[c].saw : r.num # n
    /\ clean[c].pc \in {"plan", "apply"} =>
         \A n \in Nat : Cardinality(KeepsOf(c, n)) <= clean[c].query.keep
    /\ clean[c].pc = "recount" =>
         \A n \in Nat : Cardinality(LeftOf(c, n)) <= clean[c].query.keep


(* Planning project by project keeps the bound, the deletion realises it.  *)
LEMMA PlansKeepStep ==
  ASSUME TypeInv, PlansKeep, [Next]_vars
  PROVE  PlansKeep'
<1> SUFFICES ASSUME NEW c \in Cleaner, clean'[c].query.keep >= 0
             PROVE  /\ clean'[c].saw \subseteq written'
                    /\ \A n \in clean'[c].todo : \A r \in clean'[c].saw : r.num # n
                    /\ clean'[c].pc \in {"plan", "apply"} =>
                         \A n \in Nat : Cardinality(KeepsOf(c, n)') <= clean'[c].query.keep
                    /\ clean'[c].pc = "recount" =>
                         \A n \in Nat : Cardinality(LeftOf(c, n)') <= clean'[c].query.keep
  BY DEF PlansKeep
<1> DEFINE q    == clean[c].query
           keep == clean'[c].query.keep
<1>1. /\ TypeInv' /\ written \subseteq written' /\ IsFiniteSet(written)
      /\ runs \subseteq written /\ runs' \cap written \subseteq runs
      /\ \A r, s \in written : r.id = s.id => r = s
      /\ runs \subseteq Runs
  BY StepTypes DEF TablesMove, TypeInv, TablesInv, RowsNumbered, StoreConsistent, TablesOK
<1>2. /\ clean[c].query \in Query \cup {NoQuery} /\ clean'[c].query \in Query \cup {NoQuery}
      /\ clean[c].todo \subseteq Nat
  BY <1>1 DEF TypeInv, TypeOK
<1>3. keep \in Nat
  BY <1>2, QueryAssumption DEF Queries, NoQuery
<1>4. q.keep >= 0 =>
        /\ clean[c].saw \subseteq written /\ IsFiniteSet(clean[c].saw)
        /\ \A n \in clean[c].todo : \A r \in clean[c].saw : r.num # n
        /\ clean[c].pc \in {"plan", "apply"} =>
             \A n \in Nat : Cardinality(KeepsOf(c, n)) <= q.keep
        /\ clean[c].pc = "recount" => \A n \in Nat : Cardinality(LeftOf(c, n)) <= q.keep
  BY <1>1, FS_Subset DEF PlansKeep
(* A set that is part of one that was small enough is small enough.        *)
<1>5. ASSUME NEW small, NEW big, small \subseteq big, big \subseteq clean[c].saw,
             q.keep = keep, Cardinality(big) <= keep
      PROVE  Cardinality(small) <= keep
  <2>1. IsFiniteSet(big)
    BY <1>3, <1>4, <1>5, FS_Subset
  <2>2. IsFiniteSet(small) /\ Cardinality(small) <= Cardinality(big)
    BY <1>5, <2>1, FS_Subset
  <2> QED BY <1>3, <1>5, <2>1, <2>2, FS_CardinalityType
<1> HIDE DEF keep
<1>6. CASE clean'[c] = clean[c]
  <2>1. q.keep = keep /\ q.keep >= 0
    BY <1>6 DEF keep
  <2>2. ASSUME clean[c].pc \in {"plan", "apply"}, NEW n \in Nat
        PROVE  Cardinality(KeepsOf(c, n)') <= keep
    <3>1. KeepsOf(c, n)' = KeepsOf(c, n)
      BY <1>6 DEF KeepsOf
    <3> QED BY <1>4, <2>1, <2>2, <3>1
  <2>3. ASSUME clean[c].pc = "recount", NEW n \in Nat
        PROVE  Cardinality(LeftOf(c, n)') <= keep
    <3>1. LeftOf(c, n)' \subseteq LeftOf(c, n) /\ LeftOf(c, n) \subseteq clean[c].saw
      BY <1>1, <1>4, <1>6, <2>1 DEF LeftOf
    <3>2. Cardinality(LeftOf(c, n)) <= keep
      BY <1>4, <2>1, <2>3
    <3> QED BY <1>5, <2>1, <3>1, <3>2
  <2> QED BY <1>1, <1>4, <1>6, <2>1, <2>2, <2>3 DEF keep
<1>7. CASE StartsAfresh(c) /\ clean'[c].pc # "recount" /\ clean'[c].saw = {}
  <2>1. \A n \in Nat : KeepsOf(c, n)' = {}
    BY <1>7 DEF KeepsOf
  <2>2. \A n \in Nat : Cardinality(KeepsOf(c, n)') <= keep
    BY <1>3, <2>1, FS_EmptySet
  <2> QED BY <1>7, <2>2 DEF keep
<1>8. CASE /\ StartsAfresh(c) /\ Apply(c) /\ clean'[c].pc = "recount" /\ clean'[c].todo = {}
           /\ clean'[c].query = clean[c].query /\ clean'[c].saw = clean[c].saw
  <2>1. q.keep = keep /\ q.keep >= 0
    BY <1>8 DEF keep
  <2>2. ASSUME NEW n \in Nat
        PROVE  Cardinality(LeftOf(c, n)') <= keep
    <3>1. \A r \in runs' : r.id \notin clean[c].ids
      BY <1>8 DEF Apply, ApplyPrune
    <3>2. LeftOf(c, n)' \subseteq KeepsOf(c, n) /\ KeepsOf(c, n) \subseteq clean[c].saw
      BY <1>8, <3>1 DEF LeftOf, KeepsOf
    <3>3. Cardinality(KeepsOf(c, n)) <= keep
      BY <1>4, <1>8, <2>1 DEF Apply
    <3> QED BY <1>5, <2>1, <3>2, <3>3
  <2> QED BY <1>1, <1>4, <1>8, <2>1, <2>2 DEF keep
<1>9. CASE UNCHANGED tables /\ PlansProject(c)
  <2>1. PICK n \in clean[c].todo :
          /\ SameQuery(c) /\ clean'[c].todo = clean[c].todo \ {n}
          /\ clean[c].pc = "plan" /\ clean'[c].pc = "plan"
          /\ clean'[c].saw = clean[c].saw \cup RunsForProject(n)
          /\ clean[c].ids \subseteq clean'[c].ids
          /\ \A r \in RunsForProject(n) :
               q.purge \/ Surplus(q, r, RunsForProject(n)) \/ TooOld(q, clean[c].cutoff, r)
                 => r.id \in clean'[c].ids
    BY <1>9 DEF PlansProject
  <2> DEFINE rows == RunsForProject(n)
  <2>2. q.keep = keep /\ q.keep >= 0
    BY <2>1 DEF SameQuery, keep
  <2>3. /\ rows \subseteq runs /\ rows \subseteq written /\ IsFiniteSet(rows)
        /\ \A r \in rows : r.num = n
        /\ rows \in SUBSET Runs /\ \A r, s \in rows : r.id = s.id => r = s
    BY <1>1, FS_Subset DEF RunsForProject
  <2> HIDE DEF rows
  <2>4. ASSUME NEW m \in Nat
        PROVE  Cardinality(KeepsOf(c, m)') <= keep
    <3>1. CASE m = n
      <4>1. \A r \in rows : r.id \notin clean'[c].ids => ~(Place(r, rows) >= keep)
        BY <2>1, <2>2 DEF Surplus, rows
      <4>2. \A r \in rows : Place(r, rows) \in Nat
        BY <2>3, PlaceGrows
      <4>3. KeepsOf(c, m)' \subseteq {r \in rows : Place(r, rows) < keep}
        BY <1>3, <1>4, <2>1, <2>2, <3>1, <4>1, <4>2 DEF KeepsOf, rows
      <4>4. Cardinality({r \in rows : Place(r, rows) < keep}) <= keep
        BY <1>3, <2>3, FewInFront
      <4>5. IsFiniteSet({r \in rows : Place(r, rows) < keep})
        BY <2>3, FS_Subset
      <4>6. /\ IsFiniteSet(KeepsOf(c, m)')
            /\ Cardinality(KeepsOf(c, m)') <= Cardinality({r \in rows : Place(r, rows) < keep})
        BY <4>3, <4>5, FS_Subset
      <4> QED BY <1>3, <4>4, <4>5, <4>6, FS_CardinalityType
    <3>2. CASE m # n
      <4>1. KeepsOf(c, m)' \subseteq KeepsOf(c, m) /\ KeepsOf(c, m) \subseteq clean[c].saw
        BY <2>1, <2>3, <3>2 DEF KeepsOf, rows
      <4>2. Cardinality(KeepsOf(c, m)) <= keep
        BY <1>4, <2>1, <2>2
      <4> QED BY <1>5, <2>2, <4>1, <4>2
    <3> QED BY <3>1, <3>2
  <2>5. clean'[c].saw \subseteq written'
    BY <1>1, <1>4, <2>1, <2>2, <2>3 DEF rows
  <2>6. \A m \in clean'[c].todo : \A r \in clean'[c].saw : r.num # m
    BY <1>4, <2>1, <2>2, <2>3 DEF rows
  <2> QED BY <2>1, <2>4, <2>5, <2>6 DEF keep
<1>10. CASE UNCHANGED tables /\ PlansLoose(c)
  <2>1. /\ SameQuery(c) /\ clean'[c].todo = clean[c].todo /\ clean'[c].saw = clean[c].saw
        /\ clean[c].pc = "plan" /\ clean'[c].pc = "apply"
        /\ clean[c].ids \subseteq clean'[c].ids
    BY <1>10 DEF PlansLoose
  <2>2. q.keep = keep /\ q.keep >= 0
    BY <2>1 DEF SameQuery, keep
  <2>3. ASSUME NEW m \in Nat
        PROVE  Cardinality(KeepsOf(c, m)') <= keep
    <3>1. KeepsOf(c, m)' \subseteq KeepsOf(c, m) /\ KeepsOf(c, m) \subseteq clean[c].saw
      BY <2>1 DEF KeepsOf
    <3>2. Cardinality(KeepsOf(c, m)) <= keep
      BY <1>4, <2>1, <2>2
    <3> QED BY <1>5, <2>2, <3>1, <3>2
  <2> QED BY <1>1, <1>4, <2>1, <2>2, <2>3 DEF keep
<1> QED BY <1>6, <1>7, <1>8, <1>9, <1>10, PlanEffect DEF StartsAfresh

(* Of the runs it looked at, a clean with --keep N leaves no project more  *)
(* than N, whatever is scanned and pruned while it plans and deletes.      *)
THEOREM CommandsKeepBounds == CommandsSpec => []KeepBounds
<1>1. Init => PlansKeep
  BY DEF Init, Quiet, NoQuery, PlansKeep
<1>2. TypeInv /\ PlansKeep => KeepBounds
  BY DEF PlansKeep, KeepBounds, LeftOf, TypeInv, TablesInv, TablesOK, Nums
<1>3. TypeInv /\ PlansKeep /\ [Next]_vars => PlansKeep'
  BY PlansKeepStep
<1>4. TypeInv /\ [Next]_vars => TypeInv'
  BY StepTypes
<1> QED BY <1>1, <1>2, <1>3, <1>4, InitTypes, PTL DEF CommandsSpec
==============================================================================
