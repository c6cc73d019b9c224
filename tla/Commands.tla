------------------------------- MODULE Commands ------------------------------
(***************************************************************************)
(* The deepdep processes that share one store: "scan", which persists what *)
(* a walk found, and "clean", which plans what to delete, asks, and        *)
(* deletes.  Each step is one database call; a process may be killed       *)
(* between any two.                                                        *)
(***************************************************************************)
EXTENDS RunStore

CONSTANTS
  Scanner, Cleaner,    \* concurrent processes
  Query,               \* the queries clean is given
  Format,              \* scan --format
  Hurried,             \* scanners whose --timeout may expire
  Instant,             \* the readings of the clock
  MaxRuns, MaxCleans, MaxObs   \* bounds of the model

(* A query: keep < 0 keeps all, age = 0 has no age filter.                 *)
Queries == [scoped : BOOLEAN, keep : Int, age : Nat,
            unclaimed : BOOLEAN, purge : BOOLEAN]
(* What cleanCmd accepts.                                                  *)
Selective(q) ==
  /\ q.keep >= 0 \/ q.age # 0 \/ q.unclaimed \/ q.purge
  /\ q.purge => q.scoped

ASSUME QueryAssumption == \A q \in Query : q \in Queries /\ Selective(q)
ASSUME LimitAssumption ==
  /\ MaxRuns \in Nat /\ Instant \subseteq Nat /\ MaxCleans \in Nat /\ MaxObs \in Nat
  /\ Hurried \subseteq Scanner

VARIABLES
  clock,
  scan,   \* the scanners
  clean,  \* the cleaners
  cleans  \* how many cleans were started

vars == <<tables, clock, scan, clean, cleans>>

(* A scan: the instant it stamped, whether the --timeout context has       *)
(* expired, and (history) whether it wrote down its mutable refs.  What is *)
(* scanned, and the format of the answer, are chosen when they matter.     *)
Ready == [pc |-> "ready", at |-> 0, expired |-> FALSE, refs |-> FALSE]
(* A clean: its query, the project it is limited to (0 for none), the age  *)
(* cutoff, the projects PlanPrune still has to look at, the plan, and the  *)
(* observation count it took.  "means" is history: the key each planned    *)
(* project had when it was planned; "saw" the runs the plan looked at.     *)
NoQuery == [scoped |-> FALSE, keep |-> -1, age |-> 0,
            unclaimed |-> FALSE, purge |-> FALSE]
Quiet == [pc |-> "ready", query |-> NoQuery, cutoff |-> 0,
          todo |-> {}, ids |-> {}, nums |-> {}, obs |-> 0,
          means |-> {}, saw |-> {}]

Init ==
  /\ EmptyTables
  /\ clock \in Instant /\ cleans = 0
  /\ scan = [s \in Scanner |-> Ready]
  /\ clean = [c \in Cleaner |-> Quiet]

Tick ==
  /\ \E t \in Instant : t > clock /\ clock' = t
  /\ UNCHANGED <<tables, scan, clean, cleans>>

-----------------------------------------------------------------------------
(* scan                                                                    *)

InScan == {s \in Scanner : scan[s].pc \notin {"ready", "failed"}}

Scan(s) ==
  /\ scan[s].pc \in {"ready", "failed"}
  /\ Cardinality(written) + Cardinality(InScan) < MaxRuns
  /\ scan' = [scan EXCEPT ![s] = [Ready EXCEPT !.pc = "walk"]]
  /\ UNCHANGED <<tables, clock, clean, cleans>>

(* The walk fetches metadata and records what it saw, a row at a time.     *)
Observe(s) ==
  /\ scan[s].pc = "walk" /\ ~scan[s].expired
  /\ counted < MaxObs
  /\ RecordObservation
  /\ UNCHANGED <<clock, scan, clean, cleans>>

(* The --timeout context expires; the walk then ends with what it has.     *)
Expire(s) ==
  /\ s \in InScan \cap Hurried /\ ~scan[s].expired
  /\ scan' = [scan EXCEPT ![s].expired = TRUE]
  /\ UNCHANGED <<tables, clock, clean, cleans>>

(* WriteRun under a context of its own: the instant is read ...            *)
Stamp(s) ==
  /\ scan[s].pc = "walk"
  /\ scan' = [scan EXCEPT ![s].pc = "write", ![s].at = clock]
  /\ UNCHANGED <<tables, clock, clean, cleans>>

(* ... and the transaction commits once the write lock is free.            *)
Persist(s) ==
  /\ scan[s].pc = "write"
  /\ \E k \in Key \cup {NoKey} : WriteRun(k, scan[s].at)
  /\ scan' = [scan EXCEPT ![s].pc = "refs", ![s].at = 0]
  /\ UNCHANGED <<clock, clean, cleans>>

(* recordRefs, under the context of the walk; its errors are discarded.    *)
Refs(s) ==
  /\ scan[s].pc = "refs"
  /\ scan' = [scan EXCEPT ![s].pc = "emit", ![s].refs = ~scan[s].expired]
  /\ UNCHANGED <<tables, clock, clean, cleans>>

(* SupplyFacts, for CycloneDX only, is asked under the walk's context too. *)
Emit(s) ==
  /\ scan[s].pc = "emit"
  /\ \E format \in Format :
       scan' = [scan EXCEPT ![s] =
         IF format = "cyclonedx" /\ scan[s].expired
           THEN [Ready EXCEPT !.pc = "failed"] ELSE Ready]
  /\ UNCHANGED <<tables, clock, clean, cleans>>

(* Killed, or refused by the database while walking or writing: what was   *)
(* committed stays.                                                        *)
StopScan(s) ==
  /\ s \in InScan
  /\ scan' = [scan EXCEPT ![s] = Ready]
  /\ UNCHANGED <<tables, clock, clean, cleans>>

-----------------------------------------------------------------------------
(* clean                                                                   *)

(* The command line is checked and --project resolved, through the newest  *)
(* run of a project that has one; PlanPrune lists the projects.            *)
Clean(c) ==
  /\ clean[c].pc = "ready" /\ cleans < MaxCleans
  /\ cleans' = cleans + 1
  /\ \E q \in Query :
       \E nums \in IF q.scoped THEN {{r.num} : r \in {r \in runs : r.num # 0}}
                              ELSE {Nums} :
         clean' = [clean EXCEPT ![c] = [Quiet EXCEPT
           !.pc = "plan", !.query = q, !.todo = nums,
           !.cutoff = IF q.age = 0 THEN 0 ELSE clock - q.age]]
  /\ UNCHANGED <<tables, clock, scan>>

(* Mutant: the bound on what is kept compared with > instead of >=.        *)
Surplus_KeepsOneMore(q, r, rows) == q.keep >= 0 /\ Place(r, rows) > q.keep
(* Mutant: the oldest N are kept instead of the newest.                    *)
Surplus_Oldest(q, r, rows) ==
  q.keep >= 0 /\ Cardinality({s \in rows : s.num = r.num /\ Newer(r, s)}) >= q.keep

Surplus(q, r, rows) == q.keep >= 0 /\ Place(r, rows) >= q.keep
TooOld(q, cutoff, r) == q.age # 0 /\ r.at < cutoff

(* PlanPrune looks at one project after the other.                         *)
PlanProject(c) ==
  LET q == clean[c].query IN
  /\ clean[c].pc = "plan"
  /\ \E n \in clean[c].todo :
       LET rows == RunsForProject(n)
           sel  == {r \in rows : q.purge \/ Surplus(q, r, rows)
                                   \/ TooOld(q, clean[c].cutoff, r)} IN
       clean' = [clean EXCEPT
         ![c].todo = @ \ {n},
         ![c].ids  = @ \cup {r.id : r \in sel},
         ![c].nums = IF q.purge THEN @ \cup {n} ELSE @,
         ![c].means = IF q.purge THEN @ \cup {p \in projects : p.num = n} ELSE @,
         ![c].saw  = @ \cup rows]
  /\ UNCHANGED <<tables, clock, scan, cleans>>

(* Then at the unclaimed runs, which only the age filter spares; and the   *)
(* observations are counted.  A clean that selected nothing ends, and so   *)
(* does one that is a dry run or is not confirmed.                         *)
PlanUnclaimed(c) ==
  LET q     == clean[c].query
      loose == {r \in UnclaimedRuns :
                  q.unclaimed /\ (q.age = 0 \/ TooOld(q, clean[c].cutoff, r))}
      ids   == clean[c].ids \cup {r.id : r \in loose} IN
  /\ clean[c].pc = "plan" /\ clean[c].todo = {}
  /\ \/ clean' = [clean EXCEPT ![c] = Quiet]
     \/ /\ ids \cup clean[c].nums # {}
        /\ clean' = [clean EXCEPT ![c].pc = "apply", ![c].ids = ids,
                                  ![c].obs = counted]
  /\ UNCHANGED <<tables, clock, scan, cleans>>

Apply(c) ==
  /\ clean[c].pc = "apply"
  /\ ApplyPrune(clean[c].ids, clean[c].nums)
  /\ clean' = [clean EXCEPT ![c] =
       [Quiet EXCEPT !.pc = "recount", !.query = clean[c].query,
                     !.obs = clean[c].obs, !.saw = clean[c].saw]]
  /\ UNCHANGED <<clock, scan, cleans>>

(* The counts are taken again, and compared.                               *)
Recount(c) ==
  /\ clean[c].pc = "recount"
  /\ clean' = [clean EXCEPT ![c] =
       IF counted = clean[c].obs THEN Quiet ELSE [Quiet EXCEPT !.pc = "bug"]]
  /\ UNCHANGED <<tables, clock, scan, cleans>>

(* The process is gone: it was killed, or its error has been read.         *)
StopClean(c) ==
  /\ clean[c].pc # "ready"
  /\ clean' = [clean EXCEPT ![c] = Quiet]
  /\ UNCHANGED <<tables, clock, scan, cleans>>

Next ==
  \/ Tick
  \/ \E s \in Scanner : \/ Scan(s) \/ Observe(s) \/ Expire(s) \/ Stamp(s)
                        \/ Persist(s) \/ Refs(s) \/ Emit(s) \/ StopScan(s)
  \/ \E c \in Cleaner : \/ Clean(c) \/ PlanProject(c) \/ PlanUnclaimed(c)
                        \/ Apply(c) \/ Recount(c) \/ StopClean(c)

CommandsSpec == Init /\ [][Next]_vars


-----------------------------------------------------------------------------
(* Properties.                                                             *)

(* Every variable stays in its type.                              *)
TypeOK ==
  /\ TablesOK
  /\ clock \in Instant /\ cleans \in 0..MaxCleans
  /\ scan \in [Scanner ->
       [pc : {"ready", "walk", "write", "refs", "emit", "failed"},
        at : Nat, expired : BOOLEAN, refs : BOOLEAN]]
  /\ clean \in [Cleaner ->
       [pc : {"ready", "plan", "apply", "recount", "bug"},
        query : Query \cup {NoQuery}, cutoff : Int, todo : SUBSET (Nat \ {0}),
        ids : SUBSET (Nat \ {0}), nums : SUBSET (Nat \ {0}), obs : Nat,
        means : SUBSET [num : Nat \ {0}, key : Key], saw : SUBSET Runs]]

(* A plan is applied some time after it was made, and other processes purge*)
(* and scan in between: a project number in it still means the project it  *)
(* meant, or nothing, never another project that was registered since.     *)
PlanMeansSameProject ==
  \A c \in Cleaner : \A n \in clean[c].nums :
    {p \in projects : p.num = n} \subseteq clean[c].means

(* However many runs are written and pruned meanwhile, a clean deletes only*)
(* what its own command line selects: a run of the purged project, one with*)
(* at least "keep" newer runs ever written for its project, one older than *)
(* the cutoff, or an unclaimed one that was asked for.                     *)
Selects(c, r) ==
  LET q   == clean[c].query
      old == TooOld(q, clean[c].cutoff, r) IN
  IF r.num = 0 THEN q.unclaimed /\ (q.age = 0 \/ old)
  ELSE \/ q.purge /\ \E p \in clean[c].means : p.num = r.num
       \/ q.keep >= 0 /\ Place(r, written) >= q.keep
       \/ old
CleanHonoursSelection ==
  [][\A c \in Cleaner : clean[c].pc = "apply" /\ clean'[c].pc = "recount" =>
       \A r \in runs \ runs' : Selects(c, r)]_vars

(* And it deletes enough: of the runs it looked at, a clean with --keep N  *)
(* leaves no project more than N.                                          *)
KeepBounds ==
  \A c \in Cleaner : clean[c].pc = "recount" /\ clean[c].query.keep >= 0 =>
    \A n \in Nums :
      Cardinality({r \in runs \cap clean[c].saw : r.num = n}) <= clean[c].query.keep

==============================================================================
