-------------------------------- MODULE Fleet --------------------------------
(***************************************************************************)
(* "deepdep org": list an owner's repositories, skip those the store has a *)
(* run for, scan and report the rest through a bounded pool, add up.  The  *)
(* process may be killed and started again; other deepdep processes write  *)
(* and delete runs in the same store meanwhile.                            *)
(***************************************************************************)
EXTENDS Forge, FleetReport

CONSTANTS
  Workers,   \* --workers
  Refresh,   \* --refresh
  Look,      \* how many of the newest runs are looked at, 5000 in the code
  ReportOf,  \* what the report of a run says, by repository
  NoReport,  \* of an outcome that has none
  Orders,    \* the orders the host may have the repositories in at first
  MaxRuns,   \* bound of the model: run ids ever given
  MaxFaults  \* bound of the model: pushes, deletes and deaths

ASSUME FleetAssumption ==
  /\ {Workers, Look, MaxRuns, MaxFaults} \subseteq Nat
  /\ Workers > 0 /\ Look > 0 /\ Refresh \in BOOLEAN /\ Orders \subseteq SetToSeqs(Repo)
  /\ \A r \in Repo : {ReportOf[r].malicious, ReportOf[r].critical} \subseteq Nat
                    /\ ReportOf[r].score \in Nat

VARIABLES
  stored,   \* the rows of runs, oldest first
  org,      \* where the process is, what it found done, the next to start
  tokens,   \* of the pool's semaphore, those taken
  work,     \* the goroutines, by place in the listing
  results,  \* their outcomes
  doc,      \* the fleet's document
  lastId, faults,
  scans,    \* history: runs the organisation scan has stored, by repository
  excused   \* history: repositories listed twice, or whose run was deleted
            \* or older than the look when it was made

fleetVars == <<stored, org, tokens, work, results, doc, lastId, faults,
               scans, excused>>
vars == <<forgeVars, fleetVars>>

NoDoc  == [total |-> 0]
Fresh  == [pc |-> "listing", done |-> {}, next |-> 1]
Absent == [pc |-> "idle", id |-> 0, mine |-> 0]

Init ==
  /\ hosted \in Orders
  /\ asked = [path |-> "orgs", page |-> 1] /\ listed = <<>> /\ pushed = {}
  /\ stored = <<>> /\ org = Fresh /\ tokens = 0 /\ work = <<>> /\ results = <<>>
  /\ doc = NoDoc /\ lastId = 0 /\ faults = 0
  /\ scans = [r \in Repo |-> 0] /\ excused = {}

(* Runs(ctx, 5000) newest first, of which the oldest are not seen.         *)
Newest == {i \in DOMAIN stored : i > Len(stored) - Look}

-----------------------------------------------------------------------------
(* Listing.                                                                *)

Respond ==
  /\ org.pc = "listing" /\ asked # Nothing
  /\ \E r \in Responses :
       /\ Possible(r)
       /\ IF DecodePage(r) = "page" THEN ReadPage ELSE Refused(DecodePage(r))
  /\ UNCHANGED fleetVars

PushWhileListing ==
  /\ org.pc = "listing" /\ faults < MaxFaults
  /\ \E r \in Repo : Push(r)
  /\ faults' = faults + 1
  /\ UNCHANGED <<stored, org, tokens, work, results, doc, lastId, scans, excused>>

Twice == {r \in Repo : Cardinality({i \in DOMAIN listed : listed[i] = r}) > 1}

Listed ==
  /\ org.pc = "listing" /\ asked = Nothing
  /\ org' = [org EXCEPT !.pc = IF listed = <<>> THEN "failed" ELSE "look"]
  /\ excused' = excused \cup Twice
  /\ UNCHANGED <<forgeVars, stored, tokens, work, results, doc, lastId, faults, scans>>

-----------------------------------------------------------------------------
(* The pool.                                                               *)

(* Mutant: the store is asked for one run, not for the newest 5000.        *)
AlreadyScanned_LastOnly == {stored[i].target : i \in {j \in DOMAIN stored : j = Len(stored)}}

AlreadyScanned == {stored[i].target : i \in Newest}

(* alreadyScanned opens the store and reads the list, or fails.            *)
LookUp ==
  /\ org.pc = "look"
  /\ org' \in {[org EXCEPT !.pc = "pool", !.done = AlreadyScanned],
               [org EXCEPT !.pc = "failed"]}
  /\ work' = [i \in DOMAIN listed |-> Absent]
  /\ results' = [i \in DOMAIN listed |->
                   [repo |-> listed[i], failed |-> FALSE, report |-> NoReport]]
  /\ excused' = excused \cup {stored[i].target : i \in DOMAIN stored \ Newest}
  /\ UNCHANGED <<forgeVars, stored, tokens, doc, lastId, faults, scans>>

(* sem <- struct{}{} blocks the loop, not the goroutine.                   *)
Spawn ==
  /\ org.pc = "pool" /\ org.next <= Len(listed) /\ tokens < Workers
  /\ tokens' = tokens + 1
  /\ org' = [org EXCEPT !.next = @ + 1]
  /\ work' = [work EXCEPT ![org.next].pc =
                IF ~Refresh /\ listed[org.next] \in org.done THEN "find" ELSE "scan"]
  /\ UNCHANGED <<forgeVars, stored, results, doc, lastId, faults, scans, excused>>

(* Mutant: the token of a failed repository is not given back.             *)
Return_KeepsToken(i, result) ==
  /\ work' = [work EXCEPT ![i].pc = "done"]
  /\ tokens' = IF ~result.failed THEN tokens - 1 ELSE tokens
  /\ results' = [results EXCEPT ![i] = result]

(* scanAndReport returns: the result is filed and both defers run.         *)
Return(i, result) ==
  /\ work' = [work EXCEPT ![i].pc = "done"]
  /\ tokens' = tokens - 1
  /\ results' = [results EXCEPT ![i] = result]

WriteRun(target) ==
  /\ Len(stored) < MaxRuns /\ lastId < MaxRuns
  /\ lastId' = lastId + 1
  /\ stored' = Append(stored, [id |-> lastId + 1, target |-> target])

ScanStores(i) ==
  /\ work[i].pc = "scan"
  /\ WriteRun(listed[i])
  /\ work' = [work EXCEPT ![i] = [pc |-> "find", id |-> @.id, mine |-> lastId']]
  /\ scans' = [scans EXCEPT ![listed[i]] = @ + 1]
  /\ UNCHANGED <<forgeVars, org, tokens, results, doc, faults, excused>>

Fails(i) ==
  /\ Return(i, [results[i] EXCEPT !.failed = TRUE])
  /\ UNCHANGED <<forgeVars, stored, org, doc, lastId, faults, scans, excused>>

ScanFails(i) == work[i].pc = "scan" /\ Fails(i)

(* Mutant: report is handed the last run of the store.                     *)
LatestRunFor_Last(target) == {i \in Newest : i = Len(stored)}

(* latestRunFor: the newest run of this target, if it is among the newest. *)
LatestRunFor(target) ==
  {i \in Newest : /\ stored[i].target = target
                  /\ \A j \in Newest : stored[j].target = target => j <= i}

Find(i) ==
  /\ work[i].pc = "find"
  /\ IF LatestRunFor(listed[i]) = {} THEN Fails(i)
     ELSE /\ \E k \in LatestRunFor(listed[i]) :
               work' = [work EXCEPT ![i] =
                          [pc |-> "report", id |-> stored[k].id, mine |-> @.mine]]
          /\ UNCHANGED <<forgeVars, stored, org, tokens, results, doc, lastId,
                         faults, scans, excused>>

FindFails(i) == work[i].pc = "find" /\ Fails(i)

(* reportCmd resolves the run id again: it may have been deleted.          *)
Report(i) ==
  /\ work[i].pc = "report"
  /\ \E k \in DOMAIN stored :
       /\ stored[k].id = work[i].id
       /\ Return(i, [results[i] EXCEPT !.report = ReportOf[stored[k].target]])
  /\ UNCHANGED <<forgeVars, stored, org, doc, lastId, faults, scans, excused>>

ReportFails(i) == work[i].pc = "report" /\ Fails(i)

(* wg.Wait, and the document.                                              *)
Finish ==
  /\ org.pc = "pool" /\ org.next > Len(listed)
  /\ \A i \in DOMAIN work : work[i].pc = "done"
  /\ org' = [org EXCEPT !.pc = "done"]
  /\ doc' = BuildOrgReport(results)
  /\ UNCHANGED <<forgeVars, stored, tokens, work, results, lastId, faults, scans, excused>>

-----------------------------------------------------------------------------
(* The rest of the world.                                                  *)

OtherScan(r) ==
  /\ org.pc \in {"look", "pool"} /\ WriteRun(r)
  /\ UNCHANGED <<forgeVars, org, tokens, work, results, doc, faults, scans, excused>>

(* A clean in another terminal.                                            *)
Delete(i) ==
  /\ org.pc = "pool" /\ faults < MaxFaults
  /\ stored' = RemoveAt(stored, i)
  /\ faults' = faults + 1 /\ excused' = excused \cup {stored[i].target}
  /\ UNCHANGED <<forgeVars, org, tokens, work, results, doc, lastId, scans>>

Die ==
  /\ org.pc = "pool" /\ faults < MaxFaults
  /\ org' = [org EXCEPT !.pc = "dead"] /\ faults' = faults + 1
  /\ tokens' = 0 /\ work' = <<>> /\ results' = <<>>
  /\ UNCHANGED <<forgeVars, stored, doc, lastId, scans, excused>>

Restart ==
  /\ org.pc = "dead"
  /\ org' = Fresh /\ Listing
  /\ UNCHANGED <<stored, tokens, work, results, doc, lastId, faults, scans, excused>>

Goroutine ==
  /\ org.pc = "pool"
  /\ \E i \in DOMAIN work :
       ScanStores(i) \/ ScanFails(i) \/ Find(i) \/ FindFails(i) \/ Report(i) \/ ReportFails(i)

OrgStep == Respond \/ Listed \/ LookUp \/ Spawn \/ Goroutine \/ Finish

Next ==
  \/ OrgStep
  \/ PushWhileListing
  \/ \E r \in Repo : OtherScan(r)
  \/ \E i \in DOMAIN stored : Delete(i)
  \/ Die \/ Restart

(* Every request and every scan has a timeout, so the process goes on.     *)
FleetSpec == Init /\ [][Next]_vars /\ WF_vars(OrgStep)

-----------------------------------------------------------------------------
(* "A failure is REPORTED, never dropped", and a listing is complete or an *)
(* error: when the document is there, every repository that was asked for  *)
(* and was not itself pushed to during the listing is in it, as a row or   *)
(* as a failure, even though pushes shift the pages under the listing.     *)
(* The limit and the twentieth page are the only ways to leave one out.    *)
Cut == Full(listed) \/ Cardinality(Repo) > MaxPages * PerPage
Names == {doc.repos[i].repo : i \in DOMAIN doc.repos} \cup Range(doc.failures)
EveryRepositoryIsCounted ==
  org.pc = "done" =>
    /\ \/ Cut
       \/ \A r \in Repo \ pushed : Wanted(r) => r \in Names
    /\ Names = Range(listed)
    /\ doc.total = Len(listed) /\ doc.total = doc.scanned + doc.failed
    /\ doc.scanned = doc.graded + doc.ungraded /\ doc.scanned = Len(doc.repos)
    /\ doc.empty <= doc.ungraded

(* An organisation's run is told apart from all others in one database: a  *)
(* row reports a run of its own repository, and after a scan that scan or  *)
(* a later one, unless that very run was deleted in between.               *)
Reported(i) == work[i].pc \in {"report", "done"} /\ work[i].id # 0
OwnReport ==
  \A i \in DOMAIN work : Reported(i) =>
    /\ work[i].id < work[i].mine =>
         \A k \in DOMAIN stored : stored[k].id # work[i].mine
    /\ \A k \in DOMAIN stored :
         stored[k].id = work[i].id => stored[k].target = listed[i]

(* "It is RESUMABLE": a repository whose run an earlier, interrupted       *)
(* process stored is not scanned again by the next, unless its run was     *)
(* deleted, the list named it twice, or it was older than the look.        *)
ResumeDoesNotRepeat ==
  ~Refresh => \A r \in Repo \ excused : scans[r] <= 1

(* The process ends: with a document, with an error, or killed.  A token   *)
(* that is not given back stops the loop that starts the goroutines.       *)
OrgEnds == org.pc = "listing" ~> org.pc \in {"done", "failed", "dead"}
==============================================================================
