------------------------------- MODULE Resolver ------------------------------
(***************************************************************************)
(* internal/resolve: how concurrent callers of the npm resolver get one    *)
(* package's packument, from the in-process memo, from the blob cache by   *)
(* way of the durable record, or by a download that callers of the same    *)
(* form share through singleflight.                                        *)
(*                                                                         *)
(* The registry serves a body in two forms, abbreviated and full; only the *)
(* full one carries publish times.  A body is named by its hash, the pair  *)
(* of the revision it shows and its form.  r.mu and the singleflight mutex *)
(* are never held across a download or a blob read (under r.mu, only the   *)
(* local database is asked): each critical section is one action.          *)
(***************************************************************************)
EXTENDS Integers, FiniteSets

CONSTANTS
  Caller,
  NeedPublished,     \* whether the process answers an --as-of query
  MaxAge,            \* --max-metadata-age
  Fallible,          \* whether downloads and the durable record may fail
  None,
  MaxClock, MaxRev, MaxExits, MaxCalls   \* bounds of the model

ASSUME ResolverAssumption ==
  /\ NeedPublished \in BOOLEAN /\ Fallible \in BOOLEAN
  /\ MaxAge \in Nat /\ MaxClock \in Nat /\ MaxRev \in Nat
  /\ MaxExits \in Nat /\ MaxCalls \in Nat

Form == BOOLEAN      \* TRUE is the full form
Body == [rev : 0..MaxRev, full : Form]
Observation == [body : Body, at : 0..MaxClock]

ASSUME NoneAssumption == None \notin Body \cup Observation

VARIABLES
  clock, rev,        \* the time, and the revision the registry is at
  memo,              \* the last observation this process knows of
  docs,              \* the decoded document of each form
  vers,              \* parsed version lists: [body, need, from], from being
                     \* the body the list was made from
  flights,           \* the singleflight map, by form
  blobs, durable,    \* what outlives the process: bodies and observations
  proc,              \* the callers
  exits, calls       \* how often the process ended, and was called

shared == <<memo, docs, vers, flights>>
disk   == <<blobs, durable>>
world  == <<clock, rev, exits, calls>>
vars   == <<shared, disk, world, proc>>

(* A caller: what it wants, whether it leads a flight, the observation it  *)
(* is about to read the blob of, the body in its hands, the key it will    *)
(* file the version list under, and whether it failed.                     *)
Resting == [pc |-> "idle", op |-> "none", want |-> FALSE, leads |-> FALSE,
            seen |-> None, doc |-> None, key |-> None, err |-> FALSE]
Returned(doc, err) == [Resting EXCEPT !.pc = "returned", !.doc = doc, !.err = err]
NoFlight == [state |-> "none", doc |-> None, err |-> FALSE]

Init ==
  /\ clock = 0 /\ rev = 0 /\ exits = 0 /\ calls = 0
  /\ memo = None /\ docs = [f \in Form |-> None] /\ vers = {}
  /\ flights = [f \in Form |-> NoFlight]
  /\ blobs = {} /\ durable = {}
  /\ proc = [c \in Caller |-> Resting]

-----------------------------------------------------------------------------
(* The two entry points, both through fetch.                               *)

Call(c, op, want) ==
  /\ proc[c].pc \in {"idle", "returned"} /\ calls < MaxCalls
  /\ calls' = calls + 1
  /\ proc' = [proc EXCEPT ![c] =
       [Resting EXCEPT !.pc = "look", !.op = op, !.want = want]]
  /\ UNCHANGED <<shared, disk, clock, rev, exits>>

Versions(c)     == Call(c, "versions", NeedPublished)
Requirements(c) == Call(c, "requirements", FALSE)

(* What fetch does with a document, and with the lack of one: the leader   *)
(* of a flight settles it, anyone else answers or joins the flight.        *)
Hit(p, doc) ==
  [p EXCEPT !.pc = IF p.leads THEN "settle" ELSE "answer", !.doc = doc, !.seen = None]
Miss(p) ==
  [p EXCEPT !.pc = IF p.leads THEN "get" ELSE "join", !.seen = None]
Fails(p) == [p EXCEPT !.pc = "settle", !.err = TRUE, !.doc = None]

-----------------------------------------------------------------------------
(* cached                                                                  *)

Latest == {o \in durable : \A q \in durable : q.at <= o.at}

Usable(o, want) ==
  o # None /\ (want => o.body.full) /\ clock - o.at < MaxAge

(* The first critical section: the memo, refilled from the durable record  *)
(* in a cold process.  A query that fails is taken for no record.          *)
Look(c) ==
  LET p == proc[c] IN
  /\ p.pc = "look"
  /\ \E o \in IF memo # None \/ durable = {} THEN {memo}
              ELSE Latest \cup (IF Fallible THEN {None} ELSE {}) :
       /\ memo' = o
       /\ proc' = [proc EXCEPT ![c] =
            IF ~Usable(o, p.want) THEN Miss(p)
            ELSE IF docs[o.body.full] # None THEN Hit(p, docs[o.body.full])
            ELSE [p EXCEPT !.pc = "blob", !.seen = o]]
  /\ UNCHANGED <<docs, vers, flights, disk, world>>

(* The blob is read with no lock held, then filed as the form's document.  *)
ReadBlob(c) ==
  LET p == proc[c] IN
  /\ p.pc = "blob"
  /\ IF p.seen.body \in blobs
       THEN /\ docs' = [docs EXCEPT ![p.seen.body.full] = p.seen.body]
            /\ proc' = [proc EXCEPT ![c] = Hit(p, p.seen.body)]
       ELSE /\ proc' = [proc EXCEPT ![c] = Miss(p)]
            /\ UNCHANGED docs
  /\ UNCHANGED <<memo, vers, flights, disk, world>>

-----------------------------------------------------------------------------
(* singleflight.Do                                                         *)

(* Mutant: the flight key leaves out the form.                             *)
FlightOf_NoForm(want) == FALSE
FlightOf(want) == want

(* Mutant: every caller leads a flight of its own.                         *)
Join_Alone(c) ==
  /\ proc[c].pc = "join"
  /\ proc' = [proc EXCEPT ![c].pc = "look", ![c].leads = TRUE]
  /\ flights' = [flights EXCEPT ![FlightOf(proc[c].want)].state = "running"]
  /\ UNCHANGED <<memo, docs, vers, disk, world>>

(* The first caller leads and looks again; one that comes while the flight *)
(* runs waits; one that comes before a finished flight is removed shares   *)
(* its outcome.                                                            *)
Join(c) ==
  LET f == flights[FlightOf(proc[c].want)] IN
  /\ proc[c].pc = "join"
  /\ CASE f.state = "none" ->
            /\ flights' = [flights EXCEPT ![FlightOf(proc[c].want)].state = "running"]
            /\ proc' = [proc EXCEPT ![c].pc = "look", ![c].leads = TRUE]
       [] f.state = "running" ->
            /\ proc' = [proc EXCEPT ![c].pc = "wait"] /\ UNCHANGED flights
       [] OTHER ->
            /\ proc' = [proc EXCEPT ![c].pc = "answer", ![c].doc = f.doc, ![c].err = f.err]
            /\ UNCHANGED flights
  /\ UNCHANGED <<memo, docs, vers, disk, world>>

(* Mutant: a leader that failed returns before wg.Done.                    *)
Settle_OnlyOnSuccess(c) ==
  LET k == FlightOf(proc[c].want) IN
  /\ proc[c].pc = "settle"
  /\ flights' = [flights EXCEPT ![k] =
       [state |-> "done", doc |-> proc[c].doc, err |-> proc[c].err]]
  /\ proc' = [w \in Caller |->
       IF w = c THEN [proc[c] EXCEPT !.pc = "remove"]
       ELSE IF proc[w].pc = "wait" /\ FlightOf(proc[w].want) = k /\ ~proc[c].err
         THEN [proc[w] EXCEPT !.pc = "answer", !.doc = proc[c].doc]
         ELSE proc[w]]
  /\ UNCHANGED <<memo, docs, vers, disk, world>>

(* wg.Done: the outcome is published and whoever waits for it goes on.     *)
Settle(c) ==
  LET k == FlightOf(proc[c].want) IN
  /\ proc[c].pc = "settle"
  /\ flights' = [flights EXCEPT ![k] =
       [state |-> "done", doc |-> proc[c].doc, err |-> proc[c].err]]
  /\ proc' = [w \in Caller |->
       IF w = c THEN [proc[c] EXCEPT !.pc = "remove"]
       ELSE IF proc[w].pc = "wait" /\ FlightOf(proc[w].want) = k
         THEN [proc[w] EXCEPT !.pc = "answer", !.doc = proc[c].doc, !.err = proc[c].err]
         ELSE proc[w]]
  /\ UNCHANGED <<memo, docs, vers, disk, world>>

RemoveFlight(c) ==
  /\ proc[c].pc = "remove"
  /\ flights' = [flights EXCEPT ![FlightOf(proc[c].want)] = NoFlight]
  /\ proc' = [proc EXCEPT ![c].pc = "answer", ![c].leads = FALSE]
  /\ UNCHANGED <<memo, docs, vers, disk, world>>

-----------------------------------------------------------------------------
(* download                                                                *)

Get(c) ==
  LET body == [rev |-> rev, full |-> proc[c].want] IN
  /\ proc[c].pc = "get"
  /\ \/ proc' = [proc EXCEPT ![c].pc = "put", ![c].doc = body]
     \/ Fallible /\ proc' = [proc EXCEPT ![c] = Fails(@)]
  /\ UNCHANGED <<shared, disk, world>>

(* Mutant: a blob that could not be written is taken for stored.           *)
PutBlob_Skipped(c) ==
  /\ proc[c].pc = "put"
  /\ proc' = [proc EXCEPT ![c].pc = "store"]
  /\ UNCHANGED <<shared, disk, world>>

PutBlob(c) ==
  /\ proc[c].pc = "put"
  /\ \/ /\ blobs' = blobs \cup {proc[c].doc}
        /\ proc' = [proc EXCEPT ![c].pc = "store"]
     \/ /\ Fallible
        /\ proc' = [proc EXCEPT ![c] = Fails(@)]
        /\ UNCHANGED blobs
  /\ UNCHANGED <<shared, durable, world>>

(* A body that does not decode leaves its blob behind and nothing else.    *)
DecodeFails(c) ==
  /\ Fallible /\ proc[c].pc = "store"
  /\ proc' = [proc EXCEPT ![c] = Fails(@)]
  /\ UNCHANGED <<shared, disk, world>>

Store(c) ==
  LET o == [body |-> proc[c].doc, at |-> clock] IN
  /\ proc[c].pc = "store"
  /\ memo' = o
  /\ docs' = [docs EXCEPT ![proc[c].want] = proc[c].doc]
  /\ proc' = [proc EXCEPT ![c].pc = "record", ![c].seen = o]
  /\ UNCHANGED <<vers, flights, disk, world>>

RecordPackument(c) ==
  /\ proc[c].pc = "record"
  /\ \/ /\ durable' = durable \cup {proc[c].seen}
        /\ proc' = [proc EXCEPT ![c].pc = "settle", ![c].seen = None]
     \/ /\ Fallible
        /\ proc' = [proc EXCEPT ![c] = [Fails(@) EXCEPT !.seen = None]]
        /\ UNCHANGED durable
  /\ UNCHANGED <<shared, blobs, world>>

-----------------------------------------------------------------------------
(* What is done with the answer of fetch.                                  *)

Return(c) ==
  /\ proc[c].pc = "answer" /\ (proc[c].err \/ proc[c].op = "requirements")
  /\ proc' = [proc EXCEPT ![c] = Returned(proc[c].doc, proc[c].err)]
  /\ UNCHANGED <<shared, disk, world>>

(* Versions looks for a list under the hash the memo has by now ...        *)
LookList(c) ==
  LET key   == memo.body
      lists == {l \in vers : l.body = key /\ l.need = proc[c].want} IN
  /\ proc[c].pc = "answer" /\ ~proc[c].err /\ proc[c].op = "versions"
  /\ IF lists = {} THEN proc' = [proc EXCEPT ![c].pc = "list", ![c].key = key]
     ELSE \E l \in lists :
            proc' = [proc EXCEPT ![c] = Returned(l.from, FALSE)]
  /\ UNCHANGED <<shared, disk, world>>

(* ... and files the one it makes of its document under it.                *)
FileList(c) ==
  LET p == proc[c] IN
  /\ p.pc = "list"
  /\ vers' = {l \in vers : l.body # p.key \/ l.need # p.want}
               \cup {[body |-> p.key, need |-> p.want, from |-> p.doc]}
  /\ proc' = [proc EXCEPT ![c] = Returned(p.doc, FALSE)]
  /\ UNCHANGED <<memo, docs, flights, disk, world>>

-----------------------------------------------------------------------------
(* The environment: time passes, the package is published anew, and the    *)
(* process ends, at any instant, and is started again.                     *)

Tick ==
  /\ clock < MaxClock /\ clock' = clock + 1
  /\ UNCHANGED <<shared, disk, rev, exits, calls, proc>>

Publish ==
  /\ rev < MaxRev /\ rev' = rev + 1
  /\ UNCHANGED <<shared, disk, clock, exits, calls, proc>>

Exit ==
  /\ exits < MaxExits /\ exits' = exits + 1
  /\ memo' = None /\ docs' = [f \in Form |-> None] /\ vers' = {}
  /\ flights' = [f \in Form |-> NoFlight]
  /\ proc' = [c \in Caller |-> Resting]
  /\ UNCHANGED <<disk, clock, rev, calls>>

Step(c) ==
  \/ Look(c) \/ ReadBlob(c) \/ Join(c) \/ Settle(c) \/ RemoveFlight(c)
  \/ Get(c) \/ PutBlob(c) \/ DecodeFails(c) \/ Store(c)
  \/ RecordPackument(c)
  \/ Return(c) \/ LookList(c) \/ FileList(c)

Next ==
  \/ \E c \in Caller : Versions(c) \/ Requirements(c) \/ Step(c)
  \/ Tick \/ Publish \/ Exit

(* A goroutine that can go on is scheduled, and an HTTP request ends: it   *)
(* carries the context of the scan, which has a deadline.                  *)
ResolverSpec == Init /\ [][Next]_vars /\ \A c \in Caller : WF_vars(Step(c))


-----------------------------------------------------------------------------
(* Properties.                                                             *)

Pcs == {"idle", "look", "blob", "join", "wait", "settle", "remove", "get", "put",
        "store", "record", "answer", "list", "returned"}
(* Every variable stays in its type, and whoever is about to hand on a     *)
(* body has one.                                                           *)
TypeOK ==
  /\ clock \in 0..MaxClock /\ rev \in 0..MaxRev /\ exits \in 0..MaxExits
  /\ calls \in 0..MaxCalls /\ blobs \subseteq Body /\ durable \subseteq Observation
  /\ memo \in Observation \cup {None}
  /\ docs \in [Form -> Body \cup {None}]
  /\ vers \subseteq [body : Body, need : BOOLEAN, from : Body]
  /\ flights \in [Form -> [state : {"none", "running", "done"},
                           doc : Body \cup {None}, err : BOOLEAN]]
  /\ proc \in [Caller ->
       [pc : Pcs, op : {"none", "versions", "requirements"}, want : Form,
        leads : BOOLEAN, seen : Observation \cup {None}, doc : Body \cup {None},
        key : Body \cup {None}, err : BOOLEAN]]
  /\ \A c \in Caller :
       /\ proc[c].pc \in {"put", "store", "record", "list"} => proc[c].doc # None
       /\ proc[c].pc \in {"answer", "returned", "settle"} /\ ~proc[c].err =>
            proc[c].doc # None
       /\ proc[c].pc \in {"blob", "record"} => proc[c].seen # None

(* A download outlives no process, but the durable record does: whatever   *)
(* observation it names, the body is in the blob cache, though the process *)
(* may end between any two steps.                                          *)
DurableIsBacked == \A o \in durable : o.body \in blobs

(* A flight in the map is led by exactly one caller that has not removed   *)
(* it yet, and is running as long as that caller works: two callers never  *)
(* download the same form at once, nobody waits for a flight that is over, *)
(* and no outcome, a failure least of all, outlives its flight.            *)
Leaders(k) == {c \in Caller : proc[c].leads /\ FlightOf(proc[c].want) = k}
FlightHasOneLeader ==
  \A k \in Form :
    /\ Cardinality(Leaders(k)) = (IF flights[k].state = "none" THEN 0 ELSE 1)
    /\ \A c \in Leaders(k) :
         (flights[k].state = "running") <=> (proc[c].pc # "remove")
    /\ \A c \in Caller : proc[c].pc = "wait" /\ FlightOf(proc[c].want) = k =>
                           flights[k].state = "running"

(* The promise of MetadataSource, step by step.  A body counts as served   *)
(* from the moment it is in the blob cache.                                *)
CallOf(p) ==
  CASE p.pc = "idle"     -> [state |-> "none"]
    [] p.pc = "returned" -> IF p.err THEN [state |-> "refused"]
                            ELSE [state |-> "answered", body |-> p.doc]
    [] OTHER             -> [state |-> "asked", full |-> p.want]
Source == INSTANCE MetadataSource WITH
            FullBody <- {b \in Body : b.full}, served <- blobs,
            call <- [c \in Caller |-> CallOf(proc[c])]

(* The resolver implements it: with memo, blobs, durable record and shared *)
(* downloads between them, each answer is a body the registry served, in a *)
(* form that suffices for the call.                                        *)
KeepsPromise == Source!Promise

(* Every call ends, a waiter's too, whatever becomes of the download.      *)
EveryCallAnswered == Source!AllAnswered

(* As Versions has it, "keyed on the BODY hash, so a re-fetched packument  *)
(* cannot reuse the list derived from the previous one".                   *)
ListMatchesBody == \A l \in vers : l.from = l.body
==============================================================================
