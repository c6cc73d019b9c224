---------------------------- MODULE RegistryProofs ---------------------------
(***************************************************************************)
(* What is asked of a registry: the bodies its metadata comes in, and the  *)
(* versions a constraint admits of those it lists.                         *)
(*                                                                         *)
(* First what the resolver promises, for every number of callers, any clock*)
(* and any number of revisions, exits and calls.  The invariant says of    *)
(* each place a body can be in (the hands of a caller, a finished flight, a*)
(* document, a version list, the durable record) that the blob cache has   *)
(* it, and that its form suffices for whoever may be given it from there.  *)
(* That flights have one leader is proved on top of it, and with both, that*)
(* each step is a step of MetadataSource or none.                          *)
(*                                                                         *)
(* Then what a scan enumerates, for every set of requests and releases: the*)
(* orders of versions; the comparators a requirement is turned into, scheme*)
(* by scheme, against what it means; and the selection, newest first.      *)
(***************************************************************************)
EXTENDS Resolver, VersionsReference, FiniteSetTheorems, TLAPS

Flight == [state : {"none", "running", "done"}, doc : Body \cup {None}, err : BOOLEAN]
Proc   == [pc : Pcs, op : {"none", "versions", "requirements"}, want : Form,
           leads : BOOLEAN, seen : Observation \cup {None}, doc : Body \cup {None},
           key : Body \cup {None}, err : BOOLEAN]

(* A body that can be given to a call for that form.                       *)
Serves(doc, want, stored) == doc \in stored /\ (want => doc.full)

(* A caller that holds a body it did not just download, ...                *)
Holding(p) == \/ p.pc \in {"store", "record", "list"}
              \/ p.pc \in {"settle", "remove", "answer"} /\ ~p.err
(* ... and one that leads a flight and works for it.                       *)
Working == {"settle", "remove", "get", "put", "store", "record"}

(* What is true of one caller, given the memo and the blob cache.          *)
CallerOK(p, m, stored) ==
  /\ p \in Proc
  /\ p.pc \in {"put", "store"} => p.doc # None /\ p.doc.full = p.want
  /\ Holding(p) => Serves(p.doc, p.want, stored)
  /\ Holding(p) /\ p.pc # "store" => m # None
  /\ p.pc = "blob" => p.seen # None /\ (p.want => p.seen.body.full) /\ m # None
  /\ p.pc = "record" => p.seen # None /\ p.seen.body = p.doc
  /\ p.pc = "list" => p.key # None
  /\ p.pc = "returned" /\ ~p.err => p.doc # None
  /\ p.pc \in Working => p.leads
  /\ p.leads => p.pc \in Working \cup {"look", "blob"}

(* ... of a flight, a document and a version list.                         *)
FlightOK(f, want, m, stored) ==
  /\ f \in Flight
  /\ f.state = "done" /\ ~f.err => Serves(f.doc, want, stored) /\ m # None
DocOK(doc, form, m, stored) ==
  doc = None \/ (doc \in Body /\ doc \in stored /\ doc.full = form /\ m # None)
ListOK(l, stored) ==
  l \in [body : Body, need : BOOLEAN, from : Body] /\ Serves(l.from, l.need, stored)

CountersOK ==
  /\ clock \in 0..MaxClock /\ rev \in 0..MaxRev
  /\ exits \in 0..MaxExits /\ calls \in 0..MaxCalls
CacheOK ==
  /\ memo \in Observation \cup {None}
  /\ DOMAIN docs = Form /\ docs = [f \in Form |-> docs[f]]
  /\ \A f \in Form : DocOK(docs[f], f, memo, blobs)
  /\ \A l \in vers : ListOK(l, blobs)
DiskOK ==
  /\ blobs \subseteq Body /\ durable \subseteq Observation
  /\ DurableIsBacked
FlightsOK ==
  /\ flights \in [Form -> Flight]
  /\ \A k \in Form : FlightOK(flights[k], k, memo, blobs)
CallersOK ==
  /\ proc \in [Caller -> Proc]
  /\ \A c \in Caller : CallerOK(proc[c], memo, blobs)

ResolverInv == CountersOK /\ CacheOK /\ DiskOK /\ FlightsOK /\ CallersOK

(* Records of the model that are not the other sort.                       *)
LEMMA Sorts ==
  /\ None \notin Body /\ None \notin Observation
  /\ \A b \in Body : b.full \in BOOLEAN /\ b.rev \in 0..MaxRev
  /\ \A o \in Observation : o.body \in Body /\ o.at \in 0..MaxClock
  /\ Form = BOOLEAN
BY NoneAssumption DEF Body, Observation, Form

(* The invariant contains the types.                                       *)
LEMMA InvGivesTypes == ResolverInv => TypeOK
<1> SUFFICES ASSUME ResolverInv PROVE TypeOK
  OBVIOUS
<1> USE DEF ResolverInv
<1>1. docs \in [Form -> Body \cup {None}]
  BY DEF CacheOK, DocOK
<1>2. vers \subseteq [body : Body, need : BOOLEAN, from : Body]
  BY DEF CacheOK, ListOK
<1>3. \A c \in Caller :
        /\ proc[c].pc \in {"put", "store", "record", "list"} => proc[c].doc # None
        /\ proc[c].pc \in {"answer", "returned", "settle"} /\ ~proc[c].err =>
             proc[c].doc # None
        /\ proc[c].pc \in {"blob", "record"} => proc[c].seen # None
  BY Sorts DEF CallersOK, CallerOK, Holding, Serves, DiskOK
<1> QED BY <1>1, <1>2, <1>3 DEF TypeOK, CountersOK, CacheOK, DiskOK, FlightsOK,
                                CallersOK, Flight, Proc

(* The states a caller and a flight start from.                            *)
LEMMA StartOK ==
  ASSUME NEW m, NEW stored
  PROVE  /\ CallerOK(Resting, m, stored) /\ Resting \in Proc
         /\ NoFlight \in Flight
         /\ \A k : FlightOK(NoFlight, k, m, stored)
BY DEF Resting, Proc, Pcs, Form, CallerOK, Holding, Working, NoFlight, Flight, FlightOK

(* It holds when the process starts.                                       *)
LEMMA InitInv == Init => ResolverInv
<1> SUFFICES ASSUME Init PROVE ResolverInv
  OBVIOUS
<1>1. CountersOK
  BY ResolverAssumption DEF Init, CountersOK
<1>2. CacheOK /\ DiskOK
  BY DEF Init, CacheOK, DiskOK, DocOK, DurableIsBacked
<1>3. FlightsOK /\ CallersOK
  BY StartOK DEF Init, FlightsOK, CallersOK
<1> QED BY <1>1, <1>2, <1>3 DEF ResolverInv

(* What is true of the others stays true as blobs are added, and while the *)
(* process lives it does not forget that it knows an observation.          *)
LEMMA StaysOK ==
  ASSUME NEW m, NEW n, NEW few, NEW many, few \subseteq many, m # None => n # None
  PROVE  /\ \A p : CallerOK(p, m, few) => CallerOK(p, n, many)
         /\ \A f, k : FlightOK(f, k, m, few) => FlightOK(f, k, n, many)
         /\ \A d, k : DocOK(d, k, m, few) => DocOK(d, k, n, many)
         /\ \A l : ListOK(l, few) => ListOK(l, many)
BY DEF CallerOK, FlightOK, DocOK, ListOK, Serves


Grows == blobs \subseteq blobs' /\ (memo # None => memo' # None)

(* One caller moves to a sound record, the others stay.                    *)
LEMMA OneCaller ==
  ASSUME CallersOK, NEW c \in Caller, NEW rec, proc' = [proc EXCEPT ![c] = rec],
         CallerOK(rec, memo', blobs'), Grows
  PROVE  CallersOK'
<1>1. rec \in Proc
  BY DEF CallerOK
<1>2. \A d \in Caller : CallerOK(proc[d], memo', blobs')
  BY StaysOK DEF CallersOK, Grows
<1> QED BY <1>1, <1>2 DEF CallersOK

(* Documents and lists that are not touched stay sound.                    *)
LEMMA SameCache ==
  ASSUME CacheOK, UNCHANGED <<docs, vers>>, memo' \in Observation \cup {None}, Grows
  PROVE  CacheOK'
<1>1. \A f \in Form : DocOK(docs[f], f, memo', blobs')
  BY StaysOK DEF CacheOK, Grows
<1>2. \A l \in vers : ListOK(l, blobs')
  BY StaysOK DEF CacheOK, Grows
<1> QED BY <1>1, <1>2 DEF CacheOK

(* And so do flights.                                                      *)
LEMMA SameFlights ==
  ASSUME FlightsOK, UNCHANGED flights, Grows
  PROVE  FlightsOK'
<1>1. \A k \in Form : FlightOK(flights[k], k, memo', blobs')
  BY StaysOK DEF FlightsOK, Grows
<1> QED BY <1>1 DEF FlightsOK

(* The records that hit, miss and failure leave.                           *)
LEMMA HitOK ==
  ASSUME NEW p, NEW doc \in Body, NEW m, NEW stored,
         CallerOK(p, m, stored), p.pc \in {"look", "blob"}, m # None,
         Serves(doc, p.want, stored)
  PROVE  CallerOK(Hit(p, doc), m, stored)
<1>1. /\ p \in Proc /\ p.leads \in BOOLEAN
      /\ Hit(p, doc) \in Proc
      /\ Hit(p, doc).pc = IF p.leads THEN "settle" ELSE "answer"
      /\ Hit(p, doc).doc = doc /\ Hit(p, doc).want = p.want /\ Hit(p, doc).leads = p.leads
  BY DEF CallerOK, Hit, Proc, Pcs
<1> HIDE DEF Hit
<1> QED BY <1>1 DEF CallerOK, Holding, Working

(* A miss is sound whatever the memo.                                      *)
LEMMA MissOK ==
  ASSUME NEW p, NEW m, NEW n, NEW stored,
         CallerOK(p, m, stored), p.pc \in {"look", "blob"}
  PROVE  CallerOK(Miss(p), n, stored)
<1>1. /\ p \in Proc /\ p.leads \in BOOLEAN
      /\ Miss(p) \in Proc
      /\ Miss(p).pc = IF p.leads THEN "get" ELSE "join"
      /\ Miss(p).leads = p.leads
  BY DEF CallerOK, Miss, Proc, Pcs
<1> QED BY <1>1 DEF CallerOK, Holding, Working

(* And a failure, with or without the observation in hand.                 *)
LEMMA FailsOK ==
  ASSUME NEW p, NEW m, NEW stored,
         CallerOK(p, m, stored), p.pc \in Working
  PROVE  CallerOK(Fails(p), m, stored) /\ CallerOK([Fails(p) EXCEPT !.seen = None], m, stored)
<1>1. /\ p \in Proc /\ p.leads
      /\ Fails(p) \in Proc
      /\ Fails(p).pc = "settle" /\ Fails(p).err /\ Fails(p).leads = p.leads
      /\ [Fails(p) EXCEPT !.seen = None] \in Proc
      /\ [Fails(p) EXCEPT !.seen = None].pc = "settle" /\ [Fails(p) EXCEPT !.seen = None].err
      /\ [Fails(p) EXCEPT !.seen = None].leads = p.leads
  BY DEF CallerOK, Fails, Proc, Pcs
<1> QED BY <1>1 DEF CallerOK, Holding, Working

(* The first critical section of cached, with its refill of the memo.      *)
LEMMA LookKeeps ==
  ASSUME ResolverInv, NEW c \in Caller, Look(c)
  PROVE  ResolverInv'
<1> DEFINE p == proc[c]
<1>1. PICK o \in IF memo # None \/ durable = {} THEN {memo}
                 ELSE Latest \cup (IF Fallible THEN {None} ELSE {}) :
         /\ memo' = o
         /\ proc' = [proc EXCEPT ![c] =
              IF ~Usable(o, p.want) THEN Miss(p)
              ELSE IF docs[o.body.full] # None THEN Hit(p, docs[o.body.full])
              ELSE [p EXCEPT !.pc = "blob", !.seen = o]]
  BY DEF Look
<1>2. /\ UNCHANGED <<docs, vers, flights, blobs, durable, clock, rev, exits, calls>>
      /\ p.pc = "look" /\ CallerOK(p, memo, blobs)
  BY DEF Look, disk, world, ResolverInv, CallersOK
<1>3. o \in Observation \cup {None} /\ (memo # None => o = memo)
  BY <1>1 DEF Latest, ResolverInv, DiskOK, CacheOK
<1>4. Grows
  BY <1>1, <1>2, <1>3 DEF Grows
<1>5. CASE ~Usable(o, p.want)
  <2>1. CallerOK(Miss(p), memo', blobs')
    BY <1>2, MissOK
  <2>2. proc' = [proc EXCEPT ![c] = Miss(p)]
    BY <1>1, <1>5
  <2>3. CallersOK'
    BY <1>4, <2>1, <2>2, OneCaller DEF ResolverInv
  <2> QED BY <1>1, <1>2, <1>3, <1>4, <2>3, SameCache, SameFlights
          DEF ResolverInv, CountersOK, DiskOK, DurableIsBacked
<1>6. CASE Usable(o, p.want) /\ docs[o.body.full] # None
  <2>1. o # None /\ o \in Observation /\ o.body.full \in Form /\ (p.want => o.body.full)
    BY <1>3, <1>6, Sorts DEF Usable
  <2>2. /\ docs[o.body.full] \in Body /\ docs[o.body.full] \in blobs
        /\ docs[o.body.full].full = o.body.full
    BY <1>6, <2>1 DEF ResolverInv, CacheOK, DocOK
  <2>3. CallerOK(p, memo', blobs')
    BY <1>2, <1>4, StaysOK DEF Grows
  <2>4. CallerOK(Hit(p, docs[o.body.full]), memo', blobs')
    BY <1>1, <1>2, <2>1, <2>2, <2>3, HitOK DEF Serves
  <2>5. proc' = [proc EXCEPT ![c] = Hit(p, docs[o.body.full])]
    BY <1>1, <1>6
  <2>6. CallersOK'
    BY <1>4, <2>4, <2>5, OneCaller DEF ResolverInv
  <2> QED BY <1>1, <1>2, <1>3, <1>4, <2>6, SameCache, SameFlights
          DEF ResolverInv, CountersOK, DiskOK, DurableIsBacked
<1>7. CASE Usable(o, p.want) /\ docs[o.body.full] = None
  <2> DEFINE rec == [p EXCEPT !.pc = "blob", !.seen = o]
  <2>1. o # None /\ o \in Observation /\ (p.want => o.body.full)
    BY <1>3, <1>7 DEF Usable
  <2>2. /\ rec \in Proc /\ rec.pc = "blob" /\ rec.seen = o
        /\ rec.want = p.want /\ rec.leads = p.leads
    BY <1>2, <2>1 DEF CallerOK, Proc, Pcs
  <2>3. proc' = [proc EXCEPT ![c] = rec]
    BY <1>1, <1>7
  <2> HIDE DEF rec
  <2>4. CallerOK(rec, memo', blobs')
    BY <1>1, <2>1, <2>2 DEF CallerOK, Holding, Working
  <2>5. CallersOK'
    BY <1>4, <2>3, <2>4, OneCaller DEF ResolverInv
  <2> QED BY <1>1, <1>2, <1>3, <1>4, <2>5, SameCache, SameFlights
          DEF ResolverInv, CountersOK, DiskOK, DurableIsBacked
<1> QED BY <1>5, <1>6, <1>7


(* A step that changes nothing but where its caller is, ...                *)
LEMMA OnlyMoves ==
  ASSUME ResolverInv, NEW c \in Caller, NEW rec, proc' = [proc EXCEPT ![c] = rec],
         CallerOK(rec, memo, blobs), UNCHANGED <<shared, disk, world>>
  PROVE  ResolverInv'
<1>1. UNCHANGED <<memo, docs, vers, flights, blobs, durable, clock, rev, exits, calls>>
  BY DEF shared, disk, world
<1>2. Grows
  BY <1>1 DEF Grows
<1>3. CallersOK'
  BY <1>1, <1>2, OneCaller DEF ResolverInv
<1> QED BY <1>1, <1>2, <1>3, SameCache, SameFlights
        DEF ResolverInv, CountersOK, CacheOK, DiskOK, DurableIsBacked

(* A new call starts with nothing in its hands.                            *)
LEMMA CallKeeps ==
  ASSUME ResolverInv, NEW c \in Caller, Versions(c) \/ Requirements(c)
  PROVE  ResolverInv'
<1>1. PICK op \in {"versions", "requirements"}, want \in Form : Call(c, op, want)
  BY ResolverAssumption DEF Versions, Requirements, Form
<1> DEFINE rec == [Resting EXCEPT !.pc = "look", !.op = op, !.want = want]
<1>2. UNCHANGED <<memo, docs, vers, flights, blobs, durable, clock, rev, exits>>
  BY <1>1 DEF Call, shared, disk
<1>3. CallerOK(rec, memo', blobs')
  BY StartOK DEF Resting, CallerOK, Proc, Pcs, Holding, Working
<1>4. Grows
  BY <1>2 DEF Grows
<1>5. proc' = [proc EXCEPT ![c] = rec]
  BY <1>1 DEF Call
<1> HIDE DEF rec
<1>6. CallersOK'
  BY <1>3, <1>4, <1>5, OneCaller DEF ResolverInv
<1>7. CountersOK'
  <2>1. calls < MaxCalls /\ calls' = calls + 1
    BY <1>1 DEF Call
  <2> QED BY <1>2, <2>1, ResolverAssumption DEF CountersOK, ResolverInv
<1> QED BY <1>2, <1>4, <1>6, <1>7, SameCache, SameFlights
        DEF ResolverInv, CacheOK, DiskOK, DurableIsBacked

(* A blob read is filed under its own form.                                *)
LEMMA ReadBlobKeeps ==
  ASSUME ResolverInv, NEW c \in Caller, ReadBlob(c)
  PROVE  ResolverInv'
<1> DEFINE p == proc[c]
           body == p.seen.body
<1>1. /\ UNCHANGED <<memo, vers, flights, blobs, durable, clock, rev, exits, calls>>
      /\ p.pc = "blob" /\ CallerOK(p, memo, blobs)
      /\ p.seen \in Observation /\ body \in Body /\ (p.want => body.full) /\ memo # None
      /\ body.full \in Form
  BY Sorts DEF ReadBlob, disk, world, ResolverInv, CallersOK, CallerOK, Proc
<1>2. Grows
  BY <1>1 DEF Grows
<1>3. CASE body \notin blobs
  <2>1. proc' = [proc EXCEPT ![c] = Miss(p)] /\ docs' = docs
    BY <1>3 DEF ReadBlob
  <2>2. CallerOK(Miss(p), memo, blobs)
    BY <1>1, MissOK
  <2> QED BY <1>1, <2>1, <2>2, OnlyMoves DEF shared, disk, world
<1>4. CASE body \in blobs
  <2>1. proc' = [proc EXCEPT ![c] = Hit(p, body)] /\ docs' = [docs EXCEPT ![body.full] = body]
    BY <1>4 DEF ReadBlob
  <2>2. CallerOK(Hit(p, body), memo, blobs)
    BY <1>1, <1>4, HitOK DEF Serves
  <2>3. CallersOK'
    BY <1>1, <1>2, <2>1, <2>2, OneCaller DEF ResolverInv
  <2>4. CacheOK'
    <3>1. DocOK(body, body.full, memo', blobs')
      BY <1>1, <1>4 DEF DocOK
    <3>2. \A f \in Form : DocOK(docs'[f], f, memo', blobs')
      BY <1>1, <2>1, <3>1 DEF ResolverInv, CacheOK
    <3> QED BY <1>1, <2>1, <3>2 DEF ResolverInv, CacheOK
  <2> QED BY <1>1, <1>2, <2>3, <2>4, SameFlights
          DEF ResolverInv, CountersOK, DiskOK, DurableIsBacked
<1> QED BY <1>3, <1>4

(* Joining gives the lead, a wait, or the outcome of a finished flight.    *)
LEMMA JoinKeeps ==
  ASSUME ResolverInv, NEW c \in Caller, Join(c)
  PROVE  ResolverInv'
<1> DEFINE p == proc[c]
           k == p.want
           f == flights[k]
<1>1. /\ UNCHANGED <<memo, docs, vers, blobs, durable, clock, rev, exits, calls>>
      /\ p.pc = "join" /\ CallerOK(p, memo, blobs) /\ p \in Proc /\ k \in Form /\ ~p.leads
      /\ FlightOK(f, k, memo, blobs) /\ f \in Flight /\ FlightOf(p.want) = k
  BY DEF Join, disk, world, ResolverInv, CallersOK, CallerOK, Proc, Working,
         FlightsOK, FlightOf
<1>2. Grows
  BY <1>1 DEF Grows
<1>3. CASE f.state = "none"
  <2> DEFINE rec == [p EXCEPT !.pc = "look", !.leads = TRUE]
  <2>1. /\ flights' = [flights EXCEPT ![k].state = "running"]
        /\ proc' = [proc EXCEPT ![c].pc = "look", ![c].leads = TRUE]
    BY <1>1, <1>3 DEF Join
  <2>2. proc' = [proc EXCEPT ![c] = rec]
    BY <2>1 DEF ResolverInv, CallersOK
  <2>3. CallerOK(rec, memo, blobs)
    BY <1>1 DEF CallerOK, Proc, Pcs, Holding, Working
  <2> HIDE DEF rec
  <2>4. CallersOK'
    BY <1>1, <1>2, <2>2, <2>3, OneCaller DEF ResolverInv
  <2>5. FlightsOK'
    <3>1. [f EXCEPT !.state = "running"] \in Flight
      BY <1>1 DEF Flight
    <3>2. FlightOK([f EXCEPT !.state = "running"], k, memo, blobs)
      BY <1>1, <3>1 DEF FlightOK, Flight
    <3>3. flights' = [flights EXCEPT ![k] = [f EXCEPT !.state = "running"]]
      BY <2>1 DEF ResolverInv, FlightsOK
    <3> QED BY <1>1, <3>1, <3>2, <3>3 DEF ResolverInv, FlightsOK
  <2> QED BY <1>1, <1>2, <2>4, <2>5, SameCache
          DEF ResolverInv, CountersOK, CacheOK, DiskOK, DurableIsBacked
<1>4. CASE f.state = "running"
  <2> DEFINE rec == [p EXCEPT !.pc = "wait"]
  <2>1. flights' = flights /\ proc' = [proc EXCEPT ![c] = rec]
    BY <1>1, <1>4 DEF Join, ResolverInv, CallersOK
  <2>2. CallerOK(rec, memo, blobs)
    BY <1>1 DEF CallerOK, Proc, Pcs, Holding, Working
  <2> QED BY <1>1, <2>1, <2>2, OnlyMoves DEF shared, disk, world
<1>5. CASE f.state = "done"
  <2> DEFINE rec == [p EXCEPT !.pc = "answer", !.doc = f.doc, !.err = f.err]
  <2>1. flights' = flights
        /\ proc' = [proc EXCEPT ![c].pc = "answer", ![c].doc = f.doc, ![c].err = f.err]
    BY <1>1, <1>5 DEF Join
  <2>2. proc' = [proc EXCEPT ![c] = rec]
    BY <2>1 DEF ResolverInv, CallersOK
  <2>3. /\ rec \in Proc /\ rec.pc = "answer" /\ rec.doc = f.doc /\ rec.err = f.err
        /\ rec.want = k /\ ~rec.leads
    BY <1>1 DEF Proc, Pcs, Flight
  <2> HIDE DEF rec
  <2>4. CallerOK(rec, memo, blobs)
    BY <1>1, <1>5, <2>3 DEF CallerOK, Holding, Working, FlightOK
  <2> QED BY <1>1, <2>1, <2>2, <2>4, OnlyMoves DEF shared, disk, world
<1> QED BY <1>1, <1>3, <1>4, <1>5 DEF Flight

(* The outcome goes to the flight and to all who wait for it.              *)
LEMMA SettleKeeps ==
  ASSUME ResolverInv, NEW c \in Caller, Settle(c)
  PROVE  ResolverInv'
<1> DEFINE p == proc[c]
           k == p.want
           out == [state |-> "done", doc |-> p.doc, err |-> p.err]
<1>1. /\ UNCHANGED <<memo, docs, vers, blobs, durable, clock, rev, exits, calls>>
      /\ p.pc = "settle" /\ CallerOK(p, memo, blobs) /\ p \in Proc /\ k \in Form
      /\ flights' = [flights EXCEPT ![k] = out]
      /\ proc' = [w \in Caller |->
           IF w = c THEN [p EXCEPT !.pc = "remove"]
           ELSE IF proc[w].pc = "wait" /\ proc[w].want = k
             THEN [proc[w] EXCEPT !.pc = "answer", !.doc = p.doc, !.err = p.err]
             ELSE proc[w]]
  BY DEF Settle, disk, world, ResolverInv, CallersOK, CallerOK, Proc, FlightOf
<1>2. Grows
  BY <1>1 DEF Grows
<1>3. FlightsOK'
  <2>1. out \in Flight /\ FlightOK(out, k, memo, blobs)
    BY <1>1 DEF Flight, Proc, FlightOK, CallerOK, Holding
  <2> QED BY <1>1, <2>1 DEF ResolverInv, FlightsOK
<1>4. ASSUME NEW w \in Caller
      PROVE  CallerOK(proc'[w], memo, blobs)
  <2>1. CASE w = c
    <3> DEFINE rec == [p EXCEPT !.pc = "remove"]
    <3>1. proc'[w] = rec
      BY <1>1, <2>1
    <3>2. /\ rec \in Proc /\ rec.pc = "remove" /\ rec.leads = p.leads /\ rec.doc = p.doc
          /\ rec.want = p.want /\ rec.err = p.err
      BY <1>1 DEF Proc, Pcs
    <3> HIDE DEF rec
    <3>3. CallerOK(rec, memo, blobs)
      BY <1>1, <3>2 DEF CallerOK, Holding, Working
    <3> QED BY <3>1, <3>3
  <2>2. CASE w # c /\ proc[w].pc = "wait" /\ proc[w].want = k
    <3> DEFINE rec == [proc[w] EXCEPT !.pc = "answer", !.doc = p.doc, !.err = p.err]
    <3>1. proc'[w] = rec
      BY <1>1, <2>2
    <3>2. CallerOK(proc[w], memo, blobs) /\ proc[w] \in Proc /\ ~proc[w].leads
      BY <2>2 DEF ResolverInv, CallersOK, CallerOK, Working
    <3>3. /\ rec \in Proc /\ rec.pc = "answer" /\ ~rec.leads /\ rec.doc = p.doc
          /\ rec.want = k /\ rec.err = p.err
      BY <1>1, <2>2, <3>2 DEF Proc, Pcs
    <3> HIDE DEF rec
    <3>4. CallerOK(rec, memo, blobs)
      BY <1>1, <3>3 DEF CallerOK, Holding, Working
    <3> QED BY <3>1, <3>4
  <2>3. CASE w # c /\ ~(proc[w].pc = "wait" /\ proc[w].want = k)
    BY <1>1, <2>3 DEF ResolverInv, CallersOK
  <2> QED BY <2>1, <2>2, <2>3
<1>5. CallersOK'
  <2>1. \A w \in Caller : proc'[w] \in Proc
    BY <1>4 DEF CallerOK
  <2>2. proc' \in [Caller -> Proc]
    BY <1>1, <2>1
  <2> QED BY <1>1, <1>4, <2>2 DEF CallersOK
<1> QED BY <1>1, <1>2, <1>3, <1>5, SameCache
        DEF ResolverInv, CountersOK, CacheOK, DiskOK, DurableIsBacked


(* The leader takes its flight out of the map and answers.                 *)
LEMMA RemoveKeeps ==
  ASSUME ResolverInv, NEW c \in Caller, RemoveFlight(c)
  PROVE  ResolverInv'
<1> DEFINE p == proc[c]
           rec == [p EXCEPT !.pc = "answer", !.leads = FALSE]
<1>1. /\ UNCHANGED <<memo, docs, vers, blobs, durable, clock, rev, exits, calls>>
      /\ p.pc = "remove" /\ CallerOK(p, memo, blobs) /\ p \in Proc /\ p.want \in Form
      /\ flights' = [flights EXCEPT ![p.want] = NoFlight]
      /\ proc' = [proc EXCEPT ![c].pc = "answer", ![c].leads = FALSE]
  BY DEF RemoveFlight, disk, world, ResolverInv, CallersOK, CallerOK, Proc, FlightOf
<1>2. Grows
  BY <1>1 DEF Grows
<1>3. FlightsOK'
  BY <1>1, StartOK DEF ResolverInv, FlightsOK
<1>4. proc' = [proc EXCEPT ![c] = rec]
  BY <1>1 DEF ResolverInv, CallersOK
<1>5. /\ rec \in Proc /\ rec.pc = "answer" /\ ~rec.leads /\ rec.doc = p.doc
      /\ rec.want = p.want /\ rec.err = p.err
  BY <1>1 DEF Proc, Pcs
<1> HIDE DEF rec
<1>6. CallerOK(rec, memo', blobs')
  BY <1>1, <1>5 DEF CallerOK, Holding, Working
<1>7. CallersOK'
  BY <1>2, <1>4, <1>6, OneCaller DEF ResolverInv
<1> QED BY <1>1, <1>2, <1>3, <1>7, SameCache
        DEF ResolverInv, CountersOK, CacheOK, DiskOK, DurableIsBacked

(* A download has the form that was wanted.                                *)
LEMMA GetKeeps ==
  ASSUME ResolverInv, NEW c \in Caller, Get(c)
  PROVE  ResolverInv'
<1> DEFINE p == proc[c]
           body == [rev |-> rev, full |-> p.want]
<1>1. /\ UNCHANGED <<shared, disk, world>> /\ p.pc = "get"
      /\ CallerOK(p, memo, blobs) /\ p \in Proc
  BY DEF Get, ResolverInv, CallersOK
<1>2. body \in Body
  BY <1>1 DEF ResolverInv, CountersOK, Body, Proc
<1>3. CASE proc' = [proc EXCEPT ![c].pc = "put", ![c].doc = body]
  <2> DEFINE rec == [p EXCEPT !.pc = "put", !.doc = body]
  <2>1. proc' = [proc EXCEPT ![c] = rec]
    BY <1>3 DEF ResolverInv, CallersOK
  <2>2. /\ rec \in Proc /\ rec.pc = "put" /\ rec.doc = body
        /\ rec.want = p.want /\ rec.leads = p.leads
    BY <1>1, <1>2 DEF Proc, Pcs
  <2>3. body # None /\ body.full = p.want
    BY <1>2, Sorts
  <2> HIDE DEF rec, body
  <2>4. CallerOK(rec, memo, blobs)
    BY <1>1, <2>2, <2>3 DEF CallerOK, Holding, Working
  <2> QED BY <1>1, <2>1, <2>4, OnlyMoves
<1>4. CASE proc' = [proc EXCEPT ![c] = Fails(p)]
  BY <1>1, <1>4, FailsOK, OnlyMoves DEF Working
<1> QED BY <1>3, <1>4 DEF Get

(* The only step that adds a body to the blob cache.                       *)
LEMMA PutBlobKeeps ==
  ASSUME ResolverInv, NEW c \in Caller, PutBlob(c)
  PROVE  ResolverInv'
<1> DEFINE p == proc[c]
<1>1. /\ UNCHANGED <<memo, docs, vers, flights, durable, clock, rev, exits, calls>>
      /\ p.pc = "put" /\ CallerOK(p, memo, blobs) /\ p \in Proc
      /\ p.doc \in Body /\ p.doc.full = p.want
  BY DEF PutBlob, shared, world, ResolverInv, CallersOK, CallerOK, Proc
<1>2. CASE proc' = [proc EXCEPT ![c] = Fails(p)] /\ blobs' = blobs
  BY <1>1, <1>2, FailsOK, OnlyMoves DEF Working, shared, disk, world
<1>3. CASE blobs' = blobs \cup {p.doc} /\ proc' = [proc EXCEPT ![c].pc = "store"]
  <2> DEFINE rec == [p EXCEPT !.pc = "store"]
  <2>1. proc' = [proc EXCEPT ![c] = rec]
    BY <1>3 DEF ResolverInv, CallersOK
  <2>2. /\ rec \in Proc /\ rec.pc = "store" /\ rec.doc = p.doc
        /\ rec.want = p.want /\ rec.leads = p.leads
    BY <1>1 DEF Proc, Pcs
  <2> HIDE DEF rec
  <2>3. CallerOK(rec, memo', blobs')
    BY <1>1, <1>3, <2>2 DEF CallerOK, Holding, Working, Serves
  <2>4. Grows
    BY <1>1, <1>3 DEF Grows
  <2>5. CallersOK'
    BY <2>1, <2>3, <2>4, OneCaller DEF ResolverInv
  <2>6. DiskOK'
    BY <1>1, <1>3 DEF ResolverInv, DiskOK, DurableIsBacked
  <2> QED BY <1>1, <2>4, <2>5, <2>6, SameCache, SameFlights
          DEF ResolverInv, CountersOK, CacheOK
<1> QED BY <1>2, <1>3 DEF PutBlob

(* Memo and document are filed after the blob was written.                 *)
LEMMA StoreKeeps ==
  ASSUME ResolverInv, NEW c \in Caller, Store(c)
  PROVE  ResolverInv'
<1> DEFINE p == proc[c]
           o == [body |-> p.doc, at |-> clock]
           rec == [p EXCEPT !.pc = "record", !.seen = o]
<1>1. /\ UNCHANGED <<vers, flights, blobs, durable, clock, rev, exits, calls>>
      /\ p.pc = "store" /\ CallerOK(p, memo, blobs) /\ p \in Proc
      /\ memo' = o /\ docs' = [docs EXCEPT ![p.want] = p.doc]
      /\ proc' = [proc EXCEPT ![c].pc = "record", ![c].seen = o]
  BY DEF Store, disk, world, ResolverInv, CallersOK
<1>2. /\ p.doc \in Body /\ p.doc \in blobs /\ p.doc.full = p.want /\ p.want \in Form
      /\ Serves(p.doc, p.want, blobs)
  BY <1>1 DEF CallerOK, Holding, Serves, ResolverInv, DiskOK, Proc
<1>3. o \in Observation /\ o # None
  BY <1>2, Sorts DEF Observation, ResolverInv, CountersOK
<1>4. Grows
  BY <1>1, <1>3 DEF Grows
<1>5. proc' = [proc EXCEPT ![c] = rec]
  BY <1>1 DEF ResolverInv, CallersOK
<1>6. /\ rec \in Proc /\ rec.pc = "record" /\ rec.doc = p.doc /\ rec.seen = o
      /\ rec.want = p.want /\ rec.leads = p.leads /\ o.body = p.doc
  BY <1>1, <1>3 DEF Proc, Pcs
<1> HIDE DEF rec, o
<1>7. CallerOK(rec, memo', blobs')
  BY <1>1, <1>2, <1>3, <1>6 DEF CallerOK, Holding, Working
<1>8. CallersOK'
  BY <1>4, <1>5, <1>7, OneCaller DEF ResolverInv
<1>9. CacheOK'
  <2>1. DocOK(p.doc, p.want, memo', blobs')
    BY <1>1, <1>2, <1>3 DEF DocOK
  <2>2. \A f \in Form : DocOK(docs[f], f, memo', blobs')
    BY <1>4, StaysOK DEF Grows, ResolverInv, CacheOK
  <2>3. \A f \in Form : DocOK(docs'[f], f, memo', blobs')
    BY <1>1, <1>2, <2>1, <2>2 DEF ResolverInv, CacheOK
  <2> QED BY <1>1, <1>3, <2>3 DEF ResolverInv, CacheOK
<1> QED BY <1>1, <1>4, <1>8, <1>9, SameFlights
        DEF ResolverInv, CountersOK, DiskOK, DurableIsBacked

(* The durable record is written last.                                     *)
LEMMA RecordKeeps ==
  ASSUME ResolverInv, NEW c \in Caller, RecordPackument(c)
  PROVE  ResolverInv'
<1> DEFINE p == proc[c]
<1>1. /\ UNCHANGED <<memo, docs, vers, flights, blobs, clock, rev, exits, calls>>
      /\ p.pc = "record" /\ CallerOK(p, memo, blobs) /\ p \in Proc
      /\ p.seen \in Observation /\ p.seen.body \in blobs
  BY DEF RecordPackument, shared, world, ResolverInv, CallersOK, CallerOK, Proc,
         Holding, Serves
<1>2. CASE proc' = [proc EXCEPT ![c] = [Fails(p) EXCEPT !.seen = None]] /\ durable' = durable
  BY <1>1, <1>2, FailsOK, OnlyMoves DEF Working, shared, disk, world
<1>3. CASE /\ durable' = durable \cup {p.seen}
           /\ proc' = [proc EXCEPT ![c].pc = "settle", ![c].seen = None]
  <2> DEFINE rec == [p EXCEPT !.pc = "settle", !.seen = None]
  <2>1. proc' = [proc EXCEPT ![c] = rec]
    BY <1>3 DEF ResolverInv, CallersOK
  <2>2. /\ rec \in Proc /\ rec.pc = "settle" /\ rec.doc = p.doc
        /\ rec.want = p.want /\ rec.leads = p.leads
    BY <1>1 DEF Proc, Pcs
  <2> HIDE DEF rec
  <2>3. CallerOK(rec, memo', blobs')
    BY <1>1, <2>2 DEF CallerOK, Holding, Working
  <2>4. Grows
    BY <1>1 DEF Grows
  <2>5. CallersOK'
    BY <2>1, <2>3, <2>4, OneCaller DEF ResolverInv
  <2>6. DiskOK'
    BY <1>1, <1>3 DEF ResolverInv, DiskOK, DurableIsBacked
  <2> QED BY <1>1, <2>4, <2>5, <2>6, SameCache, SameFlights
          DEF ResolverInv, CountersOK, CacheOK
<1> QED BY <1>2, <1>3 DEF RecordPackument

(* What a caller that is done leaves.                                      *)
LEMMA ReturnedOK ==
  ASSUME NEW doc \in Body \cup {None}, NEW err \in BOOLEAN, NEW m, NEW stored,
         ~err => doc # None
  PROVE  CallerOK(Returned(doc, err), m, stored)
<1>1. /\ Returned(doc, err) \in Proc /\ Returned(doc, err).pc = "returned"
      /\ Returned(doc, err).doc = doc /\ Returned(doc, err).err = err
      /\ ~Returned(doc, err).leads
  BY StartOK DEF Returned, Resting, Proc, Pcs
<1> QED BY <1>1 DEF CallerOK, Holding, Working

(* An answer by error, by document or by a list filed earlier.             *)
LEMMA AnswerKeeps ==
  ASSUME ResolverInv, NEW c \in Caller, Return(c) \/ LookList(c)
  PROVE  ResolverInv'
<1> DEFINE p == proc[c]
<1>1. /\ UNCHANGED <<shared, disk, world>> /\ p.pc = "answer"
      /\ CallerOK(p, memo, blobs) /\ p \in Proc /\ p.doc \in Body \cup {None} /\ p.err \in BOOLEAN
      /\ ~p.err => /\ p.doc \in Body /\ p.doc # None /\ memo \in Observation
                   /\ Serves(p.doc, p.want, blobs)
  BY Sorts DEF Return, LookList, ResolverInv, CallersOK, CallerOK, Proc, Holding, Serves,
              DiskOK, CacheOK
<1>2. CASE Return(c)
  BY <1>1, <1>2, ReturnedOK, OnlyMoves DEF Return
<1>3. CASE LookList(c)
  <2> DEFINE key   == memo.body
             lists == {l \in vers : l.body = key /\ l.need = p.want}
  <2>1. key \in Body /\ key # None /\ ~p.err
    BY <1>1, <1>3, Sorts DEF LookList
  <2>2. CASE lists = {}
    <3> DEFINE rec == [p EXCEPT !.pc = "list", !.key = key]
    <3>1. proc' = [proc EXCEPT ![c].pc = "list", ![c].key = key]
      BY <1>3, <2>2 DEF LookList
    <3>2. proc' = [proc EXCEPT ![c] = rec]
      BY <3>1 DEF ResolverInv, CallersOK
    <3>3. /\ rec \in Proc /\ rec.pc = "list" /\ rec.key = key /\ rec.doc = p.doc
          /\ rec.want = p.want /\ rec.leads = p.leads
      BY <1>1, <2>1 DEF Proc, Pcs
    <3> HIDE DEF rec, key
    <3>4. CallerOK(rec, memo, blobs)
      BY <1>1, <2>1, <3>3 DEF CallerOK, Holding, Working
    <3> QED BY <1>1, <3>2, <3>4, OnlyMoves
  <2>3. CASE lists # {}
    <3>1. PICK l \in vers : proc' = [proc EXCEPT ![c] = Returned(l.from, FALSE)]
      BY <1>3, <2>3 DEF LookList
    <3>2. l.from \in Body /\ l.from # None
      BY Sorts DEF ResolverInv, CacheOK, ListOK
    <3>3. CallerOK(Returned(l.from, FALSE), memo, blobs)
      BY <3>2, ReturnedOK
    <3> QED BY <1>1, <3>1, <3>3, OnlyMoves
  <2> QED BY <2>2, <2>3
<1> QED BY <1>2, <1>3

(* A list is filed under a key that may not be its body, but serves.       *)
LEMMA FileListKeeps ==
  ASSUME ResolverInv, NEW c \in Caller, FileList(c)
  PROVE  ResolverInv'
<1> DEFINE p == proc[c]
           l == [body |-> p.key, need |-> p.want, from |-> p.doc]
<1>1. /\ UNCHANGED <<memo, docs, flights, blobs, durable, clock, rev, exits, calls>>
      /\ p.pc = "list" /\ CallerOK(p, memo, blobs) /\ p \in Proc
      /\ p.key \in Body /\ Serves(p.doc, p.want, blobs) /\ p.doc \in Body /\ p.doc # None
      /\ proc' = [proc EXCEPT ![c] = Returned(p.doc, FALSE)]
  BY Sorts DEF FileList, disk, world, ResolverInv, CallersOK, CallerOK, Proc, Holding, Serves,
              DiskOK
<1>2. Grows
  BY <1>1 DEF Grows
<1>3. CallersOK'
  BY <1>1, <1>2, ReturnedOK, OneCaller DEF ResolverInv
<1>4. ListOK(l, blobs)
  BY <1>1 DEF ListOK, Proc, Form
<1>5. \A x \in vers' : x = l \/ x \in vers
  BY DEF FileList
<1>6. CacheOK'
  BY <1>1, <1>4, <1>5 DEF ResolverInv, CacheOK
<1> QED BY <1>1, <1>2, <1>3, <1>6, SameFlights
        DEF ResolverInv, CountersOK, DiskOK, DurableIsBacked

(* The end of the process: what is in memory goes, what is on disk stays.  *)
LEMMA ExitKeeps ==
  ASSUME ResolverInv, Exit
  PROVE  ResolverInv'
<1>1. /\ UNCHANGED <<blobs, durable, clock, rev, calls>>
      /\ memo' = None /\ docs' = [f \in Form |-> None] /\ vers' = {}
      /\ flights' = [f \in Form |-> NoFlight] /\ proc' = [c \in Caller |-> Resting]
      /\ exits < MaxExits /\ exits' = exits + 1
  BY DEF Exit, disk
<1>2. CountersOK'
  BY <1>1, ResolverAssumption DEF CountersOK, ResolverInv
<1>3. CacheOK' /\ DiskOK'
  BY <1>1 DEF CacheOK, DiskOK, DocOK, DurableIsBacked, ResolverInv
<1>4. FlightsOK' /\ CallersOK'
  BY <1>1, StartOK DEF FlightsOK, CallersOK
<1> QED BY <1>2, <1>3, <1>4 DEF ResolverInv

(* The invariant is inductive.                                             *)
LEMMA StepKeeps == ResolverInv /\ [Next]_vars => ResolverInv'
<1> SUFFICES ASSUME ResolverInv, [Next]_vars PROVE ResolverInv'
  OBVIOUS
<1>1. ASSUME NEW c \in Caller, Versions(c) \/ Requirements(c) \/ Step(c)
      PROVE  ResolverInv'
  <2>1. CASE DecodeFails(c)
    <3>1. /\ UNCHANGED <<shared, disk, world>> /\ proc' = [proc EXCEPT ![c] = Fails(proc[c])]
          /\ proc[c].pc = "store" /\ CallerOK(proc[c], memo, blobs)
      BY <2>1 DEF DecodeFails, ResolverInv, CallersOK
    <3> QED BY <3>1, FailsOK, OnlyMoves DEF Working
  <2> QED BY <1>1, <2>1, CallKeeps, LookKeeps, ReadBlobKeeps, JoinKeeps, SettleKeeps,
             RemoveKeeps, GetKeeps, PutBlobKeeps, StoreKeeps, RecordKeeps, AnswerKeeps,
             FileListKeeps DEF Step
<1>2. CASE Tick \/ Publish
  BY <1>2, ResolverAssumption
     DEF Tick, Publish, shared, disk, ResolverInv, CountersOK, CacheOK, DiskOK,
         DurableIsBacked, FlightsOK, CallersOK
<1>3. CASE UNCHANGED vars
  BY <1>3 DEF vars, shared, disk, world, ResolverInv, CountersOK, CacheOK, DiskOK,
              DurableIsBacked, FlightsOK, CallersOK
<1> QED BY <1>1, <1>2, <1>3, ExitKeeps DEF Next

(* Every variable keeps its type, and no caller is about to hand on a body *)
(* it does not have.                                                       *)
THEOREM ResolverTypeOK == ResolverSpec => []TypeOK
<1> QED BY InitInv, StepKeeps, InvGivesTypes, PTL DEF ResolverSpec

(* Whatever observation the durable record names, the body is in the blob  *)
(* cache, though the process may end between any two steps.                *)
THEOREM ResolverDurableIsBacked == ResolverSpec => []DurableIsBacked
<1>1. ResolverInv => DurableIsBacked
  BY DEF ResolverInv, DiskOK
<1> QED BY <1>1, InitInv, StepKeeps, PTL DEF ResolverSpec


-----------------------------------------------------------------------------
(* One leader for each flight.                                             *)

(* A caller at work goes on: only where it is, and what it holds, changes. *)
GoesOn(c) == \E rec :
  /\ proc' = [proc EXCEPT ![c] = rec]
  /\ rec.want = proc[c].want /\ rec.leads = proc[c].leads
  /\ proc[c].pc \notin {"idle", "returned", "wait", "remove"}
  /\ rec.pc \notin {"idle", "returned", "wait", "remove"}
(* Or it ends its call, with an error or a body that serves.               *)
Rests(c) ==
  /\ proc[c].pc \in {"answer", "list"} /\ proc'[c].pc = "returned" /\ ~proc'[c].leads
  /\ \A d \in Caller \ {c} : proc'[d] = proc[d]
  /\ proc'[c].err \in BOOLEAN
  /\ ~proc'[c].err => /\ proc'[c].doc \in Body
                     /\ Serves(proc'[c].doc, proc[c].want, blobs)

(* The steps between a lookup and the outcome of a flight.                 *)
LEMMA WorkGoesOn ==
  ASSUME ResolverInv, NEW c \in Caller,
         Look(c) \/ ReadBlob(c) \/ Get(c) \/ PutBlob(c) \/ DecodeFails(c)
         \/ Store(c) \/ RecordPackument(c)
  PROVE  GoesOn(c) /\ flights' = flights
<1> DEFINE p == proc[c]
<1>1. proc \in [Caller -> Proc] /\ p \in Proc
  BY DEF ResolverInv, CallersOK
<1>2. flights' = flights
  BY DEF Look, ReadBlob, Get, PutBlob, DecodeFails, Store, RecordPackument, shared
<1>3. \A doc : /\ Hit(p, doc).want = p.want /\ Hit(p, doc).leads = p.leads
               /\ Hit(p, doc).pc \in {"settle", "answer"}
  BY <1>1 DEF Hit, Proc
<1>4. /\ Miss(p).want = p.want /\ Miss(p).leads = p.leads
      /\ Miss(p).pc \in {"get", "join"}
  BY <1>1 DEF Miss, Proc
<1>5. /\ Fails(p).want = p.want /\ Fails(p).leads = p.leads /\ Fails(p).pc = "settle"
      /\ [Fails(p) EXCEPT !.seen = None].want = p.want
      /\ [Fails(p) EXCEPT !.seen = None].leads = p.leads
      /\ [Fails(p) EXCEPT !.seen = None].pc = "settle"
  BY <1>1 DEF Fails, Proc
<1>6. CASE Look(c)
  <2>1. PICK o : proc' = [proc EXCEPT ![c] =
              IF ~Usable(o, p.want) THEN Miss(p)
              ELSE IF docs[o.body.full] # None THEN Hit(p, docs[o.body.full])
              ELSE [p EXCEPT !.pc = "blob", !.seen = o]]
    BY <1>6 DEF Look
  <2> DEFINE rec == IF ~Usable(o, p.want) THEN Miss(p)
                    ELSE IF docs[o.body.full] # None THEN Hit(p, docs[o.body.full])
                    ELSE [p EXCEPT !.pc = "blob", !.seen = o]
  <2>2. /\ rec.want = p.want /\ rec.leads = p.leads
        /\ rec.pc \in {"get", "join", "settle", "answer", "blob"}
    <3>1. CASE ~Usable(o, p.want)
      BY <1>4, <3>1
    <3>2. CASE Usable(o, p.want) /\ docs[o.body.full] # None
      BY <1>3, <3>2
    <3>3. CASE Usable(o, p.want) /\ docs[o.body.full] = None
      BY <1>1, <3>3 DEF Proc
    <3> QED BY <3>1, <3>2, <3>3
  <2> HIDE DEF rec
  <2>3. p.pc = "look" /\ proc' = [proc EXCEPT ![c] = rec]
    BY <1>6, <2>1 DEF Look, rec
  <2> QED BY <1>2, <2>2, <2>3 DEF GoesOn
<1>7. CASE ReadBlob(c)
  <2>1. /\ p.pc = "blob"
        /\ \/ proc' = [proc EXCEPT ![c] = Hit(p, p.seen.body)]
           \/ proc' = [proc EXCEPT ![c] = Miss(p)]
    BY <1>7 DEF ReadBlob
  <2> QED BY <1>2, <1>3, <1>4, <2>1 DEF GoesOn
<1>8. CASE /\ p.pc \in {"get", "put", "store", "record"}
           /\ \/ proc' = [proc EXCEPT ![c] = Fails(p)]
              \/ proc' = [proc EXCEPT ![c] = [Fails(p) EXCEPT !.seen = None]]
  BY <1>2, <1>5, <1>8 DEF GoesOn
<1>9. ASSUME NEW doc, NEW observed, NEW pc \in {"put", "store", "record", "settle"},
             p.pc \in {"get", "put", "store", "record"},
             proc' = [proc EXCEPT ![c] = [p EXCEPT !.pc = pc, !.doc = doc, !.seen = observed]]
      PROVE  GoesOn(c) /\ flights' = flights
  <2> DEFINE rec == [p EXCEPT !.pc = pc, !.doc = doc, !.seen = observed]
  <2>2. rec.want = p.want /\ rec.leads = p.leads /\ rec.pc = pc
    BY <1>1 DEF Proc
  <2> HIDE DEF rec
  <2>3. proc' = [proc EXCEPT ![c] = rec]
    BY <1>9 DEF rec
  <2> QED BY <1>2, <1>9, <2>2, <2>3 DEF GoesOn
<1>10. CASE Get(c) /\ ~(proc' = [proc EXCEPT ![c] = Fails(p)])
  <2> DEFINE body == [rev |-> rev, full |-> p.want]
  <2>1. p.pc = "get" /\ proc' = [proc EXCEPT ![c].pc = "put", ![c].doc = body]
    BY <1>10 DEF Get
  <2>2. proc' = [proc EXCEPT ![c] = [p EXCEPT !.pc = "put", !.doc = body, !.seen = p.seen]]
    BY <1>1, <2>1 DEF Proc
  <2> QED BY <1>9, <2>1, <2>2
<1>11. CASE PutBlob(c) /\ ~(proc' = [proc EXCEPT ![c] = Fails(p)])
  <2>1. p.pc = "put" /\ proc' = [proc EXCEPT ![c].pc = "store"]
    BY <1>11 DEF PutBlob
  <2>2. proc' = [proc EXCEPT ![c] = [p EXCEPT !.pc = "store", !.doc = p.doc, !.seen = p.seen]]
    BY <1>1, <2>1 DEF Proc
  <2> QED BY <1>9, <2>1, <2>2
<1>12. CASE Store(c)
  <2> DEFINE o == [body |-> p.doc, at |-> clock]
  <2>1. p.pc = "store" /\ proc' = [proc EXCEPT ![c].pc = "record", ![c].seen = o]
    BY <1>12 DEF Store
  <2>2. proc' = [proc EXCEPT ![c] = [p EXCEPT !.pc = "record", !.doc = p.doc, !.seen = o]]
    BY <1>1, <2>1 DEF Proc
  <2> QED BY <1>9, <2>1, <2>2
<1>13. CASE RecordPackument(c) /\ ~(proc' = [proc EXCEPT ![c] = [Fails(p) EXCEPT !.seen = None]])
  <2>1. p.pc = "record" /\ proc' = [proc EXCEPT ![c].pc = "settle", ![c].seen = None]
    BY <1>13 DEF RecordPackument
  <2>2. proc' = [proc EXCEPT ![c] = [p EXCEPT !.pc = "settle", !.doc = p.doc, !.seen = None]]
    BY <1>1, <2>1 DEF Proc
  <2> QED BY <1>9, <2>1, <2>2
<1>14. p.pc = "get" \/ ~Get(c)
  BY DEF Get
<1>15. p.pc = "put" \/ ~PutBlob(c)
  BY DEF PutBlob
<1>16. (p.pc = "store" /\ proc' = [proc EXCEPT ![c] = Fails(p)]) \/ ~DecodeFails(c)
  BY DEF DecodeFails
<1>17. p.pc = "record" \/ ~RecordPackument(c)
  BY DEF RecordPackument
<1> QED BY <1>6, <1>7, <1>8, <1>10, <1>11, <1>12, <1>13, <1>14, <1>15, <1>16, <1>17


(* The steps after it end the call or go on to file a list.                *)
LEMMA AnswerGoesOn ==
  ASSUME ResolverInv, NEW c \in Caller, Return(c) \/ LookList(c) \/ FileList(c)
  PROVE  (GoesOn(c) \/ Rests(c)) /\ UNCHANGED <<flights, blobs>>
<1> DEFINE p == proc[c]
<1>1. /\ proc \in [Caller -> Proc] /\ p \in Proc /\ CallerOK(p, memo, blobs) /\ blobs \subseteq Body
  BY DEF ResolverInv, CallersOK, DiskOK
<1>2. UNCHANGED <<flights, blobs>>
  BY DEF Return, LookList, FileList, shared, disk
<1>r. ASSUME NEW doc, NEW err \in BOOLEAN, p.pc \in {"answer", "list"},
             proc' = [proc EXCEPT ![c] = Returned(doc, err)],
             ~err => doc \in Body /\ Serves(doc, p.want, blobs)
      PROVE  Rests(c)
  <2>1. /\ Returned(doc, err).pc = "returned" /\ Returned(doc, err).doc = doc
        /\ Returned(doc, err).err = err /\ ~Returned(doc, err).leads
    BY DEF Returned, Resting
  <2>2. proc'[c] = Returned(doc, err) /\ \A d \in Caller \ {c} : proc'[d] = proc[d]
    BY <1>1, <1>r
  <2> QED BY <1>r, <2>1, <2>2 DEF Rests
<1>3. CASE Return(c)
  <2>1. /\ p.pc = "answer" /\ proc' = [proc EXCEPT ![c] = Returned(p.doc, p.err)]
        /\ p.err \in BOOLEAN
    BY <1>1, <1>3 DEF Return, Proc
  <2>2. ~p.err => p.doc \in Body /\ Serves(p.doc, p.want, blobs)
    BY <1>1, <2>1 DEF CallerOK, Holding, Serves
  <2> QED BY <1>2, <1>r, <2>1, <2>2
<1>4. CASE FileList(c)
  <2>1. /\ p.pc = "list" /\ proc' = [proc EXCEPT ![c] = Returned(p.doc, FALSE)]
    BY <1>4 DEF FileList
  <2>2. p.doc \in Body /\ Serves(p.doc, p.want, blobs)
    BY <1>1, <2>1 DEF CallerOK, Holding, Serves
  <2> QED BY <1>2, <1>r, <2>1, <2>2
<1>5. CASE LookList(c)
  <2> DEFINE lists == {l \in vers : l.body = memo.body /\ l.need = p.want}
  <2>1. CASE lists = {}
    <3> DEFINE rec == [p EXCEPT !.pc = "list", !.key = memo.body]
    <3>1. p.pc = "answer" /\ proc' = [proc EXCEPT ![c].pc = "list", ![c].key = memo.body]
      BY <1>5, <2>1 DEF LookList
    <3>2. proc' = [proc EXCEPT ![c] = rec]
      BY <1>1, <3>1 DEF Proc
    <3>3. rec.want = p.want /\ rec.leads = p.leads /\ rec.pc = "list"
      BY <1>1 DEF Proc
    <3> HIDE DEF rec
    <3> QED BY <1>2, <3>1, <3>2, <3>3 DEF GoesOn
  <2>2. CASE lists # {}
    <3>1. PICK l \in vers : l.need = p.want /\ proc' = [proc EXCEPT ![c] = Returned(l.from, FALSE)]
      BY <1>5, <2>2 DEF LookList
    <3>2. l.from \in Body /\ Serves(l.from, p.want, blobs) /\ p.pc = "answer"
      BY <1>5, <3>1 DEF ResolverInv, CacheOK, ListOK, LookList
    <3> QED BY <1>2, <1>r, <3>1, <3>2
  <2> QED BY <2>1, <2>2
<1> QED BY <1>3, <1>4, <1>5

(* A flight in the map has one leader; it runs until the leader has settled*)
(* it, and only then does it have an outcome.                              *)
LeadersAgree ==
  \A k \in Form :
    /\ flights[k].state = "none" <=> Leaders(k) = {}
    /\ \A c, d \in Leaders(k) : c = d
    /\ \A c \in Leaders(k) : flights[k].state = "running" <=> proc[c].pc # "remove"
    /\ \A c \in Caller : proc[c].pc = "wait" /\ proc[c].want = k =>
                           flights[k].state = "running"

(* Steps that touch neither flights nor leads keep the leaders.            *)
LEMMA CalmLeaders ==
  ASSUME LeadersAgree, flights' = flights,
         \A d \in Caller :
           \/ proc'[d] = proc[d]
           \/ /\ proc'[d].want = proc[d].want /\ proc'[d].leads = proc[d].leads
              /\ proc[d].pc # "remove" /\ proc'[d].pc # "remove"
              /\ proc'[d].pc = "wait" => flights[proc[d].want].state = "running"
           \/ ~proc[d].leads /\ ~proc'[d].leads /\ proc'[d].pc # "wait"
  PROVE  LeadersAgree'
<1> SUFFICES ASSUME NEW k \in Form
             PROVE  /\ flights'[k].state = "none" <=> Leaders(k)' = {}
                    /\ \A c, d \in Leaders(k)' : c = d
                    /\ \A c \in Leaders(k)' : flights'[k].state = "running" <=> proc'[c].pc # "remove"
                    /\ \A c \in Caller : proc'[c].pc = "wait" /\ proc'[c].want = k =>
                                           flights'[k].state = "running"
  BY DEF LeadersAgree
<1>1. Leaders(k)' = Leaders(k)
  BY DEF Leaders, FlightOf
<1>2. \A c \in Leaders(k) : proc'[c].pc = "remove" <=> proc[c].pc = "remove"
  BY DEF Leaders
<1> QED BY <1>1, <1>2 DEF LeadersAgree

(* The leaders are kept by Join, Settle, RemoveFlight, and by all others.  *)
LEMMA LeadersKept ==
  ASSUME ResolverInv, LeadersAgree, [Next]_vars
  PROVE  LeadersAgree'
<1>1. /\ proc \in [Caller -> Proc] /\ flights \in [Form -> Flight]
      /\ \A c \in Caller : /\ proc[c] \in Proc /\ CallerOK(proc[c], memo, blobs)
                           /\ proc[c].want \in Form /\ proc[c].leads \in BOOLEAN
      /\ \A k \in Form : flights[k].state \in {"none", "running", "done"}
  BY DEF ResolverInv, CallersOK, FlightsOK, Proc, Flight
<1>2. ASSUME NEW c \in Caller, GoesOn(c), flights' = flights
      PROVE  LeadersAgree'
  BY <1>1, <1>2, CalmLeaders DEF GoesOn
<1>3. ASSUME NEW c \in Caller, Rests(c), flights' = flights
      PROVE  LeadersAgree'
  <2>1. ~proc[c].leads /\ proc'[c].pc = "returned" /\ ~proc'[c].leads
    BY <1>1, <1>3 DEF Rests, CallerOK, Working
  <2>2. \A d \in Caller : d # c => proc'[d] = proc[d]
    BY <1>1, <1>3 DEF Rests
  <2> QED BY <1>3, <2>1, <2>2, CalmLeaders
<1>4. ASSUME NEW c \in Caller, Versions(c) \/ Requirements(c)
      PROVE  LeadersAgree'
  <2>1. PICK op, want : Call(c, op, want)
    BY <1>4 DEF Versions, Requirements
  <2>2. flights' = flights /\ proc[c].pc \in {"idle", "returned"}
        /\ proc' = [proc EXCEPT ![c] = [Resting EXCEPT !.pc = "look", !.op = op, !.want = want]]
    BY <2>1 DEF Call, shared
  <2>3. ~proc[c].leads /\ proc'[c].pc = "look" /\ ~proc'[c].leads
    BY <1>1, <2>2 DEF Resting, CallerOK, Working
  <2>4. \A d \in Caller : d # c => proc'[d] = proc[d]
    BY <1>1, <2>2
  <2> QED BY <2>2, <2>3, <2>4, CalmLeaders
<1>5. ASSUME NEW c \in Caller, Join(c)
      PROVE  LeadersAgree'
  <2>0. PICK j \in Form : j = proc[c].want
    BY <1>1
  <2>1. proc[c].pc = "join" /\ ~proc[c].leads
    BY <1>1, <2>0, <1>5 DEF Join, CallerOK, Working
  <2>2. CASE flights[j].state = "none"
    <3>1. /\ flights' = [flights EXCEPT ![j].state = "running"]
          /\ proc' = [proc EXCEPT ![c].pc = "look", ![c].leads = TRUE]
      BY <1>5, <2>0, <2>2 DEF Join, FlightOf
    <3>2. /\ proc'[c].pc = "look" /\ proc'[c].leads /\ proc'[c].want = j
          /\ \A d \in Caller : d # c => proc'[d] = proc[d]
          /\ flights'[j].state = "running" /\ \A k \in Form : k # j => flights'[k] = flights[k]
      BY <1>1, <2>0, <3>1 DEF Proc, Flight
    <3>3. Leaders(j) = {} /\ Leaders(j)' = {c}
      BY <1>1, <2>0, <2>2, <3>2 DEF LeadersAgree, Leaders, FlightOf
    <3>4. \A k \in Form : k # j => Leaders(k)' = Leaders(k) /\ c \notin Leaders(k)
      BY <1>1, <2>0, <2>1, <3>2 DEF Leaders, FlightOf
    <3>5. \A d \in Caller : proc'[d].pc = "wait" =>
            proc[d].pc = "wait" /\ proc[d].want = proc'[d].want
      BY <2>0, <3>2
    <3>6. \A k \in Form : Leaders(k) \subseteq Caller
      BY DEF Leaders
    <3>7. \A k \in Form : flights'[k].state = "none" <=> Leaders(k)' = {}
      <4> SUFFICES ASSUME NEW k \in Form
                   PROVE  flights'[k].state = "none" <=> Leaders(k)' = {}
        OBVIOUS
      <4>1. CASE k = j
        BY <2>0, <3>2, <3>3, <4>1
      <4>2. CASE k # j
        BY <2>0, <3>2, <3>4, <4>2 DEF LeadersAgree
      <4> QED BY <4>1, <4>2
    <3>8. \A k \in Form : \A d, e \in Leaders(k)' : d = e
      <4> SUFFICES ASSUME NEW k \in Form
                   PROVE  \A d, e \in Leaders(k)' : d = e
        OBVIOUS
      <4>1. CASE k = j
        BY <3>3, <4>1
      <4>2. CASE k # j
        BY <3>4, <4>2 DEF LeadersAgree
      <4> QED BY <4>1, <4>2
    <3>9. \A k \in Form : \A d \in Leaders(k)' :
            flights'[k].state = "running" <=> proc'[d].pc # "remove"
      BY <2>0, <3>2, <3>3, <3>4, <3>6 DEF LeadersAgree
    <3>10. \A k \in Form : \A d \in Caller : proc'[d].pc = "wait" /\ proc'[d].want = k =>
             flights'[k].state = "running"
      BY <2>0, <2>2, <3>2, <3>5 DEF LeadersAgree
    <3> QED BY <3>7, <3>8, <3>9, <3>10 DEF LeadersAgree
  <2>3. CASE flights[j].state = "running"
    <3>1. flights' = flights /\ proc' = [proc EXCEPT ![c].pc = "wait"]
      BY <1>5, <2>0, <2>3 DEF Join, FlightOf
    <3>2. /\ proc'[c].want = j /\ proc'[c].leads = proc[c].leads /\ proc'[c].pc = "wait"
          /\ \A d \in Caller : d # c => proc'[d] = proc[d]
      BY <1>1, <2>0, <3>1 DEF Proc
    <3> QED BY <2>0, <2>1, <2>3, <3>1, <3>2, CalmLeaders
  <2>4. CASE flights[j].state = "done"
    <3>1. /\ flights' = flights
          /\ proc' = [proc EXCEPT ![c].pc = "answer", ![c].doc = flights[j].doc,
                                  ![c].err = flights[j].err]
      BY <1>5, <2>0, <2>4 DEF Join, FlightOf
    <3>2. /\ proc'[c].want = j /\ proc'[c].leads = proc[c].leads /\ proc'[c].pc = "answer"
          /\ \A d \in Caller : d # c => proc'[d] = proc[d]
      BY <1>1, <2>0, <3>1 DEF Proc
    <3> QED BY <2>0, <2>1, <3>1, <3>2, CalmLeaders
  <2> QED BY <1>1, <2>0, <2>2, <2>3, <2>4
<1>6. ASSUME NEW c \in Caller, Settle(c)
      PROVE  LeadersAgree'
  <2>0. PICK j \in Form : j = proc[c].want
    BY <1>1
  <2>1. /\ proc[c].pc = "settle" /\ proc[c].leads
        /\ flights' = [flights EXCEPT ![j] = [state |-> "done", doc |-> proc[c].doc, err |-> proc[c].err]]
        /\ proc' = [w \in Caller |->
             IF w = c THEN [proc[c] EXCEPT !.pc = "remove"]
             ELSE IF proc[w].pc = "wait" /\ proc[w].want = j
               THEN [proc[w] EXCEPT !.pc = "answer", !.doc = proc[c].doc, !.err = proc[c].err]
               ELSE proc[w]]
    BY <1>1, <2>0, <1>6 DEF Settle, FlightOf, CallerOK, Working
  <2>2. /\ flights'[j].state = "done" /\ \A k \in Form : k # j => flights'[k] = flights[k]
        /\ proc'[c].pc = "remove" /\ proc'[c].leads /\ proc'[c].want = j
    BY <1>1, <2>0, <2>1 DEF Proc
  <2>3. \A w \in Caller : /\ proc'[w].want = proc[w].want /\ proc'[w].leads = proc[w].leads
                          /\ w # c => \/ proc'[w] = proc[w] /\ ~(proc[w].pc = "wait" /\ proc[w].want = j)
                                      \/ proc[w].pc = "wait" /\ proc'[w].pc = "answer"
    <3> SUFFICES ASSUME NEW w \in Caller
                 PROVE  /\ proc'[w].want = proc[w].want /\ proc'[w].leads = proc[w].leads
                        /\ w # c => \/ proc'[w] = proc[w] /\ ~(proc[w].pc = "wait" /\ proc[w].want = j)
                                    \/ proc[w].pc = "wait" /\ proc'[w].pc = "answer"
      OBVIOUS
    <3>1. CASE w = c
      BY <2>0, <2>1, <2>2, <3>1
    <3>2. CASE w # c /\ proc[w].pc = "wait" /\ proc[w].want = j
      BY <1>1, <2>0, <2>1, <3>2 DEF Proc
    <3>3. CASE w # c /\ ~(proc[w].pc = "wait" /\ proc[w].want = j)
      BY <2>0, <2>1, <3>3
    <3> QED BY <2>0, <3>1, <3>2, <3>3
  <2>4. \A k \in Form : Leaders(k)' = Leaders(k) /\ Leaders(k) \subseteq Caller
    BY <2>0, <2>3 DEF Leaders, FlightOf
  <2>5. c \in Leaders(j) /\ \A k \in Form : k # j => c \notin Leaders(k)
    BY <1>1, <2>0, <2>1 DEF Leaders, FlightOf
  <2>6. Leaders(j) = {c}
    BY <1>1, <2>0, <2>5 DEF LeadersAgree
  <2>7. \A w \in Caller : proc'[w].pc = "wait" => proc[w].pc = "wait" /\ proc[w].want # j
    BY <2>0, <2>2, <2>3
  <2>8. \A k \in Form : \A w \in Leaders(k) : k # j =>
          (proc'[w].pc = "remove" <=> proc[w].pc = "remove")
    BY <2>0, <2>3, <2>4, <2>5
  <2> QED BY <1>1, <2>0, <2>2, <2>3, <2>4, <2>6, <2>7, <2>8 DEF LeadersAgree
<1>7. ASSUME NEW c \in Caller, RemoveFlight(c)
      PROVE  LeadersAgree'
  <2>0. PICK j \in Form : j = proc[c].want
    BY <1>1
  <2>1. /\ proc[c].pc = "remove" /\ proc[c].leads
        /\ flights' = [flights EXCEPT ![j] = NoFlight]
        /\ proc' = [proc EXCEPT ![c].pc = "answer", ![c].leads = FALSE]
    BY <1>1, <2>0, <1>7 DEF RemoveFlight, FlightOf, CallerOK, Working
  <2>2. /\ flights'[j].state = "none" /\ \A k \in Form : k # j => flights'[k] = flights[k]
        /\ proc'[c].pc = "answer" /\ ~proc'[c].leads /\ proc'[c].want = j
        /\ \A d \in Caller : d # c => proc'[d] = proc[d]
    BY <1>1, <2>0, <2>1 DEF Proc, NoFlight
  <2>3. c \in Leaders(j) /\ \A k \in Form : Leaders(k) \subseteq Caller
    BY <2>0, <2>1 DEF Leaders, FlightOf
  <2>4. Leaders(j) = {c} /\ flights[j].state # "running"
    BY <1>1, <2>0, <2>1, <2>3 DEF LeadersAgree
  <2>5. Leaders(j)' = {} /\ \A k \in Form : k # j => Leaders(k)' = Leaders(k) /\ c \notin Leaders(k)
    BY <1>1, <2>0, <2>2, <2>4 DEF Leaders, FlightOf
  <2>6. \A d \in Caller : proc'[d].pc = "wait" =>
          d # c /\ proc[d].pc = "wait" /\ proc[d].want = proc'[d].want /\ proc[d].want # j
    BY <1>1, <2>0, <2>2, <2>4 DEF LeadersAgree
  <2> QED BY <1>1, <2>0, <2>2, <2>3, <2>5, <2>6 DEF LeadersAgree
<1>8. CASE Exit
  BY <1>8 DEF Exit, LeadersAgree, Leaders, NoFlight, Resting
<1>9. CASE Tick \/ Publish \/ UNCHANGED vars
  BY <1>9 DEF Tick, Publish, vars, shared, LeadersAgree, Leaders
<1> QED BY <1>2, <1>3, <1>4, <1>5, <1>6, <1>7, <1>8, <1>9, WorkGoesOn, AnswerGoesOn
        DEF Next, Step


(* At most one leader and at least one is a count of one.                  *)
LEMMA LeadersCounted ==
  ASSUME LeadersAgree
  PROVE  FlightHasOneLeader
<1> SUFFICES ASSUME NEW k \in Form
             PROVE  /\ Cardinality(Leaders(k)) = (IF flights[k].state = "none" THEN 0 ELSE 1)
                    /\ \A c \in Leaders(k) :
                         (flights[k].state = "running") <=> (proc[c].pc # "remove")
                    /\ \A c \in Caller : proc[c].pc = "wait" /\ FlightOf(proc[c].want) = k =>
                                           flights[k].state = "running"
  BY DEF FlightHasOneLeader
<1>1. CASE flights[k].state = "none"
  <2>1. Leaders(k) = {}
    BY <1>1 DEF LeadersAgree
  <2> QED BY <1>1, <2>1, FS_EmptySet DEF LeadersAgree, FlightOf
<1>2. CASE flights[k].state # "none"
  <2>1. Leaders(k) # {} /\ \A c, d \in Leaders(k) : c = d
    BY <1>2 DEF LeadersAgree
  <2>2. \E c : Leaders(k) = {c}
    BY <2>1
  <2>3. Cardinality(Leaders(k)) = 1
    BY <2>2, FS_Singleton
  <2> QED BY <1>2, <2>3 DEF LeadersAgree, FlightOf
<1> QED BY <1>1, <1>2

(* Two callers never download the same form at once, nobody waits for a    *)
(* flight that is over, and no failure outlives its flight.                *)
THEOREM ResolverOneLeader == ResolverSpec => []FlightHasOneLeader
<1>1. ASSUME Init
      PROVE  LeadersAgree
  <2>1. \A k \in Form : flights[k].state = "none"
    BY <1>1 DEF Init, NoFlight
  <2>2. \A c \in Caller : ~proc[c].leads /\ proc[c].pc = "idle"
    BY <1>1 DEF Init, Resting
  <2> QED BY <2>1, <2>2 DEF LeadersAgree, Leaders
<1>2. ResolverInv /\ LeadersAgree /\ [Next]_vars => LeadersAgree'
  BY LeadersKept
<1>3. LeadersAgree => FlightHasOneLeader
  BY LeadersCounted
<1> QED BY <1>1, <1>2, <1>3, InitInv, StepKeeps, PTL DEF ResolverSpec

-----------------------------------------------------------------------------
(* The resolver implements the source it promises to be.                   *)

(* What the callers of the source see of a caller, ...                     *)
Seen == [c \in Caller |-> CallOf(proc[c])]

(* A caller at work is, to the source, one that has asked.                 *)
LEMMA SeenStays ==
  ASSUME NEW p, NEW q, p.want = q.want,
         p.pc \notin {"idle", "returned"}, q.pc \notin {"idle", "returned"}
  PROVE  CallOf(p) = CallOf(q) /\ CallOf(p) = [state |-> "asked", full |-> p.want]
BY DEF CallOf

(* ... and what a step of the resolver is to them.                         *)
LEMMA StepRefines ==
  ASSUME ResolverInv, [Next]_vars
  PROVE  [Source!Next]_<<blobs, Seen>>
<1>1. /\ proc \in [Caller -> Proc] /\ blobs \subseteq Body
      /\ \A c \in Caller : proc[c] \in Proc /\ CallerOK(proc[c], memo, blobs)
  BY DEF ResolverInv, CallersOK, DiskOK
<1>2. proc' \in [Caller -> Proc]
  BY StepKeeps DEF ResolverInv, CallersOK
<1>3. ASSUME NEW c \in Caller, GoesOn(c)
      PROVE  Seen' = Seen
  <2>1. /\ proc'[c].want = proc[c].want /\ \A d \in Caller \ {c} : proc'[d] = proc[d]
        /\ proc[c].pc \notin {"idle", "returned"} /\ proc'[c].pc \notin {"idle", "returned"}
    BY <1>1, <1>3 DEF GoesOn
  <2>2. CallOf(proc'[c]) = CallOf(proc[c])
    BY <2>1, SeenStays
  <2>3. \A d \in Caller : CallOf(proc'[d]) = CallOf(proc[d])
    BY <2>1, <2>2
  <2> QED BY <2>3, Zenon DEF Seen
<1>4. ASSUME NEW c \in Caller, NEW full \in BOOLEAN, blobs' = blobs,
             CallOf(proc[c]).state # "asked",
             Seen' = [Seen EXCEPT ![c] = [state |-> "asked", full |-> full]]
      PROVE  Source!Next
  <2>1. Seen[c] = CallOf(proc[c])
    BY DEF Seen
  <2>2. Source!Ask(c)
    BY <1>4, <2>1 DEF Source!Ask, Source!Asked, Seen
  <2> QED BY <2>2 DEF Source!Next
(* A call: the caller had no question, and has one now.                    *)
<1>5. ASSUME NEW c \in Caller, Versions(c) \/ Requirements(c)
      PROVE  Source!Next
  <2>1. PICK op \in {"versions", "requirements"}, want \in BOOLEAN : Call(c, op, want)
    BY <1>5, ResolverAssumption DEF Versions, Requirements
  <2> DEFINE rec == [Resting EXCEPT !.pc = "look", !.op = op, !.want = want]
  <2>2. /\ blobs' = blobs /\ proc[c].pc \in {"idle", "returned"}
        /\ proc' = [proc EXCEPT ![c] = rec]
    BY <2>1 DEF Call, disk
  <2>3. rec.pc = "look" /\ rec.want = want
    BY DEF Resting
  <2> HIDE DEF rec
  <2>4. CallOf(rec) = [state |-> "asked", full |-> want]
    BY <2>3 DEF CallOf
  <2>5. CallOf(proc[c]).state # "asked"
    BY <2>2 DEF CallOf
  <2>6. Seen' = [Seen EXCEPT ![c] = [state |-> "asked", full |-> want]]
    BY <1>1, <2>2, <2>4 DEF Seen
  <2> QED BY <1>4, <2>2, <2>5, <2>6
(* The end of a call.                                                      *)
<1>6. ASSUME NEW c \in Caller, Rests(c), blobs' = blobs
      PROVE  Source!Next
  <2> DEFINE p == proc[c]
             q == proc'[c]
  <2>1. Seen[c] = [state |-> "asked", full |-> p.want]
    BY <1>6 DEF Rests, Seen, CallOf
  <2>2. CallOf(q) = IF q.err THEN [state |-> "refused"] ELSE [state |-> "answered", body |-> q.doc]
    BY <1>6 DEF Rests, CallOf
  <2>3. Seen' = [Seen EXCEPT ![c] = CallOf(q)]
    BY <1>1, <1>2, <1>6 DEF Rests, Seen
  <2>4. CASE q.err
    <3>1. Source!Refuse(c)
      BY <1>6, <2>1, <2>2, <2>3, <2>4 DEF Source!Refuse, Source!Refused, Seen
    <3> QED BY <3>1 DEF Source!Next
  <2>5. CASE ~q.err
    <3>1. q.doc \in blobs /\ (p.want => q.doc.full) /\ q.doc \in Body
      BY <1>6, <2>5 DEF Rests, Serves
    <3>2. Source!Answer(c, q.doc)
      BY <1>6, <2>1, <2>2, <2>3, <2>5, <3>1 DEF Source!Answer, Source!Answered, Seen
    <3> QED BY <3>1, <3>2 DEF Source!Next
  <2> QED BY <1>6, <2>4, <2>5 DEF Rests
(* A body that becomes available.                                          *)
<1>7. ASSUME NEW c \in Caller, PutBlob(c)
      PROVE  Source!Next \/ UNCHANGED <<blobs, Seen>>
  <2>1. Seen' = Seen
    BY <1>3, <1>7, WorkGoesOn
  <2>2. blobs' = blobs \/ blobs' = blobs \cup {proc[c].doc}
    BY <1>7 DEF PutBlob
  <2>3. proc[c].doc \in Body
    BY <1>1, <1>7 DEF PutBlob, CallerOK, Proc
  <2>4. blobs' = blobs \cup {proc[c].doc} => Source!Serve(proc[c].doc)
    BY <2>1 DEF Source!Serve, Seen
  <2> QED BY <2>1, <2>2, <2>3, <2>4 DEF Source!Next
<1>8. ASSUME NEW c \in Caller,
             Look(c) \/ ReadBlob(c) \/ Get(c) \/ DecodeFails(c) \/ Store(c) \/ RecordPackument(c)
      PROVE  UNCHANGED <<blobs, Seen>>
  <2>1. blobs' = blobs
    BY <1>8 DEF Look, ReadBlob, Get, DecodeFails, Store, RecordPackument, disk
  <2> QED BY <1>3, <1>8, <2>1, WorkGoesOn
<1>9. ASSUME NEW c \in Caller, Join(c) \/ Settle(c) \/ RemoveFlight(c)
      PROVE  UNCHANGED <<blobs, Seen>>
  <2>1. blobs' = blobs
    BY <1>9 DEF Join, Settle, RemoveFlight, disk
  <2>2. ASSUME NEW d \in Caller
        PROVE  CallOf(proc'[d]) = CallOf(proc[d])
    <3>1. \/ proc'[d] = proc[d]
          \/ /\ proc'[d].want = proc[d].want
             /\ proc[d].pc \notin {"idle", "returned"} /\ proc'[d].pc \notin {"idle", "returned"}
      <4>1. CASE Join(c)
        BY <1>1, <4>1 DEF Join, Proc
      <4>2. CASE Settle(c)
        BY <1>1, <4>2 DEF Settle, Proc
      <4>3. CASE RemoveFlight(c)
        BY <1>1, <4>3 DEF RemoveFlight, Proc
      <4> QED BY <1>9, <4>1, <4>2, <4>3
    <3> QED BY <3>1, SeenStays
  <2> QED BY <2>1, <2>2, Zenon DEF Seen
<1>10. CASE Exit
  <2>1. blobs' = blobs /\ Seen' = [c \in Caller |-> [state |-> "none"]]
    BY <1>10 DEF Exit, disk, Seen, Resting, CallOf
  <2> QED BY <2>1 DEF Source!Next, Source!Exit, Source!Unasked, Seen
<1>11. CASE Tick \/ Publish \/ UNCHANGED vars
  BY <1>11 DEF Tick, Publish, vars, disk, Seen
<1>12. ASSUME NEW c \in Caller, Return(c) \/ LookList(c) \/ FileList(c)
      PROVE  Source!Next \/ UNCHANGED <<blobs, Seen>>
  BY <1>3, <1>6, <1>12, AnswerGoesOn
<1> QED BY <1>5, <1>7, <1>8, <1>9, <1>10, <1>11, <1>12 DEF Next, Step

(* The resolver keeps the promise of MetadataSource: with memo, blobs,     *)
(* durable record and shared downloads between them, each answer is a body *)
(* the registry served, in a form that suffices for the call.              *)
THEOREM ResolverKeepsPromise == ResolverSpec => KeepsPromise
<1>1. ASSUME Init
      PROVE  Source!Init
  <2>1. Seen = [c \in Caller |-> [state |-> "none"]] /\ blobs = {}
    BY <1>1 DEF Init, Seen, Resting, CallOf
  <2> QED BY <2>1 DEF Source!Init, Source!Unasked, Seen
<1>2. ResolverInv /\ [Next]_vars => [Source!Next]_<<blobs, [c \in Caller |-> CallOf(proc[c])]>>
  BY StepRefines DEF Seen
<1> QED BY <1>1, <1>2, InitInv, StepKeeps, PTL
        DEF ResolverSpec, KeepsPromise, Source!Promise

-----------------------------------------------------------------------------
(* Orders.  A comparison is a sign; the first part that differs decides.   *)

Signs == {-1, 0, 1}

(* What follows follows: x, y and z are the signs of a against b, of b     *)
(* against c and of a against c.                                           *)
Chains(x, y, z) == x >= 0 /\ y >= 0 => IF x = 0 /\ y = 0 THEN z = 0 ELSE z > 0

LEMMA SignIs ==
  ASSUME NEW a \in Int, NEW b \in Int
  PROVE /\ Sign(a, b) \in Signs /\ Sign(b, a) = 0 - Sign(a, b)
        /\ (Sign(a, b) = 0 <=> a = b) /\ (Sign(a, b) > 0 <=> a > b)
        /\ (Sign(a, b) < 0 <=> a < b)
BY DEF Sign, Signs

LEMMA SignChains ==
  ASSUME NEW a \in Int, NEW b \in Int, NEW c \in Int
  PROVE Chains(Sign(a, b), Sign(b, c), Sign(a, c))
BY DEF Sign, Chains

LEMMA FirstAt ==
  ASSUME NEW n \in Nat, NEW s, DOMAIN s = 1..n, NEW k \in 1..n, s[k] # 0,
         \A j \in 1..n : j < k => s[j] = 0
  PROVE FirstNonZero(s) = s[k]
<1> DEFINE d == {i \in DOMAIN s : s[i] # 0}
<1>1. k \in d /\ \A y \in d : k <= y
  OBVIOUS
<1>2. \A x \in d : (\A y \in d : x <= y) => x = k
  BY <1>1
<1>3. Min(d) = k
  <2> HIDE DEF d
  <2> QED BY <1>1, <1>2 DEF Min
<1>4. d # {}
  BY <1>1
<1> QED BY <1>3, <1>4 DEF FirstNonZero

LEMMA FirstNone ==
  ASSUME NEW s, \A i \in DOMAIN s : s[i] = 0
  PROVE FirstNonZero(s) = 0
BY DEF FirstNonZero

(* One of the two is the case.                                             *)
LEMMA FirstIs ==
  ASSUME NEW n \in Nat, NEW s, DOMAIN s = 1..n
  PROVE \/ (\A i \in 1..n : s[i] = 0) /\ FirstNonZero(s) = 0
        \/ \E k \in 1..n : /\ s[k] # 0 /\ (\A j \in 1..n : j < k => s[j] = 0)
                           /\ FirstNonZero(s) = s[k]
<1> DEFINE S == {i \in 1..n : s[i] # 0}
<1>1. CASE S = {}
  BY <1>1, FirstNone
<1>2. CASE S # {}
  <2>1. S \subseteq Nat
    OBVIOUS
  <2>2. PICK k \in S : \A m \in S : k <= m
    <3> HIDE DEF S
    <3> QED BY <1>2, <2>1, NatMin
  <2>3. k \in 1..n /\ s[k] # 0 /\ \A j \in 1..n : j < k => s[j] = 0
    BY <2>2
  <2> QED BY <2>3, FirstAt
<1> QED BY <1>1, <1>2

LEMMA FirstOf3 ==
  ASSUME NEW x, NEW y, NEW z
  PROVE FirstNonZero(<<x, y, z>>) = IF x # 0 THEN x ELSE IF y # 0 THEN y ELSE z
<1> DEFINE s == <<x, y, z>>
<1>1. DOMAIN s = 1..3 /\ s[1] = x /\ s[2] = y /\ s[3] = z /\ 3 \in Nat
  OBVIOUS
<1>2. \A j \in 1..3 : (j < 2 => j = 1) /\ (j < 3 => j = 1 \/ j = 2) /\ ~(j < 1)
                      /\ (j = 1 \/ j = 2 \/ j = 3)
  OBVIOUS
<1>3. 1 \in 1..3 /\ 2 \in 1..3 /\ 3 \in 1..3
  OBVIOUS
<1> HIDE DEF s
<1>4. ASSUME x # 0 PROVE FirstNonZero(s) = x
  <2>1. s[1] # 0 /\ \A j \in 1..3 : j < 1 => s[j] = 0
    BY <1>1, <1>2, <1>4
  <2> QED BY <1>1, <1>3, <2>1, FirstAt
<1>5. ASSUME x = 0 /\ y # 0 PROVE FirstNonZero(s) = y
  <2>1. s[2] # 0 /\ \A j \in 1..3 : j < 2 => s[j] = 0
    BY <1>1, <1>2, <1>5
  <2> QED BY <1>1, <1>3, <2>1, FirstAt
<1>6. ASSUME x = 0 /\ y = 0 /\ z # 0 PROVE FirstNonZero(s) = z
  <2>1. s[3] # 0 /\ \A j \in 1..3 : j < 3 => s[j] = 0
    BY <1>1, <1>2, <1>6
  <2> QED BY <1>1, <1>3, <2>1, FirstAt
<1>7. x = 0 /\ y = 0 /\ z = 0 => FirstNonZero(s) = 0
  BY <1>1, <1>2, FirstNone
<1> QED BY <1>4, <1>5, <1>6, <1>7 DEF s

LEMMA FirstOf4 ==
  ASSUME NEW x, NEW y, NEW z, NEW w
  PROVE FirstNonZero(<<x, y, z, w>>) =
          IF x # 0 THEN x ELSE IF y # 0 THEN y ELSE IF z # 0 THEN z ELSE w
<1> DEFINE s == <<x, y, z, w>>
<1>1. DOMAIN s = 1..4 /\ s[1] = x /\ s[2] = y /\ s[3] = z /\ s[4] = w /\ 4 \in Nat
  OBVIOUS
<1>2. \A j \in 1..4 : (j < 2 => j = 1) /\ (j < 3 => j = 1 \/ j = 2)
                      /\ (j < 4 => j = 1 \/ j = 2 \/ j = 3) /\ ~(j < 1)
                      /\ (j = 1 \/ j = 2 \/ j = 3 \/ j = 4)
  OBVIOUS
<1>3. 1 \in 1..4 /\ 2 \in 1..4 /\ 3 \in 1..4 /\ 4 \in 1..4
  OBVIOUS
<1> HIDE DEF s
<1>4. ASSUME x # 0 PROVE FirstNonZero(s) = x
  <2>1. s[1] # 0 /\ \A j \in 1..4 : j < 1 => s[j] = 0
    BY <1>1, <1>2, <1>4
  <2> QED BY <1>1, <1>3, <2>1, FirstAt
<1>5. ASSUME x = 0 /\ y # 0 PROVE FirstNonZero(s) = y
  <2>1. s[2] # 0 /\ \A j \in 1..4 : j < 2 => s[j] = 0
    BY <1>1, <1>2, <1>5
  <2> QED BY <1>1, <1>3, <2>1, FirstAt
<1>6. ASSUME x = 0 /\ y = 0 /\ z # 0 PROVE FirstNonZero(s) = z
  <2>1. s[3] # 0 /\ \A j \in 1..4 : j < 3 => s[j] = 0
    BY <1>1, <1>2, <1>6
  <2> QED BY <1>1, <1>3, <2>1, FirstAt
<1>7. ASSUME x = 0 /\ y = 0 /\ z = 0 /\ w # 0 PROVE FirstNonZero(s) = w
  <2>1. s[4] # 0 /\ \A j \in 1..4 : j < 4 => s[j] = 0
    BY <1>1, <1>2, <1>7
  <2> QED BY <1>1, <1>3, <2>1, FirstAt
<1>8. x = 0 /\ y = 0 /\ z = 0 /\ w = 0 => FirstNonZero(s) = 0
  BY <1>1, <1>2, FirstNone
<1> QED BY <1>4, <1>5, <1>6, <1>7, <1>8 DEF s

(* Signs part by part: the sign of the whole, turned round and chained.    *)
LEMMA WholeFlips ==
  ASSUME NEW n \in Nat, NEW s \in [1..n -> Signs], NEW t \in [1..n -> Signs],
         \A i \in 1..n : t[i] = 0 - s[i]
  PROVE FirstNonZero(s) \in Signs /\ FirstNonZero(t) = 0 - FirstNonZero(s)
<1>1. DOMAIN s = 1..n /\ DOMAIN t = 1..n /\ \A i \in 1..n : s[i] \in Signs /\ t[i] \in Signs
  OBVIOUS
<1>2. CASE (\A i \in 1..n : s[i] = 0) /\ FirstNonZero(s) = 0
  <2>1. \A i \in DOMAIN t : t[i] = 0
    BY <1>1, <1>2
  <2>2. FirstNonZero(t) = 0
    BY <2>1, FirstNone
  <2>3. FirstNonZero(s) = 0 /\ 0 \in Signs /\ 0 - 0 = 0
    BY <1>2 DEF Signs
  <2> QED BY <2>2, <2>3, Zenon
<1>3. CASE \E k \in 1..n : /\ s[k] # 0 /\ (\A j \in 1..n : j < k => s[j] = 0)
                           /\ FirstNonZero(s) = s[k]
  <2>1. PICK k \in 1..n : /\ s[k] # 0 /\ (\A j \in 1..n : j < k => s[j] = 0)
                          /\ FirstNonZero(s) = s[k]
    BY <1>3
  <2>2. t[k] # 0 /\ \A j \in 1..n : j < k => t[j] = 0
    BY <1>1, <2>1 DEF Signs
  <2>3. FirstNonZero(t) = t[k]
    BY <1>1, <2>2, FirstAt
  <2> QED BY <1>1, <2>1, <2>3
<1> QED BY <1>1, <1>2, <1>3, FirstIs

LEMMA WholeChains ==
  ASSUME NEW n \in Nat, NEW s \in [1..n -> Signs], NEW t \in [1..n -> Signs],
         NEW u \in [1..n -> Signs], \A i \in 1..n : Chains(s[i], t[i], u[i])
  PROVE Chains(FirstNonZero(s), FirstNonZero(t), FirstNonZero(u))
<1>1. /\ DOMAIN s = 1..n /\ DOMAIN t = 1..n /\ DOMAIN u = 1..n
      /\ \A i \in 1..n : s[i] \in Int /\ t[i] \in Int /\ u[i] \in Int
  BY DEF Signs
<1> DEFINE S == {i \in 1..n : s[i] # 0 \/ t[i] # 0}
<1> SUFFICES ASSUME FirstNonZero(s) >= 0, FirstNonZero(t) >= 0
             PROVE IF FirstNonZero(s) = 0 /\ FirstNonZero(t) = 0
                   THEN FirstNonZero(u) = 0 ELSE FirstNonZero(u) > 0
  BY DEF Chains
<1>2. CASE S = {}
  <2>1. \A i \in 1..n : s[i] = 0 /\ t[i] = 0
    BY <1>2
  <2>2. \A i \in DOMAIN u : u[i] = 0
    BY <1>1, <2>1 DEF Chains
  <2>3. FirstNonZero(s) = 0 /\ FirstNonZero(t) = 0 /\ FirstNonZero(u) = 0
    BY <1>1, <2>1, <2>2, FirstNone
  <2> QED BY <2>3
<1>3. CASE S # {}
  <2>1. S \subseteq Nat
    OBVIOUS
  <2>2. PICK k \in S : \A m \in S : k <= m
    <3> HIDE DEF S
    <3> QED BY <1>3, <2>1, NatMin
  <2>3. /\ k \in 1..n /\ (s[k] # 0 \/ t[k] # 0)
        /\ \A j \in 1..n : j < k => s[j] = 0 /\ t[j] = 0
    BY <2>2
  <2>4. s[k] # 0 => FirstNonZero(s) = s[k]
    BY <1>1, <2>3, FirstAt
  <2>5. t[k] # 0 => FirstNonZero(t) = t[k]
    BY <1>1, <2>3, FirstAt
  <2>6. s[k] >= 0 /\ t[k] >= 0
    BY <1>1, <2>3, <2>4, <2>5
  <2>7. u[k] > 0 /\ \A j \in 1..n : j < k => u[j] = 0
    BY <1>1, <2>3, <2>6 DEF Chains
  <2>8. FirstNonZero(u) = u[k]
    <3>1. u[k] # 0 /\ k \in 1..n
      BY <2>3, <2>7
    <3> HIDE DEF S
    <3> QED BY <1>1, <2>7, <3>1, FirstAt
  <2>9. ~(FirstNonZero(s) = 0 /\ FirstNonZero(t) = 0)
    BY <2>3, <2>4, <2>5
  <2> QED BY <2>7, <2>8, <2>9
<1> QED BY <1>2, <1>3

(* The signs of the whole chain, where those of three or four parts do.    *)
LEMMA ThreeChain ==
  ASSUME NEW x1 \in Signs, NEW x2 \in Signs, NEW x3 \in Signs,
         NEW y1 \in Signs, NEW y2 \in Signs, NEW y3 \in Signs,
         NEW z1 \in Signs, NEW z2 \in Signs, NEW z3 \in Signs,
         Chains(x1, y1, z1), Chains(x2, y2, z2), Chains(x3, y3, z3)
  PROVE Chains(FirstNonZero(<<x1, x2, x3>>), FirstNonZero(<<y1, y2, y3>>),
               FirstNonZero(<<z1, z2, z3>>))
<1>1. /\ FirstNonZero(<<x1, x2, x3>>) = IF x1 # 0 THEN x1 ELSE IF x2 # 0 THEN x2 ELSE x3
      /\ FirstNonZero(<<y1, y2, y3>>) = IF y1 # 0 THEN y1 ELSE IF y2 # 0 THEN y2 ELSE y3
      /\ FirstNonZero(<<z1, z2, z3>>) = IF z1 # 0 THEN z1 ELSE IF z2 # 0 THEN z2 ELSE z3
  BY FirstOf3, Zenon
<1> QED BY <1>1 DEF Chains, Signs

LEMMA FourChain ==
  ASSUME NEW x1 \in Signs, NEW x2 \in Signs, NEW x3 \in Signs, NEW x4 \in Signs,
         NEW y1 \in Signs, NEW y2 \in Signs, NEW y3 \in Signs, NEW y4 \in Signs,
         NEW z1 \in Signs, NEW z2 \in Signs, NEW z3 \in Signs, NEW z4 \in Signs,
         Chains(x1, y1, z1), Chains(x2, y2, z2), Chains(x3, y3, z3), Chains(x4, y4, z4)
  PROVE Chains(FirstNonZero(<<x1, x2, x3, x4>>), FirstNonZero(<<y1, y2, y3, y4>>),
               FirstNonZero(<<z1, z2, z3, z4>>))
<1>1. FirstNonZero(<<x1, x2, x3, x4>>) =
        IF x1 # 0 THEN x1 ELSE IF x2 # 0 THEN x2 ELSE IF x3 # 0 THEN x3 ELSE x4
  BY FirstOf4
<1>2. FirstNonZero(<<y1, y2, y3, y4>>) =
        IF y1 # 0 THEN y1 ELSE IF y2 # 0 THEN y2 ELSE IF y3 # 0 THEN y3 ELSE y4
  BY FirstOf4
<1>3. FirstNonZero(<<z1, z2, z3, z4>>) =
        IF z1 # 0 THEN z1 ELSE IF z2 # 0 THEN z2 ELSE IF z3 # 0 THEN z3 ELSE z4
  BY FirstOf4
<1> QED BY <1>1, <1>2, <1>3 DEF Chains, Signs

(* Semver: identifiers, ...                                                *)
LEMMA IdIs ==
  ASSUME NEW a \in Identifiers, NEW b \in Identifiers
  PROVE /\ CompareId(a, b) \in Signs /\ CompareId(b, a) = 0 - CompareId(a, b)
        /\ CompareId(a, b) = 0 <=> a = b
<1>1. /\ a.word \in BOOLEAN /\ b.word \in BOOLEAN /\ a.rank \in Int /\ b.rank \in Int
      /\ (a = b <=> a.word = b.word /\ a.rank = b.rank)
  BY DEF Identifiers
<1>2. CASE a.word = b.word
  BY <1>1, <1>2, SignIs DEF CompareId
<1>3. CASE a.word = FALSE /\ b.word = TRUE
  BY <1>1, <1>3 DEF CompareId, Signs
<1>4. CASE a.word = TRUE /\ b.word = FALSE
  BY <1>1, <1>4 DEF CompareId, Signs
<1> QED BY <1>1, <1>2, <1>3, <1>4

LEMMA IdChains ==
  ASSUME NEW a \in Identifiers, NEW b \in Identifiers, NEW c \in Identifiers
  PROVE Chains(CompareId(a, b), CompareId(b, c), CompareId(a, c))
<1>1. /\ a.word \in BOOLEAN /\ b.word \in BOOLEAN /\ c.word \in BOOLEAN
      /\ a.rank \in Int /\ b.rank \in Int /\ c.rank \in Int
  BY DEF Identifiers
<1>2. CompareId(a, b) = IF a.word = b.word THEN Sign(a.rank, b.rank) ELSE IF b.word THEN -1 ELSE 1
  BY DEF CompareId
<1>3. CompareId(b, c) = IF b.word = c.word THEN Sign(b.rank, c.rank) ELSE IF c.word THEN -1 ELSE 1
  BY DEF CompareId
<1>4. CompareId(a, c) = IF a.word = c.word THEN Sign(a.rank, c.rank) ELSE IF c.word THEN -1 ELSE 1
  BY DEF CompareId
<1> QED BY <1>1, <1>2, <1>3, <1>4, SignChains, SignIs DEF Chains, Sign

(* ... lists of them, of which one that has ended is below one that goes   *)
(* on, ...                                                                 *)
PreAt(a, b, i) ==
  IF i <= Len(a) THEN IF i <= Len(b) THEN CompareId(a[i], b[i]) ELSE 1
  ELSE IF i <= Len(b) THEN -1 ELSE 0

LEMMA PreAtIs ==
  ASSUME NEW a \in Seq(Identifiers), NEW b \in Seq(Identifiers), NEW i \in Nat \ {0}
  PROVE /\ PreAt(a, b, i) \in Signs /\ PreAt(b, a, i) = 0 - PreAt(a, b, i)
        /\ PreAt(a, b, i) = 0 => (i <= Len(a) <=> i <= Len(b)) /\ (i <= Len(a) => a[i] = b[i])
<1>1. /\ i <= Len(a) => a[i] \in Identifiers
      /\ i <= Len(b) => b[i] \in Identifiers
  OBVIOUS
<1>2. CASE i <= Len(a) /\ i <= Len(b)
  BY <1>1, <1>2, IdIs DEF PreAt
<1>3. CASE ~(i <= Len(a) /\ i <= Len(b))
  BY <1>3 DEF PreAt, Signs
<1> QED BY <1>2, <1>3

LEMMA PreAtChains ==
  ASSUME NEW a \in Seq(Identifiers), NEW b \in Seq(Identifiers), NEW c \in Seq(Identifiers),
         NEW i \in Nat \ {0}
  PROVE Chains(PreAt(a, b, i), PreAt(b, c, i), PreAt(a, c, i))
<1>1. /\ i <= Len(a) => a[i] \in Identifiers
      /\ i <= Len(b) => b[i] \in Identifiers
      /\ i <= Len(c) => c[i] \in Identifiers
  OBVIOUS
<1>2. CASE i <= Len(a) /\ i <= Len(b) /\ i <= Len(c)
  BY <1>1, <1>2, IdChains DEF PreAt
<1>3. CASE ~(i <= Len(a) /\ i <= Len(b) /\ i <= Len(c))
  <2>1. PreAt(a, b, i) >= 0 => i <= Len(a) \/ ~(i <= Len(b))
    BY DEF PreAt
  <2>2. PreAt(b, c, i) >= 0 => i <= Len(b) \/ ~(i <= Len(c))
    BY DEF PreAt
  <2>3. CASE ~(i <= Len(b))
    BY <2>3, <2>2 DEF PreAt, Chains
  <2>4. CASE i <= Len(b)
    <3>1. CASE ~(i <= Len(a))
      BY <2>1, <3>1, <2>4 DEF Chains
    <3>2. CASE i <= Len(a) /\ ~(i <= Len(c))
      <4>1. PreAt(a, c, i) = 1 /\ PreAt(b, c, i) = 1
        BY <2>4, <3>2 DEF PreAt
      <4> QED BY <4>1 DEF Chains
    <3> QED BY <1>3, <2>4, <3>1, <3>2
  <2> QED BY <2>3, <2>4
<1> QED BY <1>2, <1>3

LEMMA PreIs ==
  ASSUME NEW a \in Seq(Identifiers), NEW b \in Seq(Identifiers), a # <<>>, b # <<>>,
         NEW n \in Nat, Len(a) <= n, Len(b) <= n
  PROVE ComparePre(a, b) = FirstNonZero([i \in 1..n |-> PreAt(a, b, i)])
<1> DEFINE m == Len(Shorter(a, b))
           s == [i \in DOMAIN Shorter(a, b) |-> CompareId(a[i], b[i])] \o <<Sign(Len(a), Len(b))>>
           t == [i \in 1..n |-> PreAt(a, b, i)]
<1>1. /\ Len(a) \in Nat /\ Len(b) \in Nat /\ m \in Nat /\ m <= Len(a) /\ m <= Len(b)
      /\ (m = Len(a) \/ m = Len(b)) /\ DOMAIN Shorter(a, b) = 1..m
  BY DEF Shorter
<1>2. ComparePre(a, b) = FirstNonZero(s)
  BY DEF ComparePre
<1>3. /\ DOMAIN s = 1..(m + 1) /\ s[m + 1] = Sign(Len(a), Len(b))
      /\ \A i \in 1..m : s[i] = CompareId(a[i], b[i])
  <2> DEFINE q == [i \in 1..m |-> CompareId(a[i], b[i])]
             e == Sign(Len(a), Len(b))
  <2>1. s = q \o <<e>>
    BY <1>1
  <2>2. q \in Seq(Int) /\ Len(q) = m /\ e \in Int
    <3>1. \A i \in 1..m : CompareId(a[i], b[i]) \in Int
      <4> TAKE i \in 1..m
      <4>1. a[i] \in Identifiers /\ b[i] \in Identifiers
        BY <1>1
      <4> QED BY <4>1, IdIs DEF Signs
    <3>2. e \in Int
      BY <1>1, SignIs DEF Signs
    <3> QED BY <3>1, <3>2, <1>1
  <2>3. \A i \in 1..m : q[i] = CompareId(a[i], b[i])
    OBVIOUS
  <2> HIDE DEF q, e, m
  <2>4. /\ DOMAIN (q \o <<e>>) = 1..(m + 1) /\ (q \o <<e>>)[m + 1] = e
        /\ \A i \in 1..m : (q \o <<e>>)[i] = q[i]
    BY <1>1, <2>2
  <2> HIDE DEF s
  <2>5. s[m + 1] = e /\ DOMAIN s = 1..(m + 1) /\ \A i \in 1..m : s[i] = q[i]
    BY <2>1, <2>4
  <2> QED BY <2>3, <2>5 DEF e
<1>4. DOMAIN t = 1..n /\ \A i \in 1..n : t[i] = PreAt(a, b, i)
  OBVIOUS
<1> HIDE DEF s, t, m
<1>5. \A i \in 1..m : i \in 1..n /\ s[i] = t[i]
  BY <1>1, <1>3, <1>4 DEF PreAt
<1>6. CASE \E i \in 1..m : s[i] # 0
  <2> DEFINE S == {i \in 1..m : s[i] # 0}
  <2>1. S \subseteq Nat /\ S # {}
    BY <1>1, <1>6
  <2>2. PICK k \in S : \A j \in S : k <= j
    <3> HIDE DEF S
    <3> QED BY <2>1, NatMin
  <2>3. /\ k \in 1..m /\ k \in 1..(m + 1) /\ k \in 1..n /\ s[k] # 0 /\ t[k] # 0 /\ s[k] = t[k]
        /\ \A j \in 1..m : j < k => s[j] = 0 /\ t[j] = 0
    BY <1>1, <1>5, <2>2
  <2>4. \A j \in 1..(m + 1) : j < k => s[j] = 0
    BY <1>1, <2>3
  <2>5. \A j \in 1..n : j < k => t[j] = 0
    BY <1>1, <2>3
  <2>6. FirstNonZero(s) = s[k] /\ FirstNonZero(t) = t[k]
    <3> HIDE DEF S
    <3>1. m + 1 \in Nat
      BY <1>1
    <3>2. FirstNonZero(s) = s[k]
      BY <1>3, <2>3, <2>4, <3>1, FirstAt
    <3>3. FirstNonZero(t) = t[k]
      BY <1>4, <2>3, <2>5, FirstAt
    <3> QED BY <3>2, <3>3
  <2> QED BY <1>2, <2>3, <2>6 DEF t
<1>7. CASE ~\E i \in 1..m : s[i] # 0
  <2>1. \A i \in 1..m : s[i] = 0 /\ t[i] = 0
    BY <1>5, <1>7
  <2>2. CASE Len(a) = Len(b)
    <3>1. s[m + 1] = 0
      BY <1>1, <1>3, <2>2, SignIs
    <3>2. \A i \in DOMAIN s : s[i] = 0
      BY <1>1, <1>3, <2>1, <3>1
    <3>3. \A i \in DOMAIN t : t[i] = 0
      <4> SUFFICES ASSUME NEW i \in 1..n PROVE t[i] = 0
        BY <1>4
      <4>1. CASE i \in 1..m
        BY <2>1, <4>1
      <4>2. CASE i \notin 1..m
        BY <1>1, <1>4, <2>2, <4>2 DEF PreAt
      <4> QED BY <4>1, <4>2
    <3> QED BY <1>2, <3>2, <3>3, FirstNone DEF t
  <2>3. CASE Len(a) # Len(b)
    <3>1. s[m + 1] # 0
      BY <1>1, <1>3, <2>3, SignIs
    <3>2. m + 1 \in 1..n /\ m + 1 \in 1..(m + 1) /\ m + 1 \in Nat
      BY <1>1, <2>3
    <3>3. t[m + 1] = s[m + 1]
      BY <1>1, <1>3, <1>4, <2>3, <3>2 DEF PreAt, Sign
    <3>4. /\ \A j \in 1..(m + 1) : j < m + 1 => s[j] = 0
          /\ \A j \in 1..n : j < m + 1 => t[j] = 0
      BY <1>1, <2>1
    <3>5. FirstNonZero(s) = s[m + 1]
      BY <1>3, <3>1, <3>2, <3>4, FirstAt
    <3>6. FirstNonZero(t) = t[m + 1]
      <4>1. t[m + 1] # 0
        BY <3>1, <3>3
      <4> QED BY <1>4, <3>2, <3>4, <4>1, FirstAt
    <3> QED BY <1>2, <3>3, <3>5, <3>6 DEF t
  <2> QED BY <2>2, <2>3
<1> QED BY <1>6, <1>7

(* The sign of prerelease lists, turned round, and of equal ones.          *)
LEMMA PreOrder ==
  ASSUME NEW a \in Seq(Identifiers), NEW b \in Seq(Identifiers)
  PROVE /\ ComparePre(a, b) \in Signs /\ ComparePre(b, a) = 0 - ComparePre(a, b)
        /\ ComparePre(a, b) = 0 <=> a = b
<1>1. Len(a) \in Nat /\ Len(b) \in Nat
  OBVIOUS
<1>2. CASE a = <<>> \/ b = <<>>
  <2>1. ComparePre(a, b) = Sign(Len(b), Len(a)) /\ ComparePre(b, a) = Sign(Len(a), Len(b))
    BY <1>2 DEF ComparePre
  <2>2. Len(a) = Len(b) <=> a = b
    BY <1>2
  <2> QED BY <1>1, <2>1, <2>2, SignIs
<1>3. CASE a # <<>> /\ b # <<>>
  <2> DEFINE n == Len(a) + Len(b)
             s == [i \in 1..n |-> PreAt(a, b, i)]
             t == [i \in 1..n |-> PreAt(b, a, i)]
  <2>1. n \in Nat /\ Len(a) <= n /\ Len(b) <= n
    BY <1>1
  <2>2. \A i \in 1..n : i \in Nat \ {0}
    OBVIOUS
  <2> HIDE DEF n
  <2>3. ComparePre(a, b) = FirstNonZero(s) /\ ComparePre(b, a) = FirstNonZero(t)
    BY <1>3, <2>1, PreIs
  <2>4. /\ s \in [1..n -> Signs] /\ t \in [1..n -> Signs]
        /\ \A i \in 1..n : t[i] = 0 - s[i]
    BY <2>2, PreAtIs
  <2>5. /\ DOMAIN s = 1..n
        /\ \A i \in 1..n : s[i] = PreAt(a, b, i)
    OBVIOUS
  <2> HIDE DEF s, t
  <2>6. FirstNonZero(s) \in Signs /\ FirstNonZero(t) = 0 - FirstNonZero(s)
    BY <2>1, <2>4, WholeFlips
  <2>7. ASSUME FirstNonZero(s) = 0 PROVE a = b
    <3>1. \A i \in 1..n : s[i] = 0
      BY <2>1, <2>5, <2>7, FirstIs
    <3>2. \A i \in 1..n : (i <= Len(a) <=> i <= Len(b)) /\ (i <= Len(a) => a[i] = b[i])
      BY <2>2, <2>5, <3>1, PreAtIs
    <3>3. Len(a) = Len(b)
      <4>1. Len(a) \in 1..n /\ Len(b) \in 1..n
        BY <1>1, <1>3 DEF n
      <4> QED BY <1>1, <3>2, <4>1
    <3>4. \A i \in 1..Len(a) : a[i] = b[i]
      BY <1>1, <2>1, <3>2
    <3> QED BY <3>3, <3>4
  <2>8. ASSUME a = b PROVE FirstNonZero(s) = 0
    <3>1. \A i \in 1..n : s[i] = t[i]
      BY <2>8 DEF s, t
    <3>2. \A i \in DOMAIN s : s[i] = 0
      BY <2>4, <2>5, <3>1 DEF Signs
    <3> QED BY <3>2, FirstNone
  <2> QED BY <2>3, <2>6, <2>7, <2>8
<1> QED BY <1>2, <1>3

LEMMA PreChains ==
  ASSUME NEW a \in Seq(Identifiers), NEW b \in Seq(Identifiers), NEW c \in Seq(Identifiers)
  PROVE Chains(ComparePre(a, b), ComparePre(b, c), ComparePre(a, c))
<1>1. /\ Len(a) \in Nat /\ Len(b) \in Nat /\ Len(c) \in Nat
      /\ (a = <<>> <=> Len(a) = 0) /\ (b = <<>> <=> Len(b) = 0) /\ (c = <<>> <=> Len(c) = 0)
  OBVIOUS
<1>2. CASE a # <<>> /\ b # <<>> /\ c # <<>>
  <2> DEFINE n == Len(a) + Len(b) + Len(c)
             s == [i \in 1..n |-> PreAt(a, b, i)]
             t == [i \in 1..n |-> PreAt(b, c, i)]
             u == [i \in 1..n |-> PreAt(a, c, i)]
  <2>1. n \in Nat /\ Len(a) <= n /\ Len(b) <= n /\ Len(c) <= n
    BY <1>1
  <2>2. \A i \in 1..n : i \in Nat \ {0}
    OBVIOUS
  <2> HIDE DEF n
  <2>3. ComparePre(a, b) = FirstNonZero(s)
    BY <1>2, <2>1, PreIs
  <2>4. ComparePre(b, c) = FirstNonZero(t)
    BY <1>2, <2>1, PreIs
  <2>5. ComparePre(a, c) = FirstNonZero(u)
    BY <1>2, <2>1, PreIs
  <2>6. s \in [1..n -> Signs] /\ t \in [1..n -> Signs] /\ u \in [1..n -> Signs]
    BY <2>2, PreAtIs
  <2>7. \A i \in 1..n : Chains(s[i], t[i], u[i])
    BY <2>2, PreAtChains
  <2> HIDE DEF s, t, u
  <2>8. Chains(FirstNonZero(s), FirstNonZero(t), FirstNonZero(u))
    BY <2>1, <2>6, <2>7, WholeChains
  <2> QED BY <2>3, <2>4, <2>5, <2>8
<1>3. CASE a = <<>> \/ b = <<>> \/ c = <<>>
  <2>1. a = <<>> \/ b = <<>> => ComparePre(a, b) = Sign(Len(b), Len(a))
    BY DEF ComparePre
  <2>2. b = <<>> \/ c = <<>> => ComparePre(b, c) = Sign(Len(c), Len(b))
    BY DEF ComparePre
  <2>3. a = <<>> \/ c = <<>> => ComparePre(a, c) = Sign(Len(c), Len(a))
    BY DEF ComparePre
  <2>4. ComparePre(a, b) \in Signs /\ ComparePre(b, c) \in Signs /\ ComparePre(a, c) \in Signs
    BY PreOrder
  <2>5. CASE a = <<>> /\ b = <<>>
    BY <1>1, <2>1, <2>2, <2>3, <2>5 DEF Chains, Sign
  <2>6. CASE a = <<>> /\ b # <<>>
    BY <1>1, <2>1, <2>2, <2>3, <2>4, <2>6 DEF Chains, Sign, Signs
  <2>7. CASE a # <<>>
    BY <1>1, <1>3, <2>1, <2>2, <2>3, <2>7 DEF Chains, Sign
  <2> QED BY <2>5, <2>6, <2>7
<1> QED BY <1>2, <1>3

(* ... and versions.                                                       *)
LEMMA SemIs ==
  ASSUME NEW a \in SemVersions, NEW b \in SemVersions
  PROVE /\ a.nums[1] \in Nat /\ a.nums[2] \in Nat /\ a.nums[3] \in Nat
        /\ DOMAIN a.nums = 1..3 /\ a.pre \in Seq(Identifiers)
        /\ a.nums = b.nums <=> /\ a.nums[1] = b.nums[1] /\ a.nums[2] = b.nums[2]
                               /\ a.nums[3] = b.nums[3]
        /\ a = b <=> a.nums = b.nums /\ a.pre = b.pre
<1>1. a.nums \in [1..3 -> Nat] /\ b.nums \in [1..3 -> Nat] /\ a.pre \in Seq(Identifiers)
  BY DEF SemVersions
<1>2. \A i \in 1..3 : i = 1 \/ i = 2 \/ i = 3
  OBVIOUS
<1>3. a = b <=> a.nums = b.nums /\ a.pre = b.pre
  BY DEF SemVersions
<1>4. (\A i \in 1..3 : a.nums[i] = b.nums[i]) => a.nums = b.nums
  BY <1>1
<1> QED BY <1>1, <1>2, <1>3, <1>4

LEMMA CompareIs ==
  ASSUME NEW a \in SemVersions, NEW b \in SemVersions
  PROVE Compare(a, b) = IF a.nums[1] # b.nums[1] THEN Sign(a.nums[1], b.nums[1])
                        ELSE IF a.nums[2] # b.nums[2] THEN Sign(a.nums[2], b.nums[2])
                        ELSE IF a.nums[3] # b.nums[3] THEN Sign(a.nums[3], b.nums[3])
                        ELSE ComparePre(a.pre, b.pre)
<1>1. /\ a.nums[1] \in Int /\ a.nums[2] \in Int /\ a.nums[3] \in Int
      /\ b.nums[1] \in Int /\ b.nums[2] \in Int /\ b.nums[3] \in Int
  BY SemIs
<1> QED BY <1>1, SignIs, FirstOf4 DEF Compare

LEMMA SemOrder ==
  ASSUME NEW a \in SemVersions, NEW b \in SemVersions
  PROVE /\ Compare(a, b) \in Signs /\ Compare(b, a) = 0 - Compare(a, b)
        /\ Compare(a, b) = 0 <=> a = b
<1>1. /\ a.nums[1] \in Int /\ a.nums[2] \in Int /\ a.nums[3] \in Int
      /\ b.nums[1] \in Int /\ b.nums[2] \in Int /\ b.nums[3] \in Int
      /\ a.pre \in Seq(Identifiers) /\ b.pre \in Seq(Identifiers)
      /\ a.nums = b.nums <=> /\ a.nums[1] = b.nums[1] /\ a.nums[2] = b.nums[2]
                             /\ a.nums[3] = b.nums[3]
      /\ a = b <=> a.nums = b.nums /\ a.pre = b.pre
  BY SemIs
<1> DEFINE p == ComparePre(a.pre, b.pre)
           q == ComparePre(b.pre, a.pre)
<1>2. p \in Signs /\ q = 0 - p /\ (p = 0 <=> a.pre = b.pre)
  BY <1>1, PreOrder
<1>3. Compare(a, b) = IF a.nums[1] # b.nums[1] THEN Sign(a.nums[1], b.nums[1])
                      ELSE IF a.nums[2] # b.nums[2] THEN Sign(a.nums[2], b.nums[2])
                      ELSE IF a.nums[3] # b.nums[3] THEN Sign(a.nums[3], b.nums[3]) ELSE p
  BY CompareIs
<1>4. Compare(b, a) = IF b.nums[1] # a.nums[1] THEN Sign(b.nums[1], a.nums[1])
                      ELSE IF b.nums[2] # a.nums[2] THEN Sign(b.nums[2], a.nums[2])
                      ELSE IF b.nums[3] # a.nums[3] THEN Sign(b.nums[3], a.nums[3]) ELSE q
  BY CompareIs
<1> HIDE DEF p, q
<1> QED BY <1>1, <1>2, <1>3, <1>4 DEF Sign, Signs

LEMMA SemChains ==
  ASSUME NEW a \in SemVersions, NEW b \in SemVersions, NEW c \in SemVersions
  PROVE Chains(Compare(a, b), Compare(b, c), Compare(a, c))
<1>1. /\ a.nums[1] \in Int /\ a.nums[2] \in Int /\ a.nums[3] \in Int
      /\ b.nums[1] \in Int /\ b.nums[2] \in Int /\ b.nums[3] \in Int
      /\ c.nums[1] \in Int /\ c.nums[2] \in Int /\ c.nums[3] \in Int
      /\ a.pre \in Seq(Identifiers) /\ b.pre \in Seq(Identifiers) /\ c.pre \in Seq(Identifiers)
  BY SemIs
<1>2. /\ ComparePre(a.pre, b.pre) \in Signs /\ ComparePre(b.pre, c.pre) \in Signs
      /\ ComparePre(a.pre, c.pre) \in Signs
      /\ Chains(ComparePre(a.pre, b.pre), ComparePre(b.pre, c.pre), ComparePre(a.pre, c.pre))
  BY <1>1, PreOrder, PreChains
<1>3. ASSUME NEW i \in {1, 2, 3}
      PROVE /\ Sign(a.nums[i], b.nums[i]) \in Signs /\ Sign(b.nums[i], c.nums[i]) \in Signs
            /\ Sign(a.nums[i], c.nums[i]) \in Signs
            /\ Chains(Sign(a.nums[i], b.nums[i]), Sign(b.nums[i], c.nums[i]),
                      Sign(a.nums[i], c.nums[i]))
  <2>1. a.nums[i] \in Int /\ b.nums[i] \in Int /\ c.nums[i] \in Int
    BY <1>1
  <2> QED BY <2>1, SignIs, SignChains
<1> QED BY <1>2, <1>3, FourChain DEF Compare

(* Python: releases, of any length, ...                                    *)
LEMMA AtIs ==
  ASSUME NEW a \in Seq(Nat), NEW i \in Nat \ {0}
  PROVE At(a, i) \in Nat /\ (i <= Len(a) => At(a, i) = a[i]) /\ (i > Len(a) => At(a, i) = 0)
BY DEF At

LEMMA Widened ==
  ASSUME NEW m \in Nat, NEW n \in Nat, m <= n, NEW s, NEW t, DOMAIN s = 1..m, DOMAIN t = 1..n,
         \A i \in 1..m : s[i] = t[i], \A i \in 1..n : i > m => t[i] = 0
  PROVE FirstNonZero(s) = FirstNonZero(t)
<1>1. CASE (\A i \in 1..m : s[i] = 0) /\ FirstNonZero(s) = 0
  <2>1. \A i \in DOMAIN t : t[i] = 0
    <3> SUFFICES ASSUME NEW i \in 1..n PROVE t[i] = 0
      OBVIOUS
    <3>1. CASE i <= m
      <4>1. i \in 1..m
        BY <3>1
      <4> QED BY <1>1, <4>1
    <3>2. CASE i > m
      BY <3>2
    <3> QED BY <3>1, <3>2
  <2> QED BY <1>1, <2>1, FirstNone
<1>2. ASSUME NEW k \in 1..m, s[k] # 0, \A j \in 1..m : j < k => s[j] = 0,
             FirstNonZero(s) = s[k]
      PROVE FirstNonZero(s) = FirstNonZero(t)
  <2>1. k \in 1..n /\ t[k] # 0 /\ \A j \in 1..n : j < k => t[j] = 0
    BY <1>2
  <2>2. FirstNonZero(t) = t[k]
    BY <2>1, FirstAt
  <2> QED BY <1>2, <2>2
<1> QED BY <1>1, <1>2, FirstIs

LEMMA ReleasesWide ==
  ASSUME NEW a \in Seq(Nat), NEW b \in Seq(Nat), NEW n \in Nat, Len(a) <= n, Len(b) <= n
  PROVE CompareReleases(a, b) = FirstNonZero([i \in 1..n |-> Sign(At(a, i), At(b, i))])
<1> DEFINE m == IF Len(a) < Len(b) THEN Len(b) ELSE Len(a)
           s == [i \in 1..m |-> Sign(At(a, i), At(b, i))]
           t == [i \in 1..n |-> Sign(At(a, i), At(b, i))]
<1>1. m \in Nat /\ m <= n /\ Len(a) <= m /\ Len(b) <= m
  OBVIOUS
<1>2. CompareReleases(a, b) = FirstNonZero(s)
  BY DEF CompareReleases
<1> HIDE DEF m
<1>3. DOMAIN s = 1..m /\ DOMAIN t = 1..n /\ \A i \in 1..m : s[i] = t[i]
  BY <1>1
<1>4. ASSUME NEW i \in 1..n, i > m PROVE t[i] = 0
  <2>1. At(a, i) = 0 /\ At(b, i) = 0
    BY <1>1, <1>4 DEF At
  <2> QED BY <2>1 DEF Sign
<1> HIDE DEF s, t
<1>5. FirstNonZero(s) = FirstNonZero(t)
  BY <1>1, <1>3, <1>4, Widened
<1> QED BY <1>2, <1>5 DEF t

LEMMA ReleaseOrder ==
  ASSUME NEW a \in Seq(Nat), NEW b \in Seq(Nat)
  PROVE /\ CompareReleases(a, b) \in Signs
        /\ CompareReleases(b, a) = 0 - CompareReleases(a, b)
        /\ CompareReleases(a, b) = 0 <=> \A i \in Nat \ {0} : At(a, i) = At(b, i)
<1> DEFINE n == Len(a) + Len(b)
           s == [i \in 1..n |-> Sign(At(a, i), At(b, i))]
           t == [i \in 1..n |-> Sign(At(b, i), At(a, i))]
<1>1. n \in Nat /\ Len(a) <= n /\ Len(b) <= n /\ Len(a) \in Nat /\ Len(b) \in Nat
  OBVIOUS
<1>2. \A i \in 1..n : i \in Nat \ {0}
  OBVIOUS
<1> HIDE DEF n
<1>3. CompareReleases(a, b) = FirstNonZero(s)
  BY <1>1, ReleasesWide
<1>4. CompareReleases(b, a) = FirstNonZero(t)
  BY <1>1, ReleasesWide
<1>5. ASSUME NEW i \in 1..n
      PROVE /\ s[i] \in Signs /\ t[i] \in Signs /\ t[i] = 0 - s[i]
            /\ s[i] = 0 <=> At(a, i) = At(b, i)
  <2>1. At(a, i) \in Int /\ At(b, i) \in Int
    BY <1>2, AtIs
  <2> QED BY <2>1, SignIs
<1>6. DOMAIN s = 1..n /\ DOMAIN t = 1..n /\ s \in [1..n -> Signs] /\ t \in [1..n -> Signs]
  BY <1>5
<1> HIDE DEF s, t
<1>7. FirstNonZero(s) \in Signs /\ FirstNonZero(t) = 0 - FirstNonZero(s)
  BY <1>1, <1>5, <1>6, WholeFlips
<1>8. ASSUME FirstNonZero(s) = 0, NEW i \in Nat \ {0} PROVE At(a, i) = At(b, i)
  <2>1. \A j \in 1..n : s[j] = 0
    BY <1>1, <1>6, <1>8, FirstIs
  <2>2. CASE i \in 1..n
    BY <1>5, <2>1, <2>2
  <2>3. CASE i \notin 1..n
    <3>1. i > Len(a) /\ i > Len(b)
      BY <1>1, <2>3
    <3> QED BY <3>1, AtIs
  <2> QED BY <2>2, <2>3
<1>9. ASSUME \A i \in Nat \ {0} : At(a, i) = At(b, i) PROVE FirstNonZero(s) = 0
  <2>1. \A i \in DOMAIN s : s[i] = 0
    BY <1>2, <1>5, <1>6, <1>9
  <2> QED BY <2>1, FirstNone
<1> QED BY <1>3, <1>4, <1>7, <1>8, <1>9

LEMMA ReleaseChains ==
  ASSUME NEW a \in Seq(Nat), NEW b \in Seq(Nat), NEW c \in Seq(Nat)
  PROVE Chains(CompareReleases(a, b), CompareReleases(b, c), CompareReleases(a, c))
<1> DEFINE n == Len(a) + Len(b) + Len(c)
           s == [i \in 1..n |-> Sign(At(a, i), At(b, i))]
           t == [i \in 1..n |-> Sign(At(b, i), At(c, i))]
           u == [i \in 1..n |-> Sign(At(a, i), At(c, i))]
<1>1. n \in Nat /\ Len(a) <= n /\ Len(b) <= n /\ Len(c) <= n
  OBVIOUS
<1>2. \A i \in 1..n : i \in Nat \ {0}
  OBVIOUS
<1> HIDE DEF n
<1>3. CompareReleases(a, b) = FirstNonZero(s)
  BY <1>1, ReleasesWide
<1>4. CompareReleases(b, c) = FirstNonZero(t)
  BY <1>1, ReleasesWide
<1>5. CompareReleases(a, c) = FirstNonZero(u)
  BY <1>1, ReleasesWide
<1>6. ASSUME NEW i \in 1..n
      PROVE s[i] \in Signs /\ t[i] \in Signs /\ u[i] \in Signs /\ Chains(s[i], t[i], u[i])
  <2>1. At(a, i) \in Int /\ At(b, i) \in Int /\ At(c, i) \in Int
    BY <1>2, AtIs
  <2> QED BY <2>1, SignIs, SignChains
<1>7. s \in [1..n -> Signs] /\ t \in [1..n -> Signs] /\ u \in [1..n -> Signs]
  BY <1>6
<1> HIDE DEF s, t, u
<1>8. Chains(FirstNonZero(s), FirstNonZero(t), FirstNonZero(u))
  BY <1>1, <1>6, <1>7, WholeChains
<1> QED BY <1>3, <1>4, <1>5, <1>8

(* ... ranks, ...                                                          *)
LEMMA RungIs ==
  ASSUME NEW v \in PythonVersions, v.tag # "none"
  PROVE Rung(v) \in 1..3
<1>1. DOMAIN Tags = 1..3 /\ \A i \in 1..3 : Tags[i] \in {"a", "b", "rc"}
  BY DEF Tags
<1>2. v.tag \in Range(Tags)
  BY DEF PythonVersions
<1>3. \E i \in DOMAIN Tags : Tags[i] = v.tag
  BY <1>2 DEF Range
<1>4. Rung(v) = CHOOSE i \in DOMAIN Tags : Tags[i] = v.tag
  BY DEF Rung
<1> QED BY <1>1, <1>3, <1>4

LEMMA PythonIs ==
  ASSUME NEW v \in PythonVersions
  PROVE /\ v.epoch \in Nat /\ v.release \in Seq(Nat) /\ v.release # <<>> /\ v.num \in Nat
        /\ v.post \in Int /\ v.post >= -1 /\ v.dev \in Int /\ v.dev >= -1
        /\ v \in WrittenVersions
BY DEF PythonVersions, WrittenVersions, Absent

LEMMA RankIsInt ==
  ASSUME NEW v \in PythonVersions
  PROVE Rank(v) \in Int
<1>1. v.num \in Nat /\ v.post \in Int /\ v.dev \in Int
  BY PythonIs
<1>2. CASE v.tag # "none"
  <2>1. Rung(v) \in Int
    BY <1>2, RungIs
  <2> QED BY <1>1, <1>2, <2>1, SMT DEF Rank, Band
<1>3. CASE v.tag = "none"
  BY <1>1, <1>3, SMT DEF Rank, Band
<1> QED BY <1>2, <1>3

(* ... and versions.                                                       *)
LEMMA PythonOrder ==
  ASSUME NEW a \in PythonVersions, NEW b \in PythonVersions
  PROVE /\ ComparePEP440(a, b) \in Signs
        /\ ComparePEP440(b, a) = 0 - ComparePEP440(a, b)
<1> DEFINE e == Sign(a.epoch, b.epoch)
           f == Sign(b.epoch, a.epoch)
           r == CompareReleases(a.release, b.release)
           q == CompareReleases(b.release, a.release)
           x == Sign(Rank(a), Rank(b))
           y == Sign(Rank(b), Rank(a))
<1>1. /\ a.epoch \in Int /\ b.epoch \in Int /\ a.release \in Seq(Nat) /\ b.release \in Seq(Nat)
      /\ Rank(a) \in Int /\ Rank(b) \in Int
  BY PythonIs, RankIsInt
<1>2. e \in Signs /\ f = 0 - e
  BY <1>1, SignIs
<1>3. r \in Signs /\ q = 0 - r
  BY <1>1, ReleaseOrder
<1>4. x \in Signs /\ y = 0 - x
  BY <1>1, SignIs
<1>5. ComparePEP440(a, b) = FirstNonZero(<<e, r, x>>)
  BY DEF ComparePEP440
<1>6. ComparePEP440(b, a) = FirstNonZero(<<f, q, y>>)
  BY DEF ComparePEP440
<1> HIDE DEF e, f, r, q, x, y
<1>7. FirstNonZero(<<e, r, x>>) = IF e # 0 THEN e ELSE IF r # 0 THEN r ELSE x
  BY FirstOf3
<1>8. FirstNonZero(<<f, q, y>>) = IF f # 0 THEN f ELSE IF q # 0 THEN q ELSE y
  BY FirstOf3
<1> QED BY <1>2, <1>3, <1>4, <1>5, <1>6, <1>7, <1>8 DEF Signs

LEMMA PythonChains ==
  ASSUME NEW a \in PythonVersions, NEW b \in PythonVersions, NEW c \in PythonVersions
  PROVE Chains(ComparePEP440(a, b), ComparePEP440(b, c), ComparePEP440(a, c))
<1>1. /\ a.epoch \in Int /\ b.epoch \in Int /\ c.epoch \in Int
      /\ a.release \in Seq(Nat) /\ b.release \in Seq(Nat) /\ c.release \in Seq(Nat)
      /\ Rank(a) \in Int /\ Rank(b) \in Int /\ Rank(c) \in Int
  BY PythonIs, RankIsInt
<1>2. /\ Sign(a.epoch, b.epoch) \in Signs /\ Sign(b.epoch, c.epoch) \in Signs
      /\ Sign(a.epoch, c.epoch) \in Signs
      /\ Chains(Sign(a.epoch, b.epoch), Sign(b.epoch, c.epoch), Sign(a.epoch, c.epoch))
  BY <1>1, SignIs, SignChains
<1>3. /\ CompareReleases(a.release, b.release) \in Signs
      /\ CompareReleases(b.release, c.release) \in Signs
      /\ CompareReleases(a.release, c.release) \in Signs
      /\ Chains(CompareReleases(a.release, b.release), CompareReleases(b.release, c.release),
                CompareReleases(a.release, c.release))
  BY <1>1, ReleaseOrder, ReleaseChains
<1>4. /\ Sign(Rank(a), Rank(b)) \in Signs /\ Sign(Rank(b), Rank(c)) \in Signs
      /\ Sign(Rank(a), Rank(c)) \in Signs
      /\ Chains(Sign(Rank(a), Rank(b)), Sign(Rank(b), Rank(c)), Sign(Rank(a), Rank(c)))
  BY <1>1, SignIs, SignChains
<1> QED BY <1>2, <1>3, <1>4, ThreeChain DEF ComparePEP440

(* One suffix that fits its band: each phase has a stretch of the line of  *)
(* ranks, and the suffix is the place in it.                               *)
Start(p) ==
  IF p = 0 THEN 0 - 3 * Band ELSE IF p = 1 THEN 0 - 2 * Band
  ELSE IF p = 2 THEN Band \div 4 - 2 * Band ELSE IF p = 3 THEN 2 * (Band \div 4) - 2 * Band
  ELSE IF p = 4 THEN 1 ELSE Band

LEMMA BandIs == Band \in Nat /\ Band \div 4 \in Nat /\ Band = 4 * (Band \div 4) /\ Band > 8
BY SMT DEF Band

LEMMA PhaseIs ==
  ASSUME NEW v \in PythonVersions, OneSuffix(v)
  PROVE /\ Phase(v) \in 0..5 /\ Suffix(v) \in Int
        /\ Rank(v) = Start(Phase(v)) + Suffix(v)
        /\ (Phase(v) # 4 => Suffix(v) >= 0)
        /\ (Phase(v) = 0 => Suffix(v) < Band)
        /\ (Phase(v) \in 1..3 => Suffix(v) < Band \div 4)
        /\ (Phase(v) = 4 => Suffix(v) = 0 - 1)
        /\ (IsPre(v) <=> Phase(v) < 4)
        /\ (v.post >= 0 <=> Phase(v) = 5)
<1>1. v.num \in Nat /\ v.post \in Int /\ v.post >= -1 /\ v.dev \in Int /\ v.dev >= -1
  BY PythonIs
<1>2. CASE v.tag # "none"
  <2>1. Rung(v) \in 1..3 /\ Phase(v) = Rung(v) /\ Suffix(v) = v.num
    BY <1>2, RungIs DEF Phase, Suffix
  <2>2. v.post < 0 /\ v.dev < 0 /\ v.num < Band \div 4 /\ IsPre(v)
    BY <1>2 DEF OneSuffix, IsPre
  <2>3. Rank(v) = (Rung(v) - 1) * (Band \div 4) + v.num - 2 * Band - 0
    BY <1>1, <1>2, <2>2 DEF Rank
  <2>4. (Rung(v) - 1) * (Band \div 4) =
          IF Rung(v) = 1 THEN 0 ELSE IF Rung(v) = 2 THEN Band \div 4 ELSE 2 * (Band \div 4)
    BY <2>1, BandIs
  <2>5. Rank(v) = Start(Phase(v)) + Suffix(v)
    BY <1>1, <2>1, <2>3, <2>4, BandIs DEF Start
  <2> QED BY <1>1, <2>1, <2>2, <2>5
<1>3. CASE v.tag = "none" /\ v.post >= 0
  <2>1. Phase(v) = 5 /\ Suffix(v) = v.post /\ v.dev < 0 /\ ~IsPre(v)
    BY <1>1, <1>3 DEF Phase, Suffix, OneSuffix, IsPre
  <2>2. Rank(v) = Band + v.post - 0
    BY <1>1, <1>3, <2>1 DEF Rank
  <2>3. Rank(v) = Start(Phase(v)) + Suffix(v)
    BY <1>1, <2>1, <2>2, BandIs DEF Start
  <2> QED BY <1>1, <1>3, <2>1, <2>3
<1>4. CASE v.tag = "none" /\ v.post < 0 /\ v.dev >= 0
  <2>1. Phase(v) = 0 /\ Suffix(v) = v.dev /\ v.dev < Band /\ IsPre(v)
    BY <1>1, <1>4 DEF Phase, Suffix, OneSuffix, IsPre
  <2>2. Rank(v) = v.dev - 3 * Band
    BY <1>1, <1>4 DEF Rank
  <2>3. Rank(v) = Start(Phase(v)) + Suffix(v)
    BY <1>1, <2>1, <2>2, BandIs DEF Start
  <2> QED BY <1>1, <1>4, <2>1, <2>3
<1>5. CASE v.tag = "none" /\ v.post < 0 /\ v.dev < 0
  <2>1. Phase(v) = 4 /\ Suffix(v) = v.dev /\ ~IsPre(v) /\ v.dev = 0 - 1
    BY <1>1, <1>5 DEF Phase, Suffix, IsPre
  <2>2. Rank(v) = 0
    BY <1>1, <1>5 DEF Rank
  <2>3. Rank(v) = Start(Phase(v)) + Suffix(v)
    BY <1>1, <2>1, <2>2 DEF Start
  <2> QED BY <1>1, <1>5, <2>1, <2>3
<1> QED BY <1>1, <1>2, <1>3, <1>4, <1>5

LEMMA RanksAreInOrder ==
  ASSUME NEW a \in PythonVersions, NEW b \in PythonVersions, OneSuffix(a), OneSuffix(b)
  PROVE /\ (Phase(a) < Phase(b) => Rank(a) < Rank(b))
        /\ (Phase(a) = Phase(b) => Rank(a) - Rank(b) = Suffix(a) - Suffix(b))
<1> DEFINE q == Band \div 4
<1>0. Band \in Nat /\ q \in Nat /\ Band = 4 * q /\ Band > 8
  BY BandIs
<1>1. /\ Phase(a) \in 0..5 /\ Suffix(a) \in Int
      /\ Rank(a) = Start(Phase(a)) + Suffix(a)
      /\ (Phase(a) # 4 => Suffix(a) >= 0)
      /\ (Phase(a) = 0 => Suffix(a) < Band)
      /\ (Phase(a) \in 1..3 => Suffix(a) < q)
      /\ (Phase(a) = 4 => Suffix(a) = 0 - 1)
  BY PhaseIs
<1>2. /\ Phase(b) \in 0..5 /\ Suffix(b) \in Int
      /\ Rank(b) = Start(Phase(b)) + Suffix(b)
      /\ (Phase(b) # 4 => Suffix(b) >= 0)
      /\ (Phase(b) = 4 => Suffix(b) = 0 - 1)
  BY PhaseIs
<1>3. ASSUME NEW p \in 0..5 PROVE Start(p) =
         IF p = 0 THEN 0 - 3 * Band ELSE IF p = 1 THEN 0 - 2 * Band
         ELSE IF p = 2 THEN q - 2 * Band ELSE IF p = 3 THEN 2 * q - 2 * Band
         ELSE IF p = 4 THEN 1 ELSE Band
  BY DEF Start
<1> HIDE DEF q
<1>4. ASSUME Phase(a) = Phase(b) PROVE Rank(a) - Rank(b) = Suffix(a) - Suffix(b)
  <2>1. Start(Phase(a)) \in Int
    BY <1>0, <1>1, <1>3
  <2> QED BY <1>1, <1>2, <1>4, <2>1
<1>5. ASSUME Phase(a) < Phase(b) PROVE Rank(a) < Rank(b)
  <2>1. CASE Phase(a) = 0
    BY <1>0, <1>1, <1>2, <1>3, <1>5, <2>1
  <2>2. CASE Phase(a) = 1
    BY <1>0, <1>1, <1>2, <1>3, <1>5, <2>2
  <2>3. CASE Phase(a) = 2
    BY <1>0, <1>1, <1>2, <1>3, <1>5, <2>3
  <2>4. CASE Phase(a) = 3
    BY <1>0, <1>1, <1>2, <1>3, <1>5, <2>4
  <2>5. CASE Phase(a) = 4
    BY <1>0, <1>1, <1>2, <1>3, <1>5, <2>5
  <2> QED BY <1>1, <1>2, <1>5, <2>1, <2>2, <2>3, <2>4, <2>5
<1> QED BY <1>4, <1>5

(* Between versions of one suffix each, with numbers that fit their bands, *)
(* the comparison by rank is PEP 440's order: epoch, release, phase, and   *)
(* the suffix within the phase.  (Without: SuffixesKeepTheirBand.)         *)
THEOREM PythonOrderIsPep440 ==
  ASSUME NEW a \in PythonVersions, NEW b \in PythonVersions, OneSuffix(a), OneSuffix(b)
  PROVE Order440(a, b) = ComparePEP440(a, b)
<1> DEFINE e == Sign(a.epoch, b.epoch)
           r == CompareReleases(a.release, b.release)
           x == Sign(Rank(a), Rank(b))
           p == Sign(Phase(a), Phase(b))
           s == Sign(Suffix(a), Suffix(b))
<1>1. x = IF p # 0 THEN p ELSE s
  <2>1. /\ Phase(a) \in Int /\ Phase(b) \in Int /\ Suffix(a) \in Int /\ Suffix(b) \in Int
        /\ Rank(a) \in Int /\ Rank(b) \in Int
    BY PhaseIs, RankIsInt
  <2>2. /\ (Phase(a) < Phase(b) => Rank(a) < Rank(b))
        /\ (Phase(a) = Phase(b) => Rank(a) - Rank(b) = Suffix(a) - Suffix(b))
    BY RanksAreInOrder
  <2>3. Phase(b) < Phase(a) => Rank(b) < Rank(a)
    BY RanksAreInOrder
  <2> QED BY <2>1, <2>2, <2>3 DEF Sign
<1>2. ComparePEP440(a, b) = FirstNonZero(<<e, r, x>>)
  BY DEF ComparePEP440
<1>3. Order440(a, b) = FirstNonZero(<<e, r, p, s>>)
  BY DEF Order440
<1> HIDE DEF e, r, x, p, s
<1>4. FirstNonZero(<<e, r, x>>) = IF e # 0 THEN e ELSE IF r # 0 THEN r ELSE x
  BY FirstOf3
<1>5. FirstNonZero(<<e, r, p, s>>) =
        IF e # 0 THEN e ELSE IF r # 0 THEN r ELSE IF p # 0 THEN p ELSE s
  BY FirstOf4
<1> QED BY <1>1, <1>2, <1>3, <1>4, <1>5

(* Three numbers, the first that differs deciding.                         *)
Under(a, b) ==
  a[1] < b[1] \/ (a[1] = b[1] /\ (a[2] < b[2] \/ (a[2] = b[2] /\ a[3] < b[3])))
Triples == [1..3 -> Nat]

LEMMA TripleIs ==
  ASSUME NEW a \in Triples
  PROVE /\ a[1] \in Nat /\ a[2] \in Nat /\ a[3] \in Nat
        /\ DOMAIN a = 1..3 /\ a \in Seq(Nat) /\ Len(a) = 3
        /\ \A i \in 1..3 : At(a, i) = a[i]
<1>1. a[1] \in Nat /\ a[2] \in Nat /\ a[3] \in Nat /\ DOMAIN a = 1..3
  BY DEF Triples
<1>2. a \in Seq(Nat) /\ Len(a) = 3
  <2> DEFINE b == [i \in 1..3 |-> a[i]]
  <2>1. a = b
    BY DEF Triples
  <2>2. b \in Seq(Nat) /\ Len(b) = 3
    BY <1>1
  <2> QED BY <2>1, <2>2
<1> QED BY <1>1, <1>2 DEF At

LEMMA PadIs ==
  ASSUME NEW n \in Seq(Nat)
  PROVE /\ Pad(n) \in Triples
        /\ \A i \in 1..3 : (i <= Len(n) => Pad(n)[i] = n[i]) /\ (i > Len(n) => Pad(n)[i] = 0)
BY DEF Pad, Triples

LEMMA MkIs ==
  ASSUME NEW n \in Seq(Nat), NEW p \in Seq(Identifiers), NEW op
  PROVE /\ Mk(op, n, p).op = op /\ Mk(op, n, p).v \in SemVersions
        /\ Mk(op, n, p).v = [nums |-> Pad(n), pre |-> p]
        /\ Mk(op, n, p).v.nums = Pad(n) /\ Mk(op, n, p).v.pre = p
<1>1. Pad(n) \in [1..3 -> Nat]
  BY PadIs DEF Triples
<1> QED BY <1>1 DEF Mk, SemVersions

LEMMA SemOf ==
  ASSUME NEW v \in SemVersions
  PROVE v.nums \in Triples /\ v.pre \in Seq(Identifiers) /\ v = [nums |-> v.nums, pre |-> v.pre]
BY DEF SemVersions, Triples

LEMMA CompareSplits ==
  ASSUME NEW v \in SemVersions, NEW w \in SemVersions
  PROVE /\ (Compare(v, w) < 0 <=>
              Under(v.nums, w.nums) \/ (v.nums = w.nums /\ ComparePre(v.pre, w.pre) < 0))
        /\ (Compare(v, w) > 0 <=>
              Under(w.nums, v.nums) \/ (v.nums = w.nums /\ ComparePre(v.pre, w.pre) > 0))
        /\ (Compare(v, w) = 0 <=> v = w)
        /\ Compare(v, w) \in Signs
<1>1. /\ v.nums[1] \in Nat /\ v.nums[2] \in Nat /\ v.nums[3] \in Nat
      /\ w.nums[1] \in Nat /\ w.nums[2] \in Nat /\ w.nums[3] \in Nat
      /\ (v.nums = w.nums <=>
            v.nums[1] = w.nums[1] /\ v.nums[2] = w.nums[2] /\ v.nums[3] = w.nums[3])
  BY SemIs
<1>2. v.pre \in Seq(Identifiers) /\ w.pre \in Seq(Identifiers)
  BY SemIs
<1>3. ComparePre(v.pre, w.pre) \in Signs
  BY <1>2, PreOrder
<1>4. Compare(v, w) = IF v.nums[1] # w.nums[1] THEN Sign(v.nums[1], w.nums[1])
                      ELSE IF v.nums[2] # w.nums[2] THEN Sign(v.nums[2], w.nums[2])
                      ELSE IF v.nums[3] # w.nums[3] THEN Sign(v.nums[3], w.nums[3])
                      ELSE ComparePre(v.pre, w.pre)
  BY CompareIs
<1>5. /\ (Compare(v, w) < 0 <=>
            Under(v.nums, w.nums) \/ (v.nums = w.nums /\ ComparePre(v.pre, w.pre) < 0))
      /\ (Compare(v, w) > 0 <=>
            Under(w.nums, v.nums) \/ (v.nums = w.nums /\ ComparePre(v.pre, w.pre) > 0))
  BY <1>1, <1>3, <1>4 DEF Under, Sign, Signs
<1> QED BY <1>5, SemOrder

(* The least prerelease of all: what is below it is below the triple.      *)
LEMMA LeastPre ==
  ASSUME NEW p \in Seq(Identifiers)
  PROVE ComparePre(p, <<Number(0)>>) >= 0 /\ <<Number(0)>> \in Seq(Identifiers)
<1> DEFINE z == <<Number(0)>>
           n == Len(p)
           s == [i \in 1..n |-> PreAt(p, z, i)]
<1>1. Number(0) \in Identifiers /\ Number(0).word = FALSE /\ Number(0).rank = 0
  BY DEF Number, Identifiers
<1>2. z \in Seq(Identifiers) /\ Len(z) = 1 /\ z # <<>> /\ z[1] = Number(0)
  BY <1>1
<1> HIDE DEF z
<1>3. CASE p = <<>>
  <2>1. ComparePre(p, z) = Sign(Len(z), Len(p))
    BY <1>3 DEF ComparePre
  <2>2. Len(p) = 0
    BY <1>3
  <2> QED BY <1>2, <2>1, <2>2 DEF Sign, z
<1>4. CASE p # <<>>
  <2>1. n \in Nat /\ 1 <= n /\ Len(p) <= n /\ Len(z) <= n /\ p[1] \in Identifiers
    BY <1>2, <1>4
  <2>2. ComparePre(p, z) = FirstNonZero(s)
    BY <1>2, <1>4, <2>1, PreIs
  <2>3. PreAt(p, z, 1) >= 0
    <3>1. PreAt(p, z, 1) = CompareId(p[1], Number(0))
      BY <1>2, <2>1 DEF PreAt
    <3>2. p[1].rank \in Nat /\ p[1].word \in BOOLEAN
      BY <2>1 DEF Identifiers
    <3>3. CompareId(p[1], Number(0)) >= 0
      <4>1. CASE p[1].word = FALSE
        <5>1. CompareId(p[1], Number(0)) = Sign(p[1].rank, 0)
          BY <1>1, <4>1 DEF CompareId
        <5> QED BY <3>2, <5>1 DEF Sign
      <4>2. CASE p[1].word = TRUE
        <5>1. CompareId(p[1], Number(0)) = 1
          BY <1>1, <4>2 DEF CompareId
        <5> QED BY <5>1
      <4> QED BY <3>2, <4>1, <4>2
    <3> QED BY <3>1, <3>3
  <2>4. ASSUME NEW i \in 1..n PROVE PreAt(p, z, i) >= 0
    <3>1. CASE i = 1
      BY <2>3, <3>1
    <3>2. CASE i # 1
      <4>1. PreAt(p, z, i) = 1
        BY <1>2, <2>1, <3>2 DEF PreAt
      <4> QED BY <4>1
    <3> QED BY <3>1, <3>2
  <2>5. DOMAIN s = 1..n /\ \A i \in 1..n : s[i] >= 0
    BY <2>4
  <2> HIDE DEF s, n
  <2>6. FirstNonZero(s) >= 0
    <3>1. CASE FirstNonZero(s) = 0
      BY <3>1
    <3>2. CASE \E k \in 1..n : FirstNonZero(s) = s[k]
      BY <2>5, <3>2
    <3>3. \/ (\A i \in 1..n : s[i] = 0) /\ FirstNonZero(s) = 0
          \/ \E k \in 1..n : /\ s[k] # 0 /\ (\A j \in 1..n : j < k => s[j] = 0)
                             /\ FirstNonZero(s) = s[k]
      BY <2>1, <2>5, FirstIs
    <3> QED BY <3>1, <3>2, <3>3
  <2> QED BY <1>2, <2>2, <2>6 DEF z
<1> QED BY <1>2, <1>3, <1>4 DEF z

(* The tests that the comparators are.                                     *)
LEMMA TestIs ==
  ASSUME NEW v \in SemVersions, NEW n \in Seq(Nat), NEW p \in Seq(Identifiers)
  PROVE /\ (Test(Mk(">", n, p), v) <=> After(v, [nums |-> Pad(n), pre |-> p]))
        /\ (Test(Mk("<", n, p), v) <=> After([nums |-> Pad(n), pre |-> p], v))
        /\ (Test(Mk(">=", n, p), v) <=> ~After([nums |-> Pad(n), pre |-> p], v))
        /\ (Test(Mk("<=", n, p), v) <=> ~After(v, [nums |-> Pad(n), pre |-> p]))
        /\ (Test(Mk("=", n, p), v) <=> v = [nums |-> Pad(n), pre |-> p])
        /\ (Test(Mk("bare", n, p), v) <=> v = [nums |-> Pad(n), pre |-> p])
        /\ (Test(Mk("!=", n, p), v) <=> v # [nums |-> Pad(n), pre |-> p])
<1> DEFINE w == [nums |-> Pad(n), pre |-> p]
<1>1. \A op : Mk(op, n, p).op = op /\ Mk(op, n, p).v = w
  BY MkIs
<1>2. w \in SemVersions
  BY MkIs
<1> HIDE DEF w
<1>3. Compare(v, w) \in Signs /\ Compare(w, v) = 0 - Compare(v, w) /\ (Compare(v, w) = 0 <=> v = w)
  BY <1>2, SemOrder
<1>4. /\ (Test(Mk(">", n, p), v) <=> Compare(v, w) > 0)
      /\ (Test(Mk("<", n, p), v) <=> Compare(v, w) < 0)
      /\ (Test(Mk(">=", n, p), v) <=> Compare(v, w) >= 0)
      /\ (Test(Mk("<=", n, p), v) <=> Compare(v, w) <= 0)
      /\ (Test(Mk("=", n, p), v) <=> Compare(v, w) = 0)
      /\ (Test(Mk("bare", n, p), v) <=> Compare(v, w) = 0)
      /\ (Test(Mk("!=", n, p), v) <=> Compare(v, w) # 0)
  <2> DEFINE c(op) == Mk(op, n, p)
  <2>1. \A op : c(op).op = op /\ c(op).v = w
    BY <1>1
  <2> HIDE DEF c
  <2>2. /\ (Test(c(">"), v) <=> Compare(v, w) > 0)
        /\ (Test(c("<"), v) <=> Compare(v, w) < 0)
    BY <2>1 DEF Test
  <2>3. /\ (Test(c(">="), v) <=> Compare(v, w) >= 0)
        /\ (Test(c("<="), v) <=> Compare(v, w) <= 0)
    BY <2>1 DEF Test
  <2>4. /\ (Test(c("="), v) <=> Compare(v, w) = 0)
        /\ (Test(c("bare"), v) <=> Compare(v, w) = 0)
    BY <2>1 DEF Test
  <2>5. Test(c("!="), v) <=> Compare(v, w) # 0
    BY <2>1 DEF Test
  <2> QED BY <2>2, <2>3, <2>4, <2>5 DEF c
<1>5. (After(v, w) <=> Compare(v, w) > 0) /\ (After(w, v) <=> Compare(v, w) < 0)
  BY <1>3 DEF After, Signs
<1> QED BY <1>3, <1>4, <1>5 DEF Signs, w

LEMMA UptoIs ==
  ASSUME NEW v \in SemVersions, NEW n \in Seq(Nat)
  PROVE Test(Mk("<", n, <<Number(0)>>), v) <=> Under(v.nums, Pad(n))
<1> DEFINE z == <<Number(0)>>
           c == Mk("<", n, z)
           w == c.v
<1>1. z \in Seq(Identifiers) /\ v.pre \in Seq(Identifiers)
  BY LeastPre, SemOf
<1>2. ComparePre(v.pre, z) >= 0 /\ ComparePre(v.pre, z) \in Signs
  BY <1>1, LeastPre, PreOrder
<1> HIDE DEF z
<1>3. c.op = "<" /\ w \in SemVersions /\ w.nums = Pad(n) /\ w.pre = z
  <2>1. /\ Mk("<", n, z).op = "<" /\ Mk("<", n, z).v \in SemVersions
        /\ Mk("<", n, z).v = [nums |-> Pad(n), pre |-> z]
        /\ Mk("<", n, z).v.nums = Pad(n) /\ Mk("<", n, z).v.pre = z
    BY <1>1, MkIs
  <2> QED BY <2>1
<1> HIDE DEF c
<1>4. Test(c, v) <=> Compare(v, w) < 0
  BY <1>3 DEF Test
<1> HIDE DEF w
<1>5. Compare(v, w) < 0 <=>
        Under(v.nums, w.nums) \/ (v.nums = w.nums /\ ComparePre(v.pre, w.pre) < 0)
  BY <1>3, CompareSplits
<1>6. ~(ComparePre(v.pre, w.pre) < 0)
  BY <1>2, <1>3 DEF Signs
<1> QED BY <1>3, <1>4, <1>5, <1>6 DEF c, z

(* What is above a version and below its bump at k shares k components.    *)
LEMMA BumpOf ==
  ASSUME NEW n \in Seq(Nat), NEW k \in 1..Len(n)
  PROVE /\ Bump(n, k) \in Seq(Nat) /\ Len(Bump(n, k)) = k
        /\ \A j \in 1..k : Bump(n, k)[j] = IF j = k THEN n[j] + 1 ELSE n[j]
<1>1. k \in Nat /\ \A j \in 1..k : n[j] \in Nat
  OBVIOUS
<1> QED BY <1>1 DEF Bump

LEMMA PadBump ==
  ASSUME NEW n \in Seq(Nat), NEW k \in 1..Len(n)
  PROVE \A i \in 1..3 : Pad(Bump(n, k))[i] =
          IF i < k THEN n[i] ELSE IF i = k THEN n[k] + 1 ELSE 0
<1> DEFINE b == Bump(n, k)
<1>1. b \in Seq(Nat) /\ Len(b) = k /\ \A j \in 1..k : b[j] = IF j = k THEN n[j] + 1 ELSE n[j]
  BY BumpOf
<1> HIDE DEF b
<1>2. \A i \in 1..3 : (i <= Len(b) => Pad(b)[i] = b[i]) /\ (i > Len(b) => Pad(b)[i] = 0)
  BY <1>1, PadIs
<1>3. k \in Nat
  OBVIOUS
<1> QED BY <1>1, <1>2, <1>3 DEF b

LEMMA SharesIs ==
  ASSUME NEW a \in Triples, NEW n \in Seq(Nat), NEW k \in 0..3
  PROVE Shares(a, n, k) <=> (k >= 1 => a[1] = n[1]) /\ (k >= 2 => a[2] = n[2])
                            /\ (k >= 3 => a[3] = n[3])
<1>1. \A i \in 1..3 : At(a, i) = a[i]
  BY TripleIs
<1>2. Shares(a, n, k) <=> \A i \in 1..k : a[i] = n[i]
  BY <1>1 DEF Shares
<1>3. (1 \in 1..k <=> k >= 1) /\ (2 \in 1..k <=> k >= 2) /\ (3 \in 1..k <=> k >= 3)
      /\ \A i \in 1..k : i = 1 \/ i = 2 \/ i = 3
  OBVIOUS
<1> QED BY <1>2, <1>3

LEMMA BumpIs ==
  ASSUME NEW n \in Seq(Nat), Len(n) <= 3, NEW k \in 1..Len(n), NEW a \in Triples,
         ~Under(a, Pad(n))
  PROVE Under(a, Pad(Bump(n, k))) <=> Shares(a, n, k)
<1> DEFINE p == Pad(n)
           b == Pad(Bump(n, k))
<1>1. k \in 1..3 /\ k \in 0..3 /\ \A i \in 1..3 : i <= k => i <= Len(n) /\ n[i] \in Nat
  OBVIOUS
<1>2. \A i \in 1..3 : i <= k => p[i] = n[i]
  BY <1>1, PadIs
<1>3. p[1] \in Nat /\ p[2] \in Nat /\ p[3] \in Nat /\ a[1] \in Nat /\ a[2] \in Nat /\ a[3] \in Nat
  BY PadIs, TripleIs
<1>4. \A i \in 1..3 : b[i] = IF i < k THEN n[i] ELSE IF i = k THEN n[k] + 1 ELSE 0
  BY PadBump
<1>5. Shares(a, n, k) <=> (k >= 1 => a[1] = n[1]) /\ (k >= 2 => a[2] = n[2])
                          /\ (k >= 3 => a[3] = n[3])
  BY <1>1, SharesIs
<1>6. ~Under(a, p)
  OBVIOUS
<1> HIDE DEF p, b
<1>7. CASE k = 1
  <2>1. b[1] = n[1] + 1 /\ b[2] = 0 /\ b[3] = 0 /\ p[1] = n[1]
    BY <1>2, <1>4, <1>7
  <2>2. Under(a, b) <=> a[1] = n[1]
    BY <1>3, <1>6, <2>1 DEF Under
  <2> QED BY <1>5, <1>7, <2>2 DEF b
<1>8. CASE k = 2
  <2>1. b[1] = n[1] /\ b[2] = n[2] + 1 /\ b[3] = 0 /\ p[1] = n[1] /\ p[2] = n[2]
    BY <1>2, <1>4, <1>8
  <2>2. Under(a, b) <=> a[1] = n[1] /\ a[2] = n[2]
    BY <1>3, <1>6, <2>1 DEF Under
  <2> QED BY <1>5, <1>8, <2>2 DEF b
<1>9. CASE k = 3
  <2>1. /\ b[1] = n[1] /\ b[2] = n[2] /\ b[3] = n[3] + 1
        /\ p[1] = n[1] /\ p[2] = n[2] /\ p[3] = n[3]
    BY <1>2, <1>4, <1>9
  <2>2. Under(a, b) <=> a[1] = n[1] /\ a[2] = n[2] /\ a[3] = n[3]
    BY <1>3, <1>6, <2>1 DEF Under
  <2> QED BY <1>5, <1>9, <2>2 DEF b
<1> QED BY <1>1, <1>7, <1>8, <1>9

(* The breaking component is where the caret's bump is.                    *)
LEMMA BreakingIs ==
  ASSUME NEW n \in Seq(Nat), n # <<>>
  PROVE /\ Breaking(n) \in 1..Least(3, Len(n)) /\ Breaking(n) \in 1..Len(n)
        /\ \A i \in 1..Len(n) : i < Breaking(n) => n[i] = 0
        /\ (n[Breaking(n)] > 0 \/ Breaking(n) = Least(3, Len(n)))
<1> DEFINE l == Least(3, Len(n))
           nonzero == {i \in 1..l : n[i] > 0}
<1>1. Len(n) \in Nat /\ Len(n) >= 1 /\ l \in 1..Len(n) /\ \A i \in 1..Len(n) : n[i] \in Nat
  BY DEF Least
<1>2. Breaking(n) = IF nonzero = {} THEN l ELSE Min(nonzero)
  BY DEF Breaking
<1> HIDE DEF l
<1>3. CASE nonzero = {}
  BY <1>1, <1>2, <1>3 DEF l
<1>4. CASE nonzero # {}
  <2>1. nonzero \subseteq 1..l
    OBVIOUS
  <2>2. nonzero \subseteq Nat
    BY <1>1
  <2>3. \E m \in nonzero : \A x \in nonzero : m <= x
    <3> HIDE DEF nonzero
    <3> QED BY <1>4, <2>2, NatMin
  <2>4. Min(nonzero) \in nonzero /\ \A x \in nonzero : Min(nonzero) <= x
    <3> HIDE DEF nonzero
    <3> QED BY <2>3 DEF Min
  <2>5. PICK m \in 1..l : m = Min(nonzero) /\ n[m] > 0 /\ \A x \in nonzero : m <= x
    BY <2>4
  <2>6. Breaking(n) = m
    BY <1>2, <1>4, <2>5
  <2>7. \A i \in 1..Len(n) : i < m => n[i] = 0
    <3> SUFFICES ASSUME NEW i \in 1..Len(n), i < m PROVE n[i] = 0
      OBVIOUS
    <3>1. i \in 1..l /\ i \notin nonzero /\ n[i] \in Nat
      BY <1>1, <2>5
    <3> QED BY <3>1
  <2>8. m \in 1..Len(n)
    BY <1>1
  <2> QED BY <2>5, <2>6, <2>7, <2>8 DEF l
<1> QED BY <1>3, <1>4

LEMMA CaretIs ==
  ASSUME NEW n \in Seq(Nat), n # <<>>
  PROVE Pad(CaretUpper(Truncated(n))) = Pad(Bump(n, Breaking(n)))
<1> DEFINE l == Least(3, Len(n))
           m == Truncated(n)
           nonzero == {i \in 1..l : n[i] > 0}
<1>1. Len(n) \in Nat /\ Len(n) >= 1 /\ l \in 1..Len(n) /\ l \in Nat
  BY DEF Least
<1>2. m \in Seq(Nat) /\ Len(m) = l /\ \A i \in 1..l : m[i] = n[i]
  BY <1>1 DEF Truncated, Least
<1>3. Breaking(n) = IF nonzero = {} THEN l ELSE Min(nonzero)
  BY DEF Breaking
<1> HIDE DEF m, l
<1>4. {i \in DOMAIN m : m[i] > 0} = nonzero
  BY <1>1, <1>2
<1> HIDE DEF nonzero
<1>5. CaretUpper(m) = Bump(m, Breaking(n))
  BY <1>2, <1>3, <1>4 DEF CaretUpper
<1>6. Breaking(n) \in 1..l /\ Breaking(n) \in 1..Len(n)
  BY BreakingIs DEF l
<1> DEFINE k == Breaking(n)
<1> HIDE DEF k
<1>7. k \in 1..l /\ k \in 1..Len(n)
  BY <1>6 DEF k
<1>8. \A i \in 1..3 : Pad(Bump(m, k))[i] = Pad(Bump(n, k))[i]
  <2>1. k \in 1..Len(m)
    BY <1>2, <1>7
  <2>2. \A i \in 1..3 : Pad(Bump(m, k))[i] =
          IF i < k THEN m[i] ELSE IF i = k THEN m[k] + 1 ELSE 0
    BY <1>2, <2>1, PadBump
  <2>3. \A i \in 1..3 : Pad(Bump(n, k))[i] =
          IF i < k THEN n[i] ELSE IF i = k THEN n[k] + 1 ELSE 0
    BY <1>7, PadBump
  <2>4. \A i \in 1..3 : (i < k => m[i] = n[i]) /\ m[k] = n[k]
    BY <1>1, <1>2, <1>7
  <2> QED BY <2>2, <2>3, <2>4
<1>9. Pad(Bump(m, k)) = Pad(Bump(n, k))
  BY <1>8 DEF Pad
<1> QED BY <1>5, <1>9 DEF k, m

(* The terms: their lowest version, and what they mean by their operator.  *)
LEMMA UpToThree ==
  ASSUME NEW l \in Nat, l <= 3
  PROVE (l = 0 \/ l = 1 \/ l = 2 \/ l = 3) /\ (l < 3 <=> l # 3)
OBVIOUS

LEMMA TermIs ==
  ASSUME NEW t \in SemTerms
  PROVE /\ t.op \in Ops /\ t.nums \in Seq(Nat) /\ Len(t.nums) \in Nat /\ Len(t.nums) <= 3
        /\ t.stars \in BOOLEAN /\ t.pre \in Seq(Identifiers)
        /\ t.x \in Nat \cup {Absent}
        /\ (t.nums = <<>> <=> Len(t.nums) = 0)
        /\ (Len(t.nums) = 0 \/ Len(t.nums) = 1 \/ Len(t.nums) = 2 \/ Len(t.nums) = 3)
        /\ (Len(t.nums) < 3 <=> Len(t.nums) # 3)
<1>1. /\ t \in [op : Ops, nums : Seq(Nat), stars : BOOLEAN, pre : Seq(Identifiers),
                x : Nat \cup {Absent}]
      /\ Len(t.nums) <= 3
  BY DEF SemTerms
<1>2. /\ t.op \in Ops /\ t.nums \in Seq(Nat) /\ t.stars \in BOOLEAN
      /\ t.pre \in Seq(Identifiers) /\ t.x \in Nat \cup {Absent}
  BY <1>1
<1>3. Len(t.nums) \in Nat /\ (t.nums = <<>> <=> Len(t.nums) = 0)
  BY <1>2
<1>4. /\ (Len(t.nums) = 0 \/ Len(t.nums) = 1 \/ Len(t.nums) = 2 \/ Len(t.nums) = 3)
      /\ (Len(t.nums) < 3 <=> Len(t.nums) # 3)
  BY <1>1, <1>3, UpToThree, Zenon
<1> QED BY <1>1, <1>2, <1>3, <1>4

LEMMA LowIs ==
  ASSUME NEW t \in SemTerms, NEW scheme
  PROVE /\ Low(scheme, t) \in SemVersions /\ Low(scheme, t).nums = Pad(t.nums)
        /\ Low(scheme, t).pre = IF Partial(scheme, t) THEN <<>> ELSE t.pre
        /\ (Partial(scheme, t) => Low(scheme, t) = [nums |-> Pad(t.nums), pre |-> <<>>])
        /\ (~Partial(scheme, t) => Low(scheme, t) = [nums |-> Pad(t.nums), pre |-> t.pre])
<1>1. Pad(t.nums) \in [1..3 -> Nat] /\ t.pre \in Seq(Identifiers) /\ <<>> \in Seq(Identifiers)
  BY TermIs, PadIs DEF Triples
<1>2. Partial(scheme, t) \in BOOLEAN
  BY DEF Partial
<1> QED BY <1>1, <1>2 DEF Low, SemVersions

LEMMA AfterIs ==
  ASSUME NEW a \in SemVersions, NEW b \in SemVersions
  PROVE /\ (After(a, b) <=> Under(b.nums, a.nums)
                            \/ (a.nums = b.nums /\ ComparePre(a.pre, b.pre) > 0))
        /\ ~(After(a, b) /\ After(b, a)) /\ ~After(a, a)
<1>1. /\ (Compare(a, b) > 0 <=>
            Under(b.nums, a.nums) \/ (a.nums = b.nums /\ ComparePre(a.pre, b.pre) > 0))
      /\ Compare(a, b) \in Signs /\ Compare(b, a) = 0 - Compare(a, b) /\ Compare(a, a) = 0
  BY CompareSplits, SemOrder
<1> QED BY <1>1 DEF After, Signs

LEMMA ReleaseAfter ==
  ASSUME NEW p \in Seq(Identifiers)
  PROVE /\ (ComparePre(<<>>, p) > 0 <=> p # <<>>) /\ ~(ComparePre(p, <<>>) > 0)
        /\ ComparePre(<<>>, <<>>) = 0
<1>1. Len(p) \in Nat /\ (p # <<>> <=> Len(p) > 0)
  OBVIOUS
<1>2. ComparePre(<<>>, p) = Sign(Len(p), 0) /\ ComparePre(p, <<>>) = Sign(0, Len(p))
  BY DEF ComparePre
<1>3. ComparePre(<<>>, <<>>) = Sign(0, 0)
  BY DEF ComparePre
<1> QED BY <1>1, <1>2, <1>3 DEF Sign

LEMMA NotBelow ==
  ASSUME NEW t \in SemTerms, NEW scheme, NEW v \in SemVersions, ~After(Low(scheme, t), v)
  PROVE v.nums \in Triples /\ ~Under(v.nums, Pad(t.nums))
<1>1. Low(scheme, t) \in SemVersions /\ Low(scheme, t).nums = Pad(t.nums)
  BY LowIs
<1>2. After(Low(scheme, t), v) <=>
        \/ Under(v.nums, Low(scheme, t).nums)
        \/ Low(scheme, t).nums = v.nums /\ ComparePre(Low(scheme, t).pre, v.pre) > 0
  BY <1>1, AfterIs
<1> QED BY <1>1, <1>2, SemOf

(* Below a bump.                                                           *)
LEMMA SharesBelow ==
  ASSUME NEW t \in SemTerms, NEW scheme, NEW v \in SemVersions, NEW k \in 1..Len(t.nums),
         ~After(Low(scheme, t), v)
  PROVE /\ (Test(Mk("<", Bump(t.nums, k), <<Number(0)>>), v) <=> Shares(v.nums, t.nums, k))
        /\ (v.pre = <<>> =>
              (Test(Mk("<", Bump(t.nums, k), <<>>), v) <=> Shares(v.nums, t.nums, k)))
<1> DEFINE b == Bump(t.nums, k)
           w == [nums |-> Pad(b), pre |-> <<>>]
<1>1. t.nums \in Seq(Nat) /\ Len(t.nums) <= 3
  BY TermIs
<1>2. b \in Seq(Nat)
  <2>1. /\ Bump(t.nums, k) \in Seq(Nat) /\ Len(Bump(t.nums, k)) = k
        /\ \A j \in 1..k : Bump(t.nums, k)[j] = IF j = k THEN t.nums[j] + 1 ELSE t.nums[j]
    BY <1>1, BumpOf
  <2> QED BY <2>1
<1>3. v.nums \in Triples /\ ~Under(v.nums, Pad(t.nums))
  BY NotBelow
<1>4. Under(v.nums, Pad(b)) <=> Shares(v.nums, t.nums, k)
  BY <1>1, <1>3, BumpIs
<1> HIDE DEF b
<1>5. Test(Mk("<", b, <<Number(0)>>), v) <=> Under(v.nums, Pad(b))
  BY <1>2, UptoIs
<1>6. w \in SemVersions
  BY <1>2, PadIs DEF SemVersions, Triples
<1>7. ASSUME v.pre = <<>> PROVE Test(Mk("<", b, <<>>), v) <=> Under(v.nums, Pad(b))
  <2>1. <<>> \in Seq(Identifiers)
    OBVIOUS
  <2>2. Test(Mk("<", b, <<>>), v) <=> After(w, v)
    BY <1>2, <2>1, TestIs
  <2>3. w.nums = Pad(b) /\ w.pre = <<>>
    OBVIOUS
  <2> HIDE DEF w
  <2>4. After(w, v) <=> Under(v.nums, w.nums)
                        \/ (w.nums = v.nums /\ ComparePre(w.pre, v.pre) > 0)
    BY <1>6, AfterIs
  <2>5. ComparePre(<<>>, <<>>) = 0
    BY <2>1, ReleaseAfter
  <2> QED BY <1>7, <2>2, <2>3, <2>4, <2>5
<1> QED BY <1>4, <1>5, <1>7 DEF b

LEMMA MeansIs ==
  ASSUME NEW t \in SemTerms, NEW scheme, NEW v
  PROVE /\ (t.nums = <<>> => (Means(scheme, t, v) <=> ~(scheme = "npm" /\ t.op \in {">", "<"})))
        /\ (t.nums # <<>> /\ IsPin(scheme, t) => (Means(scheme, t, v) <=> v = Low(scheme, t)))
        /\ (t.nums # <<>> /\ ~IsPin(scheme, t) =>
              /\ (t.op \in {">=", "from"} => (Means(scheme, t, v) <=> ~After(Low(scheme, t), v)))
              /\ (t.op = "<" => (Means(scheme, t, v) <=>
                                   After(Low(scheme, t), v) /\ ~Family(scheme, t, v)))
              /\ (t.op = ">" => (Means(scheme, t, v) <=> Beyond(scheme, t, v)))
              /\ (t.op \in {"<=", "to"} =>
                    (Means(scheme, t, v) <=> ~After(v, Low(scheme, t)) \/ Family(scheme, t, v)))
              /\ (t.op = "!=" => (Means(scheme, t, v) <=> v # Low(scheme, t)))
              /\ (t.op \in {"bare", "=", "^", "~", "~>"} =>
                    (Means(scheme, t, v) <=> ~After(Low(scheme, t), v)
                                             /\ Shares(v.nums, t.nums, Fixed(scheme, t)))))
<1>1. CASE t.nums = <<>>
  <2>1. Means(scheme, t, v) = ~(scheme = "npm" /\ t.op \in {">", "<"})
    BY <1>1, Zenon DEF Means
  <2> QED BY <1>1, <2>1
<1>2. CASE t.nums # <<>> /\ IsPin(scheme, t)
  <2>1. t.op \in {"bare", "="}
    BY <1>2 DEF IsPin
  <2>2. Means(scheme, t, v) <=> v = Low(scheme, t)
    BY <1>2, <2>1 DEF Means
  <2> QED BY <1>2, <2>2
<1>3. CASE t.nums # <<>> /\ ~IsPin(scheme, t)
  <2>1. CASE t.op \in {">=", "from"}
    BY <1>3, <2>1 DEF Means
  <2>2. CASE t.op = "<"
    BY <1>3, <2>2 DEF Means
  <2>3. CASE t.op = ">"
    BY <1>3, <2>3 DEF Means
  <2>4. CASE t.op \in {"<=", "to"}
    BY <1>3, <2>4 DEF Means
  <2>5. CASE t.op = "!="
    BY <1>3, <2>5 DEF Means
  <2>6. CASE t.op \in {"bare", "=", "^", "~", "~>"}
    BY <1>3, <2>6 DEF Means
  <2> QED BY <1>3, <2>1, <2>2, <2>3, <2>4, <2>5, <2>6, TermIs DEF Ops
<1> QED BY <1>1, <1>2, <1>3

(* npm: the comparators of a term hold of what the term means.             *)
All(C, v) == \A c \in C : Test(c, v)

LEMMA FromIs ==
  ASSUME NEW t \in SemTerms, NEW v \in SemVersions
  PROVE All(From(t), v) <=> ~After(Low("npm", t), v)
<1> DEFINE p == IF Len(t.nums) = 3 THEN t.pre ELSE <<>>
           w == [nums |-> Pad(t.nums), pre |-> p]
<1>1. t.nums \in Seq(Nat) /\ p \in Seq(Identifiers)
  BY TermIs
<1>2. Low("npm", t) = w
  <2>1. Partial("npm", t) <=> Len(t.nums) # 3
    <3>1. Len(t.nums) < 3 <=> Len(t.nums) # 3
      BY TermIs
    <3> QED BY <3>1, Zenon DEF Partial
  <2>2. /\ (Partial("npm", t) => Low("npm", t) = [nums |-> Pad(t.nums), pre |-> <<>>])
        /\ (~Partial("npm", t) => Low("npm", t) = [nums |-> Pad(t.nums), pre |-> t.pre])
    BY LowIs
  <2> QED BY <2>1, <2>2
<1>3. From(t) = {Mk(">=", t.nums, p)}
  BY DEF From
<1> HIDE DEF p
<1>4. Test(Mk(">=", t.nums, p), v) <=> ~After(w, v)
  BY <1>1, TestIs
<1> HIDE DEF w
<1> QED BY <1>2, <1>3, <1>4 DEF All

LEMMA UptoAll ==
  ASSUME NEW v \in SemVersions, NEW n \in Seq(Nat)
  PROVE All(Upto(n), v) <=> Under(v.nums, Pad(n))
<1>1. Test(Mk("<", n, <<Number(0)>>), v) <=> Under(v.nums, Pad(n))
  BY UptoIs
<1> QED BY <1>1 DEF All, Upto

LEMMA AllOf ==
  ASSUME NEW C, NEW D, NEW v
  PROVE All(C \cup D, v) <=> All(C, v) /\ All(D, v)
BY DEF All

LEMMA SamePad ==
  ASSUME NEW a \in Seq(Nat), NEW b \in Seq(Nat), \A i \in 1..3 : Pad(a)[i] = Pad(b)[i]
  PROVE Pad(a) = Pad(b) /\ Upto(a) = Upto(b)
<1>1. Pad(a) = Pad(b)
  BY DEF Pad
<1> QED BY <1>1 DEF Upto, Mk

(* From a term up to its bump.                                             *)
LEMMA Between ==
  ASSUME NEW t \in SemTerms, NEW v \in SemVersions, NEW k \in 1..Len(t.nums)
  PROVE All(From(t) \cup Upto(Bump(t.nums, k)), v) <=>
          ~After(Low("npm", t), v) /\ Shares(v.nums, t.nums, k)
<1>1. t.nums \in Seq(Nat)
  BY TermIs
<1>2. Bump(t.nums, k) \in Seq(Nat)
  BY <1>1, BumpOf
<1> DEFINE b == Bump(t.nums, k)
<1>3. All(From(t), v) <=> ~After(Low("npm", t), v)
  BY FromIs
<1>4. ASSUME ~After(Low("npm", t), v)
      PROVE Test(Mk("<", b, <<Number(0)>>), v) <=> Shares(v.nums, t.nums, k)
  BY <1>4, SharesBelow
<1> HIDE DEF b
<1>5. All(Upto(b), v) <=> Test(Mk("<", b, <<Number(0)>>), v)
  BY DEF All, Upto
<1>6. All(From(t) \cup Upto(b), v) <=> All(From(t), v) /\ All(Upto(b), v)
  BY AllOf
<1> QED BY <1>3, <1>4, <1>5, <1>6 DEF b

LEMMA CaretNpmIs ==
  ASSUME NEW t \in SemTerms, t.nums # <<>>
  PROVE CaretNpm(t) = From(t) \cup Upto(Bump(t.nums, Breaking(t.nums)))
<1> DEFINE n == t.nums
           k == Breaking(n)
<1>1. n \in Seq(Nat) /\ Len(n) \in Nat /\ Len(n) <= 3 /\ Len(n) >= 1
  BY TermIs
<1>2. /\ k \in 1..Least(3, Len(n)) /\ k \in 1..Len(n)
      /\ \A i \in 1..Len(n) : i < k => n[i] = 0
      /\ (n[k] > 0 \/ k = Least(3, Len(n)))
  BY <1>1, BreakingIs
<1>3. \A i \in 1..Len(n) : n[i] \in Nat
  BY <1>1
<1>4. Least(3, Len(n)) = Len(n)
  BY <1>1 DEF Least
<1>5. Bump(n, k) \in Seq(Nat)
  <2>1. /\ Bump(n, k) \in Seq(Nat) /\ Len(Bump(n, k)) = k
        /\ \A j \in 1..k : Bump(n, k)[j] = IF j = k THEN n[j] + 1 ELSE n[j]
    BY <1>1, <1>2, BumpOf
  <2> QED BY <2>1
<1>6. \A i \in 1..3 : Pad(Bump(n, k))[i] = IF i < k THEN n[i] ELSE IF i = k THEN n[k] + 1 ELSE 0
  BY <1>1, <1>2, PadBump
<1>7. CaretNpm(t) =
        CASE n = <<>> -> {}
          [] Len(n) = 1 -> From(t) \cup Upto(<<n[1] + 1>>)
          [] Len(n) = 2 -> From(t) \cup Upto(IF n[1] = 0 THEN <<0, n[2] + 1>> ELSE <<n[1] + 1>>)
          [] OTHER -> From(t) \cup
               Upto(CASE n[1] = 0 /\ n[2] = 0 -> <<0, 0, n[3] + 1>>
                      [] n[1] = 0 /\ n[2] # 0 -> <<0, n[2] + 1>>
                      [] OTHER -> <<n[1] + 1>>)
  BY Zenon DEF CaretNpm
<1>8. n # <<>>
  OBVIOUS
<1> HIDE DEF n, k
<1>10. ASSUME NEW x \in Nat, k = 1, x = n[1] + 1
       PROVE Upto(<<x>>) = Upto(Bump(n, k))
  <2>1. <<x>> \in Seq(Nat) /\ Len(<<x>>) = 1 /\ <<x>>[1] = x
    OBVIOUS
  <2>2. \A i \in 1..3 : (i <= 1 => Pad(<<x>>)[i] = <<x>>[i]) /\ (i > 1 => Pad(<<x>>)[i] = 0)
    BY <2>1, PadIs
  <2>3. \A i \in 1..3 : Pad(<<x>>)[i] = Pad(Bump(n, k))[i]
    BY <1>6, <1>10, <2>1, <2>2
  <2> QED BY <1>5, <2>1, <2>3, SamePad
<1>11. ASSUME NEW x \in Nat, k = 2, n[1] = 0, x = n[2] + 1
       PROVE Upto(<<0, x>>) = Upto(Bump(n, k))
  <2> DEFINE m == <<0, x>>
  <2>1. m \in Seq(Nat) /\ Len(m) = 2 /\ m[1] = 0 /\ m[2] = x
    OBVIOUS
  <2> HIDE DEF m
  <2>2. \A i \in 1..3 : (i <= 2 => Pad(m)[i] = m[i]) /\ (i > 2 => Pad(m)[i] = 0)
    BY <2>1, PadIs
  <2>3. \A i \in 1..3 : Pad(m)[i] = Pad(Bump(n, k))[i]
    BY <1>6, <1>11, <2>1, <2>2
  <2> QED BY <1>5, <2>1, <2>3, SamePad DEF m
<1>12. ASSUME NEW x \in Nat, k = 3, n[1] = 0, n[2] = 0, x = n[3] + 1
       PROVE Upto(<<0, 0, x>>) = Upto(Bump(n, k))
  <2> DEFINE m == <<0, 0, x>>
  <2>1. m \in Seq(Nat) /\ Len(m) = 3 /\ m[1] = 0 /\ m[2] = 0 /\ m[3] = x
    OBVIOUS
  <2> HIDE DEF m
  <2>2. \A i \in 1..3 : (i <= 3 => Pad(m)[i] = m[i]) /\ (i > 3 => Pad(m)[i] = 0)
    BY <2>1, PadIs
  <2>3. \A i \in 1..3 : Pad(m)[i] = Pad(Bump(n, k))[i]
    BY <1>6, <1>12, <2>1, <2>2
  <2> QED BY <1>5, <2>1, <2>3, SamePad DEF m
<1>13. CASE Len(n) = 1
  <2>1. k = 1 /\ n[1] + 1 \in Nat
    BY <1>2, <1>3, <1>13
  <2>2. CaretNpm(t) = From(t) \cup Upto(<<n[1] + 1>>)
    BY <1>7, <1>8, <1>13
  <2> QED BY <1>10, <2>1, <2>2 DEF n, k
<1>14. CASE Len(n) = 2
  <2>1. n[1] \in Nat /\ n[2] \in Nat /\ n[1] + 1 \in Nat /\ n[2] + 1 \in Nat
    BY <1>3, <1>14
  <2>2. CASE n[1] = 0
    <3>1. k = 2
      BY <1>2, <1>4, <1>14, <2>1, <2>2
    <3>2. CaretNpm(t) = From(t) \cup Upto(<<0, n[2] + 1>>)
      BY <1>7, <1>8, <1>14, <2>2
    <3> QED BY <1>11, <2>1, <2>2, <3>1, <3>2 DEF n, k
  <2>3. CASE n[1] # 0
    <3>1. k = 1
      BY <1>2, <1>14, <2>1, <2>3
    <3>2. CaretNpm(t) = From(t) \cup Upto(<<n[1] + 1>>)
      BY <1>7, <1>8, <1>14, <2>3
    <3> QED BY <1>10, <2>1, <3>1, <3>2 DEF n, k
  <2> QED BY <2>2, <2>3
<1>15. CASE Len(n) = 3
  <2>1. /\ n[1] \in Nat /\ n[2] \in Nat /\ n[3] \in Nat
        /\ n[1] + 1 \in Nat /\ n[2] + 1 \in Nat /\ n[3] + 1 \in Nat
    BY <1>3, <1>15
  <2>2. CASE n[1] = 0 /\ n[2] = 0
    <3>1. k = 3
      BY <1>2, <1>4, <1>15, <2>1, <2>2
    <3>2. CaretNpm(t) = From(t) \cup Upto(<<0, 0, n[3] + 1>>)
      BY <1>7, <1>8, <1>15, <2>2
    <3> QED BY <1>12, <2>1, <2>2, <3>1, <3>2 DEF n, k
  <2>3. CASE n[1] = 0 /\ n[2] # 0
    <3>1. k = 2
      BY <1>2, <1>4, <1>15, <2>1, <2>3
    <3>2. CaretNpm(t) = From(t) \cup Upto(<<0, n[2] + 1>>)
      BY <1>7, <1>8, <1>15, <2>3
    <3> QED BY <1>11, <2>1, <2>3, <3>1, <3>2 DEF n, k
  <2>4. CASE n[1] # 0
    <3>1. k = 1
      BY <1>2, <1>4, <1>15, <2>1, <2>4
    <3>2. CaretNpm(t) = From(t) \cup Upto(<<n[1] + 1>>)
      BY <1>7, <1>8, <1>15, <2>4
    <3> QED BY <1>10, <2>1, <3>1, <3>2 DEF n, k
  <2> QED BY <2>2, <2>3, <2>4
<1>16. Len(n) = 1 \/ Len(n) = 2 \/ Len(n) = 3
  BY <1>1, TermIs DEF n
<1> QED BY <1>13, <1>14, <1>15, <1>16, Zenon DEF n, k

(* A partial version stands for all that begin with it.                    *)
LEMMA Trichotomy ==
  ASSUME NEW a \in Triples, NEW b \in Triples
  PROVE Under(a, b) \in BOOLEAN /\ ~(Under(a, b) /\ Under(b, a)) /\ ~Under(a, a)
        /\ (~Under(a, b) /\ ~Under(b, a) <=> a = b)
<1>1. a[1] \in Nat /\ a[2] \in Nat /\ a[3] \in Nat /\ b[1] \in Nat /\ b[2] \in Nat /\ b[3] \in Nat
  BY TripleIs
<1>2. a = b <=> a[1] = b[1] /\ a[2] = b[2] /\ a[3] = b[3]
  <2>1. ASSUME a[1] = b[1] /\ a[2] = b[2] /\ a[3] = b[3] PROVE a = b
    <3>1. \A i \in 1..3 : i = 1 \/ i = 2 \/ i = 3
      OBVIOUS
    <3>2. \A i \in 1..3 : a[i] = b[i]
      BY <2>1, <3>1
    <3> QED BY <3>2 DEF Triples
  <2> QED BY <2>1
<1> QED BY <1>1, <1>2 DEF Under

LEMMA UnderNext ==
  ASSUME NEW n \in Seq(Nat), NEW k \in 1..3, Len(n) = k, NEW a \in Triples
  PROVE /\ Bump(n, k) \in Seq(Nat)
        /\ (Under(a, Pad(Bump(n, k))) <=> Under(a, Pad(n)) \/ Shares(a, n, k))
        /\ ~(Under(a, Pad(n)) /\ Shares(a, n, k))
        /\ (a = Pad(n) => Shares(a, n, k))
<1> DEFINE p == Pad(n)
           b == Pad(Bump(n, k))
<1>1. k \in Nat /\ k \in 1..Len(n) /\ k \in 0..3
  OBVIOUS
<1>2. Bump(n, k) \in Seq(Nat)
  <2>1. /\ Bump(n, k) \in Seq(Nat) /\ Len(Bump(n, k)) = k
        /\ \A j \in 1..k : Bump(n, k)[j] = IF j = k THEN n[j] + 1 ELSE n[j]
    BY <1>1, BumpOf
  <2> QED BY <2>1
<1>3. p[1] \in Nat /\ p[2] \in Nat /\ p[3] \in Nat /\ a[1] \in Nat /\ a[2] \in Nat /\ a[3] \in Nat
  BY PadIs, TripleIs
<1>4. \A i \in 1..3 : (i <= k => p[i] = n[i]) /\ (i > k => p[i] = 0)
  BY PadIs
<1>5. \A i \in 1..3 : b[i] = IF i < k THEN n[i] ELSE IF i = k THEN n[k] + 1 ELSE 0
  BY <1>1, PadBump
<1>6. Shares(a, n, k) <=> (k >= 1 => a[1] = n[1]) /\ (k >= 2 => a[2] = n[2])
                          /\ (k >= 3 => a[3] = n[3])
  BY <1>1, SharesIs
<1>7. a = p => a[1] = p[1] /\ a[2] = p[2] /\ a[3] = p[3]
  OBVIOUS
<1> HIDE DEF p, b
<1>8. /\ (Under(a, b) <=> Under(a, p) \/ Shares(a, n, k))
      /\ ~(Under(a, p) /\ Shares(a, n, k)) /\ (a = p => Shares(a, n, k))
  <2>1. CASE k = 1
    <3>1. b[1] = p[1] + 1 /\ b[2] = 0 /\ b[3] = 0 /\ p[2] = 0 /\ p[3] = 0
      BY <1>4, <1>5, <2>1
    <3>2. Shares(a, n, k) <=> a[1] = p[1]
      BY <1>4, <1>6, <2>1
    <3> QED BY <1>3, <1>7, <3>1, <3>2 DEF Under
  <2>2. CASE k = 2
    <3>1. b[1] = p[1] /\ b[2] = p[2] + 1 /\ b[3] = 0 /\ p[3] = 0
      BY <1>4, <1>5, <2>2
    <3>2. Shares(a, n, k) <=> a[1] = p[1] /\ a[2] = p[2]
      BY <1>4, <1>6, <2>2
    <3> QED BY <1>3, <1>7, <3>1, <3>2 DEF Under
  <2>3. CASE k = 3
    <3>1. b[1] = p[1] /\ b[2] = p[2] /\ b[3] = p[3] + 1
      BY <1>4, <1>5, <2>3
    <3>2. Shares(a, n, k) <=> a[1] = p[1] /\ a[2] = p[2] /\ a[3] = p[3]
      BY <1>4, <1>6, <2>3
    <3> QED BY <1>3, <1>7, <3>1, <3>2 DEF Under
  <2> QED BY <2>1, <2>2, <2>3
<1> QED BY <1>2, <1>8 DEF p, b

(* What a partial term's ends are.                                         *)
LEMMA PartialIs ==
  ASSUME NEW t \in SemTerms, NEW k \in 1..2, Len(t.nums) = k, NEW v \in SemVersions
  PROVE /\ Partial("npm", t) /\ (Family("npm", t, v) <=> Shares(v.nums, t.nums, k))
        /\ (After(v, Low("npm", t)) <=> Under(Pad(t.nums), v.nums))
        /\ (After(Low("npm", t), v) <=>
              Under(v.nums, Pad(t.nums)) \/ (v.nums = Pad(t.nums) /\ v.pre # <<>>))
        /\ (Follows(t, v) <=> v.nums = Pad(Bump(t.nums, k)))
<1> DEFINE n == t.nums
           low == Low("npm", t)
<1>1. n \in Seq(Nat) /\ k \in Nat /\ k \in 1..Len(n) /\ k \in 1..3 /\ k < 3
  BY TermIs
<1>2. Partial("npm", t)
  BY <1>1 DEF Partial
<1>3. Family("npm", t, v) <=> Shares(v.nums, n, k)
  BY <1>2 DEF Family
<1>4. low \in SemVersions /\ low.nums = Pad(n) /\ low.pre = <<>>
  <2>1. /\ Low("npm", t) \in SemVersions /\ Low("npm", t).nums = Pad(t.nums)
        /\ Low("npm", t).pre = IF Partial("npm", t) THEN <<>> ELSE t.pre
    BY LowIs
  <2> QED BY <1>2, <2>1
<1>5. v.nums \in Triples /\ v.pre \in Seq(Identifiers)
  BY SemOf
<1> HIDE DEF low
<1>6. /\ (ComparePre(<<>>, v.pre) > 0 <=> v.pre # <<>>) /\ ~(ComparePre(v.pre, <<>>) > 0)
      /\ ComparePre(<<>>, <<>>) = 0
  BY <1>5, ReleaseAfter
<1>7. After(v, low) <=> Under(low.nums, v.nums)
                        \/ (v.nums = low.nums /\ ComparePre(v.pre, low.pre) > 0)
  BY <1>4, AfterIs
<1>8. After(low, v) <=> Under(v.nums, low.nums)
                        \/ (low.nums = v.nums /\ ComparePre(low.pre, v.pre) > 0)
  BY <1>4, AfterIs
<1>9. Follows(t, v) <=> v.nums = Pad(Bump(n, k))
  <2> DEFINE a == v.nums
             b == Pad(Bump(n, k))
  <2>1. \A i \in 1..3 : b[i] = IF i < k THEN n[i] ELSE IF i = k THEN n[k] + 1 ELSE 0
    BY <1>1, PadBump
  <2>2. b \in Triples
    <3>1. /\ Bump(n, k) \in Seq(Nat) /\ Len(Bump(n, k)) = k
          /\ \A j \in 1..k : Bump(n, k)[j] = IF j = k THEN n[j] + 1 ELSE n[j]
      BY <1>1, BumpOf
    <3> QED BY <3>1, PadIs
  <2>3. a = b <=> a[1] = b[1] /\ a[2] = b[2] /\ a[3] = b[3]
    <3> HIDE DEF a, b
    <3>0. a \in Triples
      BY <1>5 DEF a
    <3>1. ASSUME a[1] = b[1] /\ a[2] = b[2] /\ a[3] = b[3] PROVE a = b
      <4>1. \A i \in 1..3 : i = 1 \/ i = 2 \/ i = 3
        OBVIOUS
      <4>2. \A i \in 1..3 : a[i] = b[i]
        BY <3>1, <4>1
      <4> QED BY <2>2, <3>0, <4>2 DEF Triples
    <3> QED BY <3>1
  <2>4. \A j \in 0..3 :
          Shares(a, n, j) <=> (j >= 1 => a[1] = n[1]) /\ (j >= 2 => a[2] = n[2])
                              /\ (j >= 3 => a[3] = n[3])
    BY <1>1, <1>5, SharesIs
  <2>5. Follows(t, v) <=> /\ Shares(a, n, k - 1) /\ a[k] = n[k] + 1
                          /\ \A i \in k + 1 .. 3 : a[i] = 0
    BY DEF Follows
  <2> HIDE DEF a, b
  <2>6. CASE k = 1
    <3>1. Follows(t, v) <=> Shares(a, n, 0) /\ a[1] = n[1] + 1 /\ a[2] = 0 /\ a[3] = 0
      <4>1. \A i : i \in 2..3 <=> i = 2 \/ i = 3
        OBVIOUS
      <4> QED BY <2>5, <2>6, <4>1
    <3> QED BY <2>1, <2>3, <2>4, <2>6, <3>1 DEF a, b
  <2>7. CASE k = 2
    <3>1. Follows(t, v) <=> Shares(a, n, 1) /\ a[2] = n[2] + 1 /\ a[3] = 0
      <4>1. \A i : i \in 3..3 <=> i = 3
        OBVIOUS
      <4> QED BY <2>5, <2>7, <4>1
    <3> QED BY <2>1, <2>3, <2>4, <2>7, <3>1 DEF a, b
  <2> QED BY <2>6, <2>7
<1> QED BY <1>2, <1>3, <1>4, <1>6, <1>7, <1>8, <1>9 DEF low, n

LEMMA NpmNone ==
  ASSUME NEW t \in SemTerms, ParsesNpm(t), t.nums = <<>>, NEW v \in SemVersions
  PROVE All(Desugar(t), v) <=> Means("npm", t, v)
<1>1. t.op # "!=" /\ t.op \in Ops
  BY TermIs DEF ParsesNpm
<1>2. Means("npm", t, v) <=> t.op \notin {">", "<"}
  BY MeansIs
<1>3. ~All(NoneComp, v)
  <2> DEFINE z == <<0, 0, 0>>
  <2>1. z \in Seq(Nat) /\ Len(z) = 3 /\ z[1] = 0 /\ z[2] = 0 /\ z[3] = 0
    OBVIOUS
  <2>2. NoneComp = Upto(z)
    BY DEF NoneComp, Upto
  <2> HIDE DEF z
  <2>3. Pad(z)[1] = 0 /\ Pad(z)[2] = 0 /\ Pad(z)[3] = 0
    BY <2>1, PadIs
  <2>4. All(Upto(z), v) <=> Under(v.nums, Pad(z))
    BY <2>1, UptoAll
  <2>5. v.nums[1] \in Nat /\ v.nums[2] \in Nat /\ v.nums[3] \in Nat
    BY SemIs
  <2> QED BY <2>2, <2>3, <2>4, <2>5 DEF Under
<1>4. All({}, v)
  BY DEF All
<1>5. CASE t.op \in {">", "<"}
  <2>1. Desugar(t) = XRange(t)
    BY <1>5 DEF Desugar
  <2>2. XRange(t) = NoneComp
    BY <1>5 DEF XRange
  <2> QED BY <1>2, <1>3, <1>5, <2>1, <2>2
<1>6. CASE t.op \in {"^", "~", "~>", "from", "to"}
  <2>1. Desugar(t) = {}
    BY <1>6 DEF Desugar, CaretNpm, TildeNpm, HyphenFrom, HyphenTo
  <2> QED BY <1>2, <1>4, <1>6, <2>1
<1>7. CASE t.op \in {"bare", "=", ">=", "<="}
  <2>1. Desugar(t) = XRange(t)
    BY <1>7 DEF Desugar
  <2>2. XRange(t) = {}
    BY <1>7 DEF XRange
  <2> QED BY <1>2, <1>4, <1>7, <2>1, <2>2
<1> QED BY <1>1, <1>5, <1>6, <1>7 DEF Ops

LEMMA NpmArrows ==
  ASSUME NEW t \in SemTerms, t.nums # <<>>, t.op \in {"^", "~", "~>"}, NEW v \in SemVersions
  PROVE All(Desugar(t), v) <=> Means("npm", t, v)
<1> DEFINE n == t.nums
           k == Fixed("npm", t)
<1>1. n \in Seq(Nat) /\ (Len(n) = 1 \/ Len(n) = 2 \/ Len(n) = 3)
  BY TermIs
<1>2. Means("npm", t, v) <=> ~After(Low("npm", t), v) /\ Shares(v.nums, n, k)
  <2>1. ~IsPin("npm", t)
    BY DEF IsPin
  <2> QED BY <2>1, MeansIs
<1>3. k \in 1..Len(n) /\ Desugar(t) = From(t) \cup Upto(Bump(n, k))
  <2>1. CASE t.op = "^"
    <3>1. k = Breaking(n)
      BY <2>1 DEF Fixed
    <3>2. Breaking(n) \in 1..Len(n)
      BY <1>1, BreakingIs
    <3>3. Desugar(t) = CaretNpm(t)
      BY <2>1 DEF Desugar
    <3>4. CaretNpm(t) = From(t) \cup Upto(Bump(n, Breaking(n)))
      BY CaretNpmIs
    <3> QED BY <3>1, <3>2, <3>3, <3>4
  <2>2. CASE t.op \in {"~", "~>"}
    <3>1. k = Least(2, Len(n))
      BY <2>2 DEF Fixed
    <3>2. Desugar(t) = TildeNpm(t)
      BY <2>2 DEF Desugar
    <3>3. TildeNpm(t) = From(t) \cup Upto(Bump(n, IF Len(n) = 1 THEN 1 ELSE 2))
      BY DEF TildeNpm, TildeUpper
    <3>4. k = (IF Len(n) = 1 THEN 1 ELSE 2) /\ k \in 1..Len(n)
      <4>1. CASE Len(n) = 1
        BY <3>1, <4>1 DEF Least
      <4>2. CASE Len(n) = 2
        BY <3>1, <4>2 DEF Least
      <4>3. CASE Len(n) = 3
        BY <3>1, <4>3 DEF Least
      <4> QED BY <1>1, <4>1, <4>2, <4>3
    <3> QED BY <3>2, <3>3, <3>4
  <2> QED BY <2>1, <2>2
<1> HIDE DEF k
<1>4. All(From(t) \cup Upto(Bump(n, k)), v) <=>
        ~After(Low("npm", t), v) /\ Shares(v.nums, n, k)
  BY <1>3, Between
<1> QED BY <1>2, <1>3, <1>4

LEMMA NpmWhole ==
  ASSUME NEW t \in SemTerms, Len(t.nums) = 3, t.op \notin {"^", "~", "~>", "!="},
         NEW v \in SemVersions
  PROVE All(Desugar(t), v) <=> Means("npm", t, v)
<1> DEFINE n == t.nums
           low == Low("npm", t)
<1>1. n \in Seq(Nat) /\ n # <<>> /\ t.pre \in Seq(Identifiers)
      /\ t.op \in {"bare", "=", ">=", ">", "<=", "<", "from", "to"}
  BY TermIs DEF Ops
<1>2. ~Partial("npm", t) /\ ~Family("npm", t, v)
  BY DEF Partial, Family
<1>3. low = [nums |-> Pad(n), pre |-> t.pre]
  <2>1. ~Partial("npm", t) => Low("npm", t) = [nums |-> Pad(t.nums), pre |-> t.pre]
    BY LowIs
  <2> QED BY <1>2, <2>1
<1> DEFINE c(op) == Mk(op, n, t.pre)
<1>4. /\ (Test(c(">"), v) <=> After(v, low)) /\ (Test(c("<"), v) <=> After(low, v))
      /\ (Test(c(">="), v) <=> ~After(low, v)) /\ (Test(c("<="), v) <=> ~After(v, low))
      /\ (Test(c("="), v) <=> v = low)
  <2>1. /\ (Test(Mk(">", n, t.pre), v) <=> After(v, [nums |-> Pad(n), pre |-> t.pre]))
        /\ (Test(Mk("<", n, t.pre), v) <=> After([nums |-> Pad(n), pre |-> t.pre], v))
        /\ (Test(Mk(">=", n, t.pre), v) <=> ~After([nums |-> Pad(n), pre |-> t.pre], v))
        /\ (Test(Mk("<=", n, t.pre), v) <=> ~After(v, [nums |-> Pad(n), pre |-> t.pre]))
        /\ (Test(Mk("=", n, t.pre), v) <=> v = [nums |-> Pad(n), pre |-> t.pre])
        /\ (Test(Mk("bare", n, t.pre), v) <=> v = [nums |-> Pad(n), pre |-> t.pre])
        /\ (Test(Mk("!=", n, t.pre), v) <=> v # [nums |-> Pad(n), pre |-> t.pre])
    BY <1>1, TestIs
  <2> QED BY <1>3, <2>1, Zenon
<1>5. IsPin("npm", t) <=> t.op \in {"bare", "="}
  BY DEF IsPin
<1> HIDE DEF low
<1>6. \A d : All({d}, v) <=> Test(d, v)
  BY DEF All
<1>7. CASE t.op \in {"bare", "="}
  <2>1. Desugar(t) = {c("=")}
    <3>1. Desugar(t) = XRange(t)
      BY <1>7 DEF Desugar
    <3>2. XRange(t) = {Mk(IF t.op = "bare" THEN "=" ELSE t.op, n, t.pre)}
      BY <1>1 DEF XRange
    <3> QED BY <1>7, <3>1, <3>2
  <2>2. Means("npm", t, v) <=> v = low
    BY <1>1, <1>5, <1>7, MeansIs DEF low
  <2> QED BY <1>4, <1>6, <2>1, <2>2
<1>8. CASE t.op \in {">=", ">", "<=", "<"}
  <2>1. Desugar(t) = {c(t.op)}
    <3>1. Desugar(t) = XRange(t)
      BY <1>8 DEF Desugar
    <3>2. XRange(t) = {Mk(IF t.op = "bare" THEN "=" ELSE t.op, n, t.pre)}
      BY <1>1 DEF XRange
    <3> QED BY <1>8, <3>1, <3>2
  <2>2. All(Desugar(t), v) <=> Test(c(t.op), v)
    BY <1>6, <2>1
  <2>3. ~IsPin("npm", t)
    BY <1>5, <1>8
  <2>4. CASE t.op = ">="
    <3>1. Means("npm", t, v) <=> ~After(low, v)
      BY <1>1, <2>3, <2>4, MeansIs DEF low
    <3> QED BY <1>4, <2>2, <2>4, <3>1
  <2>5. CASE t.op = ">"
    <3>1. Means("npm", t, v) <=> Beyond("npm", t, v)
      BY <1>1, <2>3, <2>5, MeansIs
    <3>2. Beyond("npm", t, v) <=> After(v, low)
      BY <1>2 DEF Beyond, low
    <3> QED BY <1>4, <2>2, <2>5, <3>1, <3>2
  <2>6. CASE t.op = "<="
    <3>1. Means("npm", t, v) <=> ~After(v, low) \/ Family("npm", t, v)
      BY <1>1, <2>3, <2>6, MeansIs DEF low
    <3> QED BY <1>2, <1>4, <2>2, <2>6, <3>1
  <2>7. CASE t.op = "<"
    <3>1. Means("npm", t, v) <=> After(low, v) /\ ~Family("npm", t, v)
      BY <1>1, <2>3, <2>7, MeansIs DEF low
    <3> QED BY <1>2, <1>4, <2>2, <2>7, <3>1
  <2> QED BY <1>8, <2>4, <2>5, <2>6, <2>7
<1>9. CASE t.op = "from"
  <2>1. Desugar(t) = From(t)
    BY <1>1, <1>9 DEF Desugar, HyphenFrom
  <2>2. Means("npm", t, v) <=> ~After(low, v)
    BY <1>1, <1>5, <1>9, MeansIs DEF low
  <2> QED BY <2>1, <2>2, FromIs DEF low
<1>10. CASE t.op = "to"
  <2>1. Desugar(t) = {c("<=")}
    <3>1. Desugar(t) = HyphenTo(t)
      BY <1>10 DEF Desugar
    <3>2. Len(t.nums) \notin 1..2
      OBVIOUS
    <3> QED BY <1>1, <3>1, <3>2 DEF HyphenTo
  <2>2. Means("npm", t, v) <=> ~After(v, low) \/ Family("npm", t, v)
    BY <1>1, <1>5, <1>10, MeansIs DEF low
  <2> QED BY <1>2, <1>4, <1>6, <2>1, <2>2
<1> QED BY <1>1, <1>7, <1>8, <1>9, <1>10

LEMMA NpmPartial ==
  ASSUME NEW t \in SemTerms, NEW k \in 1..2, Len(t.nums) = k,
         t.op \notin {"^", "~", "~>", "!="}, NEW v \in SemVersions
  PROVE All(Desugar(t), v) <=> Means("npm", t, v)
<1> DEFINE n == t.nums
           low == Low("npm", t)
           p == Pad(n)
           a == v.nums
           next == Bump(n, k)
           b == Pad(next)
<1>1. n \in Seq(Nat) /\ n # <<>> /\ t.op \in {"bare", "=", ">=", ">", "<=", "<", "from", "to"}
  BY TermIs DEF Ops
<1>2. k \in 1..3 /\ k \in 1..Len(n) /\ a \in Triples /\ p \in Triples
  BY <1>1, SemOf, PadIs
<1>3. /\ Partial("npm", t) /\ (Family("npm", t, v) <=> Shares(v.nums, t.nums, k))
      /\ (After(v, Low("npm", t)) <=> Under(Pad(t.nums), v.nums))
      /\ (After(Low("npm", t), v) <=>
            Under(v.nums, Pad(t.nums)) \/ (v.nums = Pad(t.nums) /\ v.pre # <<>>))
      /\ (Follows(t, v) <=> v.nums = Pad(Bump(t.nums, k)))
  BY PartialIs
<1>4. /\ Bump(n, k) \in Seq(Nat)
      /\ (Under(a, Pad(Bump(n, k))) <=> Under(a, Pad(n)) \/ Shares(a, n, k))
      /\ ~(Under(a, Pad(n)) /\ Shares(a, n, k))
      /\ (a = Pad(n) => Shares(a, n, k))
  BY <1>1, <1>2, UnderNext
<1>5. b \in Triples
  BY <1>4, PadIs
<1>6. All(Upto(next), v) <=> Under(a, b)
  BY <1>4, UptoAll
<1>7. All(Upto(n), v) <=> Under(a, p)
  BY <1>1, UptoAll
<1>8. All(From(t), v) <=> ~After(low, v)
  BY FromIs
<1>9. All(From(t) \cup Upto(next), v) <=> ~After(low, v) /\ Shares(a, n, k)
  BY <1>2, Between
<1>10. /\ ~(Under(a, p) /\ Under(p, a)) /\ (~Under(a, p) /\ ~Under(p, a) <=> a = p)
       /\ ~Under(a, a)
  BY <1>2, Trichotomy
<1>11. /\ ~(Under(a, b) /\ Under(b, a)) /\ (~Under(a, b) /\ ~Under(b, a) <=> a = b)
  BY <1>2, <1>5, Trichotomy
<1>12. <<>> \in Seq(Identifiers)
  OBVIOUS
<1>13. low = [nums |-> p, pre |-> <<>>]
  BY <1>3, LowIs
<1>14. All({Mk(">=", n, <<>>)}, v) <=> ~After(low, v)
  <2>1. Test(Mk(">=", n, <<>>), v) <=> ~After([nums |-> Pad(n), pre |-> <<>>], v)
    BY <1>1, <1>12, TestIs
  <2> QED BY <1>13, <2>1, Zenon DEF All
<1>15. All({Mk(">=", next, <<>>)}, v) <=> ~(Under(a, b) \/ (a = b /\ v.pre # <<>>))
  <2> DEFINE w == [nums |-> Pad(next), pre |-> <<>>]
  <2>1. Test(Mk(">=", next, <<>>), v) <=> ~After(w, v)
    BY <1>4, <1>12, TestIs
  <2>2. w \in SemVersions /\ w.nums = b /\ w.pre = <<>>
    BY <1>5, <1>12 DEF SemVersions, Triples
  <2> HIDE DEF w
  <2>3. After(w, v) <=> Under(v.nums, w.nums)
                        \/ (w.nums = v.nums /\ ComparePre(w.pre, v.pre) > 0)
    BY <2>2, AfterIs
  <2>4. ComparePre(<<>>, v.pre) > 0 <=> v.pre # <<>>
    BY SemOf, ReleaseAfter
  <2> HIDE DEF a, b, next
  <2>5. After(w, v) <=> Under(a, b) \/ (a = b /\ v.pre # <<>>)
    BY <2>2, <2>3, <2>4 DEF a
  <2> QED BY <2>1, <2>5, Zenon DEF All
<1>16. IsPin("npm", t) <=> FALSE
  <2>1. Len(t.nums) # 3
    OBVIOUS
  <2> QED BY <2>1, Zenon DEF IsPin
<1>17. t.op \in {"bare", "=", ">=", ">", "<=", "<"} => Desugar(t) = XRange(t)
  BY DEF Desugar
<1>18. Len(n) = k /\ k < 3 /\ Len(n) < 3
  OBVIOUS
<1> HIDE DEF low, p, a, b, next
<1>19. CASE t.op = ">"
  <2>1. XRange(t) = {Mk(">=", next, <<>>)}
    BY <1>1, <1>18, <1>19 DEF XRange, next
  <2>2. Means("npm", t, v) <=> Beyond("npm", t, v)
    BY <1>1, <1>16, <1>19, MeansIs
  <2>3. Beyond("npm", t, v) <=> Under(p, a) /\ ~Shares(a, n, k) /\ (v.pre # <<>> => a # b)
    BY <1>3 DEF Beyond, p, a, b, next
  <2> QED BY <1>4, <1>10, <1>11, <1>15, <1>17, <1>19, <2>1, <2>2, <2>3 DEF p, b, next
<1>20. CASE t.op = ">="
  <2>1. XRange(t) = {Mk(">=", n, <<>>)}
    BY <1>1, <1>18, <1>20 DEF XRange
  <2>2. Means("npm", t, v) <=> ~After(low, v)
    BY <1>1, <1>16, <1>20, MeansIs DEF low
  <2> QED BY <1>14, <1>17, <1>20, <2>1, <2>2
<1>21. CASE t.op = "<"
  <2>1. XRange(t) = Upto(n)
    BY <1>1, <1>18, <1>21 DEF XRange
  <2>2. Means("npm", t, v) <=> After(low, v) /\ ~Family("npm", t, v)
    BY <1>1, <1>16, <1>21, MeansIs DEF low
  <2>3. (After(low, v) <=> Under(a, p) \/ (a = p /\ v.pre # <<>>))
        /\ (Family("npm", t, v) <=> Shares(a, n, k))
    BY <1>3 DEF low, a, p
  <2>4. ~(Under(a, p) /\ Shares(a, n, k)) /\ (a = p => Shares(a, n, k))
    BY <1>4 DEF a, p
  <2> QED BY <1>7, <1>17, <1>21, <2>1, <2>2, <2>3, <2>4
<1>22. CASE t.op = "<="
  <2>1. XRange(t) = Upto(next)
    BY <1>1, <1>18, <1>22 DEF XRange, next
  <2>2. Means("npm", t, v) <=> ~After(v, low) \/ Family("npm", t, v)
    BY <1>1, <1>16, <1>22, MeansIs DEF low
  <2>3. (After(v, low) <=> Under(p, a)) /\ (Family("npm", t, v) <=> Shares(a, n, k))
    BY <1>3 DEF low, a, p
  <2>4. (Under(a, b) <=> Under(a, p) \/ Shares(a, n, k)) /\ (a = p => Shares(a, n, k))
        /\ ~(Under(a, p) /\ Shares(a, n, k))
    BY <1>4 DEF a, p, b, next
  <2> QED BY <1>6, <1>10, <1>17, <1>22, <2>1, <2>2, <2>3, <2>4
<1>23. CASE t.op \in {"bare", "="}
  <2>1. XRange(t) = From(t) \cup Upto(next)
    BY <1>1, <1>18, <1>23 DEF XRange, next
  <2>2. Means("npm", t, v) <=> ~After(low, v) /\ Shares(a, n, Fixed("npm", t))
    BY <1>1, <1>16, <1>23, MeansIs DEF low, a
  <2>3. Fixed("npm", t) = k
    BY <1>18, <1>23 DEF Fixed
  <2> QED BY <1>9, <1>17, <1>23, <2>1, <2>2, <2>3
<1>24. CASE t.op = "from"
  <2>1. Desugar(t) = From(t)
    BY <1>1, <1>24 DEF Desugar, HyphenFrom
  <2>2. Means("npm", t, v) <=> ~After(low, v)
    BY <1>1, <1>16, <1>24, MeansIs DEF low
  <2> QED BY <1>8, <2>1, <2>2
<1>25. CASE t.op = "to"
  <2>1. Desugar(t) = Upto(next)
    <3>1. Desugar(t) = HyphenTo(t)
      BY <1>25 DEF Desugar
    <3>2. Len(t.nums) \in 1..2
      OBVIOUS
    <3> QED BY <1>1, <3>1, <3>2 DEF HyphenTo, next
  <2>2. Means("npm", t, v) <=> ~After(v, low) \/ Family("npm", t, v)
    BY <1>1, <1>16, <1>25, MeansIs DEF low
  <2>3. (After(v, low) <=> Under(p, a)) /\ (Family("npm", t, v) <=> Shares(a, n, k))
    BY <1>3 DEF low, a, p
  <2>4. (Under(a, b) <=> Under(a, p) \/ Shares(a, n, k)) /\ (a = p => Shares(a, n, k))
        /\ ~(Under(a, p) /\ Shares(a, n, k))
    BY <1>4 DEF a, p, b, next
  <2> QED BY <1>6, <1>10, <1>25, <2>1, <2>2, <2>3, <2>4
<1> QED BY <1>1, <1>19, <1>20, <1>21, <1>22, <1>23, <1>24, <1>25

LEMMA NpmMeans ==
  ASSUME NEW t \in SemTerms, ParsesNpm(t), NEW v \in SemVersions
  PROVE All(Desugar(t), v) <=> Means("npm", t, v)
<1>1. t.op # "!="
  BY DEF ParsesNpm
<1>2. /\ (Len(t.nums) = 0 \/ Len(t.nums) = 1 \/ Len(t.nums) = 2 \/ Len(t.nums) = 3)
      /\ (t.nums = <<>> <=> Len(t.nums) = 0)
  BY TermIs
<1>3. CASE t.nums = <<>>
  BY <1>3, NpmNone
<1>4. CASE t.nums # <<>> /\ t.op \in {"^", "~", "~>"}
  BY <1>4, NpmArrows
<1>5. CASE t.op \notin {"^", "~", "~>"} /\ Len(t.nums) = 3
  BY <1>1, <1>5, NpmWhole
<1>6. CASE t.op \notin {"^", "~", "~>"} /\ Len(t.nums) = 1
  <2>1. 1 \in 1..2
    OBVIOUS
  <2> QED BY <1>1, <1>6, <2>1, NpmPartial
<1>7. CASE t.op \notin {"^", "~", "~>"} /\ Len(t.nums) = 2
  <2>1. 2 \in 1..2
    OBVIOUS
  <2> QED BY <1>1, <1>7, <2>1, NpmPartial
<1> QED BY <1>2, <1>3, <1>4, <1>5, <1>6, <1>7

(* What a comparator's prerelease comes from: nothing, the least of all, or*)
(* the term itself.                                                        *)
OwnPre(t, c) == Len(t.nums) = 3 /\ c.v.nums = Pad(t.nums) /\ c.v.pre = t.pre
AnEnd(c) == \E m \in Seq(Nat) : c \in Upto(m)

LEMMA MkPre ==
  ASSUME NEW n \in Seq(Nat), NEW p \in Seq(Identifiers), NEW op
  PROVE Mk(op, n, p).v.nums = Pad(n) /\ Mk(op, n, p).v.pre = p
BY DEF Mk

LEMMA FromPre ==
  ASSUME NEW t \in SemTerms
  PROVE /\ \A c \in From(t) : c.v.pre = <<>> \/ OwnPre(t, c)
        /\ (Len(t.nums) = 3 => \E c \in From(t) : OwnPre(t, c))
<1>1. t.nums \in Seq(Nat) /\ t.pre \in Seq(Identifiers) /\ <<>> \in Seq(Identifiers)
  BY TermIs
<1>2. CASE Len(t.nums) = 3
  <2>1. From(t) = {Mk(">=", t.nums, t.pre)}
    BY <1>2 DEF From
  <2>2. Mk(">=", t.nums, t.pre).v.nums = Pad(t.nums) /\ Mk(">=", t.nums, t.pre).v.pre = t.pre
    BY <1>1, MkPre
  <2> QED BY <1>2, <2>1, <2>2, Zenon DEF OwnPre
<1>3. CASE Len(t.nums) # 3
  <2>1. From(t) = {Mk(">=", t.nums, <<>>)}
    BY <1>3 DEF From
  <2>2. Mk(">=", t.nums, <<>>).v.nums = Pad(t.nums) /\ Mk(">=", t.nums, <<>>).v.pre = <<>>
    BY <1>1, MkPre
  <2> QED BY <1>3, <2>1, <2>2, Zenon
<1> QED BY <1>2, <1>3

LEMMA KindsWhole ==
  ASSUME NEW t \in SemTerms, ParsesNpm(t), Len(t.nums) = 3
  PROVE /\ \A c \in Desugar(t) : c.v.pre = <<>> \/ AnEnd(c) \/ OwnPre(t, c)
        /\ \E c \in Desugar(t) : OwnPre(t, c)
<1>1. /\ t.nums \in Seq(Nat) /\ t.nums # <<>> /\ t.pre \in Seq(Identifiers) /\ t.op # "!="
      /\ t.op \in {"bare", "=", ">=", ">", "<=", "<", "from", "to", "^", "~", "~>"}
  BY TermIs DEF Ops, ParsesNpm
<1>2. /\ \A c \in From(t) : c.v.pre = <<>> \/ OwnPre(t, c)
      /\ \E c \in From(t) : OwnPre(t, c)
  BY FromPre
<1>3. CASE t.op \in {"^", "~", "~>"}
  <2>1. \E k \in 1..Len(t.nums) : Desugar(t) = From(t) \cup Upto(Bump(t.nums, k))
    <3>1. CASE t.op = "^"
      <4>1. Desugar(t) = CaretNpm(t)
        BY <3>1 DEF Desugar
      <4>2. CaretNpm(t) = From(t) \cup Upto(Bump(t.nums, Breaking(t.nums)))
        BY <1>1, CaretNpmIs
      <4>3. Breaking(t.nums) \in 1..Len(t.nums)
        BY <1>1, BreakingIs
      <4> QED BY <4>1, <4>2, <4>3
    <3>2. CASE t.op \in {"~", "~>"}
      <4>1. Desugar(t) = TildeNpm(t)
        BY <3>2 DEF Desugar
      <4>2. TildeNpm(t) = From(t) \cup Upto(Bump(t.nums, 2))
        BY <1>1 DEF TildeNpm, TildeUpper
      <4>3. 2 \in 1..Len(t.nums)
        OBVIOUS
      <4> QED BY <4>1, <4>2, <4>3
    <3> QED BY <1>3, <3>1, <3>2
  <2>2. PICK k \in 1..Len(t.nums) : Desugar(t) = From(t) \cup Upto(Bump(t.nums, k))
    BY <2>1
  <2>3. Bump(t.nums, k) \in Seq(Nat)
    <3>1. /\ Bump(t.nums, k) \in Seq(Nat) /\ Len(Bump(t.nums, k)) = k
          /\ \A j \in 1..k : Bump(t.nums, k)[j] = IF j = k THEN t.nums[j] + 1 ELSE t.nums[j]
      BY <1>1, BumpOf
    <3> QED BY <3>1
  <2>4. \A c \in Upto(Bump(t.nums, k)) : AnEnd(c)
    BY <2>3, Zenon DEF AnEnd
  <2> QED BY <1>2, <2>2, <2>4, Zenon
<1>4. CASE t.op = "from"
  <2>1. Desugar(t) = From(t)
    BY <1>1, <1>4 DEF Desugar, HyphenFrom
  <2> QED BY <1>2, <2>1, Zenon
<1>5. CASE t.op \in {"bare", "=", ">=", ">", "<=", "<", "to"}
  <2>1. \E op : Desugar(t) = {Mk(op, t.nums, t.pre)}
    <3>1. CASE t.op = "to"
      <4>1. Desugar(t) = HyphenTo(t)
        BY <3>1 DEF Desugar
      <4>2. Len(t.nums) \notin 1..2
        OBVIOUS
      <4> QED BY <1>1, <4>1, <4>2 DEF HyphenTo
    <3>2. CASE t.op # "to"
      <4>1. Desugar(t) = XRange(t)
        BY <1>5, <3>2 DEF Desugar
      <4>2. ~(Len(t.nums) < 3)
        OBVIOUS
      <4>3. XRange(t) = {Mk(IF t.op = "bare" THEN "=" ELSE t.op, t.nums, t.pre)}
        BY <1>1, <4>2 DEF XRange
      <4> QED BY <4>1, <4>3, Zenon
    <3> QED BY <3>1, <3>2
  <2>2. PICK op : Desugar(t) = {Mk(op, t.nums, t.pre)}
    BY <2>1
  <2>3. Mk(op, t.nums, t.pre).v.nums = Pad(t.nums) /\ Mk(op, t.nums, t.pre).v.pre = t.pre
    BY <1>1, MkPre
  <2>4. OwnPre(t, Mk(op, t.nums, t.pre))
    BY <2>3, Zenon DEF OwnPre
  <2> QED BY <2>2, <2>4, Zenon
<1> QED BY <1>1, <1>3, <1>4, <1>5

LEMMA KindsPartial ==
  ASSUME NEW t \in SemTerms, ParsesNpm(t), Len(t.nums) # 3
  PROVE \A c \in Desugar(t) : c.v.pre = <<>> \/ AnEnd(c)
<1> DEFINE n == t.nums
<1>1. /\ n \in Seq(Nat) /\ <<>> \in Seq(Identifiers) /\ t.op # "!="
      /\ (n = <<>> <=> Len(n) = 0) /\ (Len(n) < 3 <=> Len(n) # 3)
      /\ (Len(n) = 0 \/ Len(n) = 1 \/ Len(n) = 2)
      /\ t.op \in {"bare", "=", ">=", ">", "<=", "<", "from", "to", "^", "~", "~>"}
  BY TermIs DEF Ops, ParsesNpm
<1>2. \A c \in From(t) : c.v.pre = <<>>
  BY FromPre DEF OwnPre
<1>3. \A m \in Seq(Nat) : \A c \in Upto(m) : AnEnd(c)
  BY Zenon DEF AnEnd
<1>4. \A k \in 1..Len(n) : Bump(n, k) \in Seq(Nat)
  <2> SUFFICES ASSUME NEW k \in 1..Len(n) PROVE Bump(n, k) \in Seq(Nat)
    OBVIOUS
  <2>1. /\ Bump(n, k) \in Seq(Nat) /\ Len(Bump(n, k)) = k
        /\ \A j \in 1..k : Bump(n, k)[j] = IF j = k THEN n[j] + 1 ELSE n[j]
    BY <1>1, BumpOf
  <2> QED BY <2>1
<1>5. CASE n = <<>>
  <2>1. Desugar(t) = {} \/ Desugar(t) = NoneComp
    <3>1. CASE t.op \in {"bare", "=", ">=", ">", "<=", "<"}
      BY <1>5, <3>1 DEF Desugar, XRange
    <3>2. CASE t.op \in {"from", "to", "^", "~", "~>"}
      BY <1>5, <3>2 DEF Desugar, CaretNpm, TildeNpm, HyphenFrom, HyphenTo
    <3> QED BY <1>1, <3>1, <3>2
  <2>2. NoneComp = Upto(<<0, 0, 0>>) /\ <<0, 0, 0>> \in Seq(Nat)
    BY DEF NoneComp, Upto
  <2> QED BY <1>3, <2>1, <2>2, Zenon
<1>6. CASE n # <<>>
  <2>1. Len(n) \in 1..Len(n) /\ Bump(n, Len(n)) \in Seq(Nat)
    <3>1. Len(n) \in 1..Len(n)
      BY <1>1, <1>6
    <3> QED BY <1>4, <3>1
  <2>2. \A m \in Seq(Nat) : Mk(">=", m, <<>>).v.pre = <<>>
    BY <1>1, MkPre
  <2>3. CASE t.op \in {"^", "~", "~>"}
    <3>1. \E k \in 1..Len(n) : Desugar(t) = From(t) \cup Upto(Bump(n, k))
      <4>1. CASE t.op = "^"
        <5>1. Desugar(t) = CaretNpm(t)
          BY <4>1 DEF Desugar
        <5>2. CaretNpm(t) = From(t) \cup Upto(Bump(t.nums, Breaking(t.nums)))
          BY <1>6, CaretNpmIs
        <5>3. Breaking(n) \in 1..Len(n)
          BY <1>1, <1>6, BreakingIs
        <5> QED BY <5>1, <5>2, <5>3
      <4>2. CASE t.op \in {"~", "~>"}
        <5>1. Desugar(t) = TildeNpm(t)
          BY <4>2 DEF Desugar
        <5>2. TildeNpm(t) = From(t) \cup Upto(Bump(n, IF Len(n) = 1 THEN 1 ELSE 2))
          BY <1>6 DEF TildeNpm, TildeUpper
        <5>3. (IF Len(n) = 1 THEN 1 ELSE 2) \in 1..Len(n)
          <6>1. CASE Len(n) = 1
            BY <6>1
          <6>2. CASE Len(n) = 2
            BY <6>2
          <6> QED BY <1>1, <1>6, <6>1, <6>2
        <5> QED BY <5>1, <5>2, <5>3
      <4> QED BY <2>3, <4>1, <4>2
    <3>2. PICK k \in 1..Len(n) : Desugar(t) = From(t) \cup Upto(Bump(n, k))
      BY <3>1
    <3>3. Bump(n, k) \in Seq(Nat)
      BY <1>4
    <3> QED BY <1>2, <1>3, <3>2, <3>3, Zenon
  <2>4. CASE t.op = "from"
    <3>1. Desugar(t) = From(t)
      BY <1>6, <2>4 DEF Desugar, HyphenFrom
    <3> QED BY <1>2, <3>1, Zenon
  <2>5. CASE t.op = "to"
    <3>1. Desugar(t) = HyphenTo(t)
      BY <2>5 DEF Desugar
    <3>2. Len(n) \in 1..2
      BY <1>1, <1>6
    <3>3. HyphenTo(t) = Upto(Bump(n, Len(n)))
      BY <1>6, <3>2 DEF HyphenTo
    <3> QED BY <1>3, <2>1, <3>1, <3>3, Zenon
  <2>6. CASE t.op \in {"bare", "=", ">=", ">", "<=", "<"}
    <3>1. Desugar(t) = XRange(t)
      BY <2>6 DEF Desugar
    <3>2. Len(n) < 3
      BY <1>1
    <3>3. CASE t.op = ">"
      <4>1. XRange(t) = {Mk(">=", Bump(n, Len(n)), <<>>)}
        BY <1>6, <3>2, <3>3 DEF XRange
      <4> QED BY <2>1, <2>2, <3>1, <4>1, Zenon
    <3>4. CASE t.op = ">="
      <4>1. XRange(t) = {Mk(">=", n, <<>>)}
        BY <1>6, <3>2, <3>4 DEF XRange
      <4> QED BY <1>1, <2>2, <3>1, <4>1, Zenon
    <3>5. CASE t.op = "<"
      <4>1. XRange(t) = Upto(n)
        BY <1>6, <3>2, <3>5 DEF XRange
      <4> QED BY <1>1, <1>3, <3>1, <4>1, Zenon
    <3>6. CASE t.op = "<="
      <4>1. XRange(t) = Upto(Bump(n, Len(n)))
        BY <1>6, <3>2, <3>6 DEF XRange
      <4> QED BY <1>3, <2>1, <3>1, <4>1, Zenon
    <3>7. CASE t.op \in {"bare", "="}
      <4>1. XRange(t) = From(t) \cup Upto(Bump(n, Len(n)))
        BY <1>6, <3>2, <3>7 DEF XRange
      <4> QED BY <1>2, <1>3, <2>1, <3>1, <4>1, Zenon
    <3> QED BY <2>6, <3>3, <3>4, <3>5, <3>6, <3>7
  <2> QED BY <1>1, <2>3, <2>4, <2>5, <2>6
<1> QED BY <1>5, <1>6

LEMMA NpmPre ==
  ASSUME NEW t \in SemTerms, ParsesNpm(t), NEW v \in SemVersions, All(Desugar(t), v),
         v.pre # <<>>
  PROVE (\E c \in Desugar(t) : c.v.pre # <<>> /\ c.v.nums = v.nums) <=>
          NamesPre(t) /\ Low("npm", t).nums = v.nums
<1>1. Low("npm", t).nums = Pad(t.nums)
  BY LowIs
<1>2. ASSUME NEW c \in Desugar(t), AnEnd(c) PROVE c.v.nums # v.nums
  <2>1. PICK m \in Seq(Nat) : c \in Upto(m)
    BY <1>2 DEF AnEnd
  <2>2. c = Mk("<", m, <<Number(0)>>)
    BY <2>1 DEF Upto
  <2>3. Test(c, v)
    BY DEF All
  <2>4. Under(v.nums, Pad(m))
    BY <2>2, <2>3, UptoIs
  <2>5. c.v.nums = Pad(m)
    BY <2>2 DEF Mk
  <2>6. v.nums \in Triples
    BY SemOf
  <2>7. ~Under(v.nums, v.nums)
    BY <2>6, Trichotomy
  <2> QED BY <2>4, <2>5, <2>7, Zenon
<1>3. CASE Len(t.nums) = 3
  <2>1. /\ \A c \in Desugar(t) : c.v.pre = <<>> \/ AnEnd(c) \/ OwnPre(t, c)
        /\ \E c \in Desugar(t) : OwnPre(t, c)
    BY <1>3, KindsWhole
  <2> QED BY <1>1, <1>2, <1>3, <2>1, Zenon DEF OwnPre, NamesPre
<1>4. CASE Len(t.nums) # 3
  <2>1. \A c \in Desugar(t) : c.v.pre = <<>> \/ AnEnd(c)
    BY <1>4, KindsPartial
  <2> QED BY <1>2, <1>4, <2>1, Zenon DEF NamesPre
<1> QED BY <1>3, <1>4

LEMMA NpmIs ==
  ASSUME NEW C, UNION C \subseteq SemTerms, \A t \in UNION C : ParsesNpm(t), NEW v \in SemVersions
  PROVE SatisfiesNpm(v, C) <=>
          \E alt \in C :
            /\ \A t \in alt : Means("npm", t, v)
            /\ v.pre = <<>> \/ \E t \in alt : NamesPre(t) /\ Low("npm", t).nums = v.nums
<1>1. ASSUME NEW alt \in C
      PROVE TestSet(ComparatorSet(alt), v) <=>
              /\ \A t \in alt : Means("npm", t, v)
              /\ v.pre = <<>> \/ \E t \in alt : NamesPre(t) /\ Low("npm", t).nums = v.nums
  <2>1. \A t \in alt : t \in SemTerms /\ ParsesNpm(t)
    BY Zenon
  <2>2. \A t \in alt : All(Desugar(t), v) <=> Means("npm", t, v)
    BY <2>1, NpmMeans
  <2>3. (\A c \in ComparatorSet(alt) : Test(c, v)) <=> \A t \in alt : All(Desugar(t), v)
    BY Zenon DEF ComparatorSet, All
  <2>4. ASSUME \A t \in alt : All(Desugar(t), v), v.pre # <<>>
        PROVE (\E c \in ComparatorSet(alt) : c.v.pre # <<>> /\ c.v.nums = v.nums) <=>
                \E t \in alt : NamesPre(t) /\ Low("npm", t).nums = v.nums
    <3>1. \A t \in alt : (\E c \in Desugar(t) : c.v.pre # <<>> /\ c.v.nums = v.nums) <=>
                           NamesPre(t) /\ Low("npm", t).nums = v.nums
      BY <2>1, <2>4, NpmPre
    <3>2. (\E c \in ComparatorSet(alt) : c.v.pre # <<>> /\ c.v.nums = v.nums) <=>
            \E t \in alt : \E c \in Desugar(t) : c.v.pre # <<>> /\ c.v.nums = v.nums
      BY Zenon DEF ComparatorSet
    <3> QED BY <3>1, <3>2, Zenon
  <2> QED BY <2>2, <2>3, <2>4, Zenon DEF TestSet
<1>2. SatisfiesNpm(v, C) <=> \E alt \in C : TestSet(ComparatorSet(alt), v)
  BY Zenon DEF SatisfiesNpm, ParseRange
<1> QED BY <1>1, <1>2, Zenon

(* Cargo and Terraform hold a release to the same bounds.                  *)
LEMMA BoundedIs ==
  ASSUME NEW t \in SemTerms, NEW scheme, scheme # "npm", NEW k \in 1..Len(t.nums),
         NEW upper, Pad(upper) = Pad(Bump(t.nums, k)), NEW v \in SemVersions, v.pre = <<>>
  PROVE All(Bounded(t, upper), v) <=> ~After(Low(scheme, t), v) /\ Shares(v.nums, t.nums, k)
<1> DEFINE low == Low(scheme, t)
<1>1. t.nums \in Seq(Nat) /\ t.pre \in Seq(Identifiers)
  BY TermIs
<1>2. low = [nums |-> Pad(t.nums), pre |-> t.pre]
  <2>1. ~Partial(scheme, t)
    BY DEF Partial
  <2> QED BY <2>1, LowIs
<1> HIDE DEF low
<1>3. Test(Mk(">=", t.nums, t.pre), v) <=> ~After(low, v)
  <2>1. Test(Mk(">=", t.nums, t.pre), v) <=> ~After([nums |-> Pad(t.nums), pre |-> t.pre], v)
    BY <1>1, TestIs
  <2> QED BY <1>2, <2>1, Zenon
<1>4. ~After(low, v) =>
        (Test(Mk("<", Bump(t.nums, k), <<>>), v) <=> Shares(v.nums, t.nums, k))
  BY SharesBelow DEF low
<1>5. Mk("<", upper, <<>>) = Mk("<", Bump(t.nums, k), <<>>)
  BY Zenon DEF Mk
<1>6. All(Bounded(t, upper), v) <=>
        Test(Mk(">=", t.nums, t.pre), v) /\ Test(Mk("<", upper, <<>>), v)
  BY DEF All, Bounded
<1> QED BY <1>3, <1>4, <1>5, <1>6, Zenon DEF low

LEMMA SingleIs ==
  ASSUME NEW t \in SemTerms, NEW scheme, scheme # "npm", t.nums # <<>>,
         \/ t.op \in {"=", ">=", ">", "<=", "<", "!="}
         \/ t.op = "bare" /\ scheme = "terraform",
         t.op = "=" => IsPin(scheme, t),
         NEW v \in SemVersions
  PROVE Test(Mk(t.op, t.nums, t.pre), v) <=> Means(scheme, t, v)
<1> DEFINE low == Low(scheme, t)
           n == t.nums
           c(op) == Mk(op, n, t.pre)
<1>1. n \in Seq(Nat) /\ t.pre \in Seq(Identifiers)
  BY TermIs
<1>2. ~Partial(scheme, t) /\ ~Family(scheme, t, v)
  BY DEF Partial, Family
<1>3. low = [nums |-> Pad(n), pre |-> t.pre]
  BY <1>2, LowIs
<1>4. /\ (Test(c(">"), v) <=> After(v, low)) /\ (Test(c("<"), v) <=> After(low, v))
      /\ (Test(c(">="), v) <=> ~After(low, v)) /\ (Test(c("<="), v) <=> ~After(v, low))
      /\ (Test(c("="), v) <=> v = low) /\ (Test(c("bare"), v) <=> v = low)
      /\ (Test(c("!="), v) <=> v # low)
  <2>1. /\ (Test(Mk(">", n, t.pre), v) <=> After(v, [nums |-> Pad(n), pre |-> t.pre]))
        /\ (Test(Mk("<", n, t.pre), v) <=> After([nums |-> Pad(n), pre |-> t.pre], v))
        /\ (Test(Mk(">=", n, t.pre), v) <=> ~After([nums |-> Pad(n), pre |-> t.pre], v))
        /\ (Test(Mk("<=", n, t.pre), v) <=> ~After(v, [nums |-> Pad(n), pre |-> t.pre]))
        /\ (Test(Mk("=", n, t.pre), v) <=> v = [nums |-> Pad(n), pre |-> t.pre])
        /\ (Test(Mk("bare", n, t.pre), v) <=> v = [nums |-> Pad(n), pre |-> t.pre])
        /\ (Test(Mk("!=", n, t.pre), v) <=> v # [nums |-> Pad(n), pre |-> t.pre])
    BY <1>1, TestIs
  <2> QED BY <1>3, <2>1, Zenon
<1> HIDE DEF low, c
<1>5. CASE t.op \in {"bare", "="}
  <2>1. IsPin(scheme, t)
    BY <1>5 DEF IsPin
  <2>2. Means(scheme, t, v) <=> v = low
    BY <2>1, MeansIs DEF low
  <2> QED BY <1>4, <1>5, <2>2 DEF c
<1>6. CASE t.op \in {">=", ">", "<=", "<", "!="}
  <2>1. ~IsPin(scheme, t)
    BY <1>6 DEF IsPin
  <2>2. CASE t.op = ">="
    <3>1. Means(scheme, t, v) <=> ~After(low, v)
      BY <2>1, <2>2, MeansIs DEF low
    <3> QED BY <1>4, <2>2, <3>1 DEF c
  <2>3. CASE t.op = ">"
    <3>1. Means(scheme, t, v) <=> Beyond(scheme, t, v)
      BY <2>1, <2>3, MeansIs
    <3>2. Beyond(scheme, t, v) <=> After(v, low)
      BY <1>2 DEF Beyond, low
    <3> QED BY <1>4, <2>3, <3>1, <3>2 DEF c
  <2>4. CASE t.op = "<="
    <3>1. Means(scheme, t, v) <=> ~After(v, low) \/ Family(scheme, t, v)
      BY <2>1, <2>4, MeansIs DEF low
    <3> QED BY <1>2, <1>4, <2>4, <3>1 DEF c
  <2>5. CASE t.op = "<"
    <3>1. Means(scheme, t, v) <=> After(low, v) /\ ~Family(scheme, t, v)
      BY <2>1, <2>5, MeansIs DEF low
    <3> QED BY <1>2, <1>4, <2>5, <3>1 DEF c
  <2>6. CASE t.op = "!="
    <3>1. Means(scheme, t, v) <=> v # low
      BY <2>1, <2>6, MeansIs DEF low
    <3> QED BY <1>4, <2>6, <3>1 DEF c
  <2> QED BY <1>6, <2>2, <2>3, <2>4, <2>5, <2>6
<1> QED BY <1>5, <1>6

LEMMA ShortLen ==
  ASSUME NEW t \in SemTerms, t.nums # <<>>
  PROVE /\ (Len(t.nums) = 1 \/ Len(t.nums) = 2 \/ Len(t.nums) = 3)
        /\ Least(2, Len(t.nums)) = (IF Len(t.nums) = 1 THEN 1 ELSE 2)
        /\ (IF Len(t.nums) = 1 THEN 1 ELSE 2) \in 1..Len(t.nums)
        /\ Truncated(t.nums) = t.nums
<1>1. t.nums \in Seq(Nat) /\ (Len(t.nums) = 1 \/ Len(t.nums) = 2 \/ Len(t.nums) = 3)
  BY TermIs
<1>2. CASE Len(t.nums) = 1
  <2>1. SubSeq(t.nums, 1, 1) = t.nums
    BY <1>1, <1>2
  <2> QED BY <1>2, <2>1 DEF Least, Truncated
<1>3. CASE Len(t.nums) = 2
  <2>1. SubSeq(t.nums, 1, 2) = t.nums
    BY <1>1, <1>3
  <2> QED BY <1>3, <2>1 DEF Least, Truncated
<1>4. CASE Len(t.nums) = 3
  <2>1. SubSeq(t.nums, 1, 3) = t.nums
    BY <1>1, <1>4
  <2> QED BY <1>4, <2>1 DEF Least, Truncated
<1> QED BY <1>1, <1>2, <1>3, <1>4

(* Where no x is left in the text, the bounds are those of the operator.   *)
LEMMA CargoPlain ==
  ASSUME NEW t \in SemTerms, t.op = "bare" => t.x = Absent
  PROVE CargoBounds(t) =
          (CASE t.nums = <<>> -> {}
             [] t.nums # <<>> /\ t.op = "~" -> Bounded(t, TildeUpper(t.nums))
             [] t.nums # <<>> /\ t.op = "bare" /\ t.stars -> Bounded(t, TildeUpper(t.nums))
             [] t.nums # <<>> /\ (t.op = "^" \/ (t.op = "bare" /\ ~t.stars)) ->
                  Bounded(t, CaretUpper(t.nums))
             [] OTHER -> {Mk(t.op, t.nums, t.pre)})
<1>1. t.stars \in BOOLEAN
  BY TermIs
<1>2. CASE t.op = "bare"
  <2>1. t.x = Absent
    BY <1>2
  <2>2. LeftOf(t) = t
    BY <2>1, Zenon DEF LeftOf
  <2>3. Wild(t) <=> t.stars
    BY <1>1, <2>1 DEF Wild
  <2> QED BY <1>2, <2>2, <2>3 DEF CargoBounds
<1>3. CASE t.op # "bare"
  BY <1>3 DEF CargoBounds
<1> QED BY <1>2, <1>3

LEMMA CargoMeans ==
  ASSUME NEW t \in SemTerms, ParsesCargo(t), t.op = "bare" /\ t.stars => Len(t.nums) < 3,
         t.op = "bare" => t.x = Absent,
         NEW v \in SemVersions, v.pre = <<>>
  PROVE All(CargoBounds(t), v) <=> Means("cargo", t, v)
<1> DEFINE n == t.nums
           k == Fixed("cargo", t)
<1>1. /\ t.op \in {"bare", "=", ">=", ">", "<=", "<", "^", "~"}
      /\ (t.stars \/ n = <<>> => t.op = "bare") /\ t.stars \in BOOLEAN /\ n \in Seq(Nat)
  BY TermIs DEF Ops, ParsesCargo
<1>2. CASE n = <<>>
  <2>1. CargoBounds(t) = {}
    BY <1>2 DEF CargoBounds
  <2>2. Means("cargo", t, v)
    BY <1>2, MeansIs
  <2> QED BY <2>1, <2>2, Zenon DEF All
<1>3. CASE n # <<>> /\ t.op \in {"=", ">=", ">", "<=", "<"}
  <2>1. CargoBounds(t) = {Mk(t.op, t.nums, t.pre)}
    BY <1>3 DEF CargoBounds
  <2>2. t.op = "=" => IsPin("cargo", t)
    BY DEF IsPin
  <2>3. Test(Mk(t.op, t.nums, t.pre), v) <=> Means("cargo", t, v)
    BY <1>3, <2>2, SingleIs
  <2> QED BY <2>1, <2>3, Zenon DEF All
<1>4. CASE n # <<>> /\ t.op \in {"bare", "^", "~"}
  <2>1. Means("cargo", t, v) <=> ~After(Low("cargo", t), v) /\ Shares(v.nums, n, k)
    <3>1. ~IsPin("cargo", t)
      BY <1>4 DEF IsPin
    <3> QED BY <1>4, <3>1, MeansIs
  <2>2. /\ (Len(n) = 1 \/ Len(n) = 2 \/ Len(n) = 3)
        /\ Least(2, Len(n)) = (IF Len(n) = 1 THEN 1 ELSE 2)
        /\ (IF Len(n) = 1 THEN 1 ELSE 2) \in 1..Len(n)
        /\ Truncated(n) = n
    BY <1>4, ShortLen
  <2>3. TildeUpper(n) = Bump(n, IF Len(n) = 1 THEN 1 ELSE 2)
    BY Zenon DEF TildeUpper
  <2>4. \E upper : /\ CargoBounds(t) = Bounded(t, upper) /\ k \in 1..Len(n)
                   /\ Pad(upper) = Pad(Bump(n, k))
    <3>1. CASE t.op = "~"
      <4>1. CargoBounds(t) = Bounded(t, TildeUpper(n))
        BY <1>4, <3>1, CargoPlain
      <4>2. k = Least(2, Len(n))
        BY <3>1 DEF Fixed
      <4> QED BY <2>2, <2>3, <4>1, <4>2, Zenon
    <3>2. CASE t.op = "bare" /\ t.stars = TRUE
      <4>1. CargoBounds(t) = Bounded(t, TildeUpper(n))
        BY <1>4, <3>2, CargoPlain
      <4>2. k = Len(n)
        BY <3>2 DEF Fixed
      <4>3. Len(n) = 1 \/ Len(n) = 2
        <5>1. Len(t.nums) < 3
          BY <3>2
        <5>2. Len(t.nums) # 3
          BY <5>1, TermIs, Zenon
        <5> QED BY <2>2, <5>2, Zenon
      <4>4. k = IF Len(n) = 1 THEN 1 ELSE 2
        BY <4>2, <4>3, Zenon
      <4> QED BY <2>2, <2>3, <4>1, <4>4, Zenon
    <3>3. CASE t.op = "^" \/ (t.op = "bare" /\ t.stars = FALSE)
      <4>1. t.stars = FALSE
        BY <1>1, <3>3
      <4>2. CargoBounds(t) = Bounded(t, CaretUpper(n))
        BY <1>4, <3>3, <4>1, CargoPlain
      <4>3. k = Breaking(n)
        BY <3>3, <4>1 DEF Fixed
      <4>4. Pad(CaretUpper(Truncated(n))) = Pad(Bump(n, Breaking(n)))
        BY <1>1, <1>4, CaretIs
      <4>5. Breaking(n) \in 1..Len(n)
        BY <1>1, <1>4, BreakingIs
      <4> QED BY <2>2, <4>2, <4>3, <4>4, <4>5, Zenon
    <3> QED BY <1>1, <1>4, <3>1, <3>2, <3>3
  <2> HIDE DEF k
  <2>5. PICK upper : /\ CargoBounds(t) = Bounded(t, upper) /\ k \in 1..Len(n)
                     /\ Pad(upper) = Pad(Bump(n, k))
    BY <2>4
  <2>6. All(Bounded(t, upper), v) <=> ~After(Low("cargo", t), v) /\ Shares(v.nums, t.nums, k)
    <3>1. "cargo" # "npm"
      OBVIOUS
    <3>2. k \in 1..Len(t.nums) /\ Pad(upper) = Pad(Bump(t.nums, k))
      BY <2>5
    <3> QED BY <3>1, <3>2, BoundedIs
  <2> QED BY <2>1, <2>5, <2>6, Zenon
<1> QED BY <1>1, <1>2, <1>3, <1>4

LEMMA CargoPre ==
  ASSUME NEW t \in SemTerms, t.op = "bare" => t.x = Absent,
         NEW b \in CargoBounds(t), b.v.pre # <<>>
  PROVE t.pre # <<>>
<1>1. \A n, p, op : Mk(op, n, p).v.pre = p
  BY DEF Mk
<1>2. t.nums # <<>>
  BY Zenon DEF CargoBounds
<1>3. CASE t.op = "~" \/ t.op \in {"bare", "^"}
  <2>1. \E upper : CargoBounds(t) = Bounded(t, upper)
    <3>1. CASE t.op = "~"
      BY <1>2, <3>1 DEF CargoBounds
    <3>2. CASE t.op \in {"bare", "^"}
      BY <1>2, <3>2, CargoPlain
    <3> QED BY <1>3, <3>1, <3>2
  <2>2. PICK upper : CargoBounds(t) = Bounded(t, upper)
    BY <2>1
  <2>3. b = Mk(">=", t.nums, t.pre) \/ b = Mk("<", upper, <<>>)
    BY <2>2 DEF Bounded
  <2>4. Mk(">=", t.nums, t.pre).v.pre = t.pre /\ Mk("<", upper, <<>>).v.pre = <<>>
    BY <1>1
  <2> QED BY <2>3, <2>4
<1>4. CASE ~(t.op = "~" \/ t.op \in {"bare", "^"})
  <2>1. CargoBounds(t) = {Mk(t.op, t.nums, t.pre)}
    BY <1>2, <1>4 DEF CargoBounds
  <2>2. b = Mk(t.op, t.nums, t.pre)
    BY <2>1
  <2>3. Mk(t.op, t.nums, t.pre).v.pre = t.pre
    BY <1>1
  <2> QED BY <2>2, <2>3
<1> QED BY <1>3, <1>4

LEMMA CargoIs ==
  ASSUME NEW S, S \subseteq SemTerms, \A t \in S : ParsesCargo(t),
         \A t \in S : t.op = "bare" /\ t.stars => Len(t.nums) < 3,
         \A t \in S : t.op = "bare" => t.x = Absent, NEW v \in SemVersions
  PROVE /\ (v.pre = <<>> => (SatisfiesCargo(v, S) <=> \A t \in S : Means("cargo", t, v)))
        /\ (v.pre # <<>> /\ SatisfiesCargo(v, S) => \E t \in S : t.pre # <<>>)
<1> DEFINE B == UNION {CargoBounds(t) : t \in S}
<1>1. SatisfiesCargo(v, S) <=>
        (v.pre # <<>> => \E b \in B : b.v.pre # <<>>) /\ \A b \in B : Test(b, v)
  BY DEF SatisfiesCargo
<1>2. (\A b \in B : Test(b, v)) <=> \A t \in S : All(CargoBounds(t), v)
  BY Zenon DEF All
<1>3. ASSUME v.pre = <<>> PROVE \A t \in S : All(CargoBounds(t), v) <=> Means("cargo", t, v)
  BY <1>3, CargoMeans
<1>4. (\E b \in B : b.v.pre # <<>>) => \E t \in S : t.pre # <<>>
  BY CargoPre
<1> HIDE DEF B
<1> QED BY <1>1, <1>2, <1>3, <1>4, Zenon

LEMMA TerraformMeans ==
  ASSUME NEW t \in SemTerms, ParsesTerraform(t), NEW v \in SemVersions, v.pre = <<>>
  PROVE MatchesTerraform(t, v) <=> Means("terraform", t, v)
<1> DEFINE n == t.nums
           k == Fixed("terraform", t)
<1>2. /\ t.op \in {"bare", "=", "!=", ">=", ">", "<=", "<", "~>"}
      /\ n # <<>> /\ n \in Seq(Nat) /\ (Len(n) = 1 \/ Len(n) = 2 \/ Len(n) = 3)
  BY TermIs DEF Ops, ParsesTerraform
<1>3. CASE t.op = "~>"
  <2>1. MatchesTerraform(t, v) <=> All(Bounded(t, PessimisticUpper(n)), v)
    BY <1>3, Zenon DEF MatchesTerraform, All
  <2>2. k \in 1..Len(n) /\ PessimisticUpper(n) = Bump(n, k)
    <3>1. k = IF Len(n) = 1 THEN 1 ELSE Len(n) - 1
      BY <1>3 DEF Fixed
    <3>2. PessimisticUpper(n) = Bump(n, IF Len(n) <= 2 THEN 1 ELSE 2)
      BY Zenon DEF PessimisticUpper
    <3>3. CASE Len(n) = 1
      BY <3>1, <3>2, <3>3
    <3>4. CASE Len(n) = 2
      BY <3>1, <3>2, <3>4
    <3>5. CASE Len(n) = 3
      BY <3>1, <3>2, <3>5
    <3> QED BY <1>2, <3>3, <3>4, <3>5
  <2>3. Means("terraform", t, v) <=>
          ~After(Low("terraform", t), v) /\ Shares(v.nums, n, k)
    <3>1. ~IsPin("terraform", t)
      BY <1>3 DEF IsPin
    <3> QED BY <1>2, <1>3, <3>1, MeansIs
  <2> HIDE DEF k
  <2>4. Pad(PessimisticUpper(n)) = Pad(Bump(n, k))
    BY <2>2, Zenon
  <2>5. All(Bounded(t, PessimisticUpper(n)), v) <=>
          ~After(Low("terraform", t), v) /\ Shares(v.nums, t.nums, k)
    <3>1. "terraform" # "npm"
      OBVIOUS
    <3>2. k \in 1..Len(t.nums)
      BY <2>2
    <3> DEFINE u == PessimisticUpper(n)
    <3>3. Pad(u) = Pad(Bump(t.nums, k))
      BY <2>4
    <3> HIDE DEF u
    <3>4. All(Bounded(t, u), v) <=> ~After(Low("terraform", t), v) /\ Shares(v.nums, t.nums, k)
      BY <3>1, <3>2, <3>3, BoundedIs
    <3> QED BY <3>4 DEF u
  <2> QED BY <2>1, <2>3, <2>5, Zenon
<1>4. CASE t.op # "~>"
  <2>1. t.op = "=" => IsPin("terraform", t)
    BY DEF IsPin
  <2>2. \/ t.op \in {"=", ">=", ">", "<=", "<", "!="}
        \/ t.op = "bare" /\ "terraform" = "terraform"
    BY <1>2, <1>4
  <2>3. Test(Mk(t.op, t.nums, t.pre), v) <=> Means("terraform", t, v)
    BY <1>2, <2>1, <2>2, SingleIs
  <2> QED BY <1>4, <2>3, Zenon DEF MatchesTerraform
<1> QED BY <1>3, <1>4

LEMMA TerraformIs ==
  ASSUME NEW S, S \subseteq SemTerms, \A t \in S : ParsesTerraform(t),
         NEW v \in SemVersions, v.pre = <<>>
  PROVE SatisfiesTerraform(v, S) <=> \A t \in S : Means("terraform", t, v)
<1>1. \A t \in S : MatchesTerraform(t, v) <=> Means("terraform", t, v)
  BY TerraformMeans
<1> QED BY <1>1, Zenon DEF SatisfiesTerraform

LEMMA GoIs ==
  ASSUME NEW t \in SemTerms, ParsesGo(t), NEW v \in SemVersions
  PROVE /\ Bound(t) \in SemVersions /\ Low("go", t) = Bound(t)
        /\ (SatisfiesGo(v, t) <=> ~After(Low("go", t), v))
<1>1. t.nums \in Seq(Nat) /\ Len(t.nums) = 3 /\ t.pre \in Seq(Identifiers)
  BY TermIs DEF ParsesGo
<1>2. Pad(t.nums) = t.nums
  BY <1>1 DEF Pad
<1>3. Low("go", t) = Bound(t)
  BY <1>2 DEF Low, Partial, Bound
<1>4. Low("go", t) \in SemVersions
  BY LowIs
<1> DEFINE b == Bound(t)
<1>5. b \in SemVersions
  BY <1>3, <1>4
<1>6. SatisfiesGo(v, t) <=> Compare(v, b) >= 0
  BY DEF SatisfiesGo
<1> HIDE DEF b
<1>7. After(b, v) <=> Compare(b, v) > 0
  BY DEF After
<1>8. Compare(v, b) \in Signs /\ Compare(b, v) = 0 - Compare(v, b)
  BY <1>5, SemOrder
<1>9. SatisfiesGo(v, t) <=> ~After(b, v)
  BY <1>6, <1>7, <1>8 DEF Signs
<1> QED BY <1>3, <1>5, <1>9 DEF b

(* Releases compare by the first place where they differ.                  *)
LEMMA ReleaseAt ==
  ASSUME NEW a \in Seq(Nat), NEW b \in Seq(Nat), NEW k \in Nat \ {0}, At(a, k) # At(b, k),
         \A i \in Nat \ {0} : i < k => At(a, i) = At(b, i)
  PROVE CompareReleases(a, b) = Sign(At(a, k), At(b, k))
<1> DEFINE n == Len(a) + Len(b) + k
           s == [i \in 1..n |-> Sign(At(a, i), At(b, i))]
<1>1. n \in Nat /\ Len(a) <= n /\ Len(b) <= n /\ k \in 1..n
  OBVIOUS
<1>2. \A i \in 1..n : i \in Nat \ {0}
  OBVIOUS
<1> HIDE DEF n
<1>3. CompareReleases(a, b) = FirstNonZero(s)
  BY <1>1, ReleasesWide
<1>4. \A i \in 1..n : At(a, i) \in Int /\ At(b, i) \in Int
  BY <1>2, AtIs
<1>5. DOMAIN s = 1..n /\ s[k] # 0 /\ \A i \in 1..n : i < k => s[i] = 0
  BY <1>1, <1>2, <1>4 DEF Sign
<1>6. s[k] = Sign(At(a, k), At(b, k))
  BY <1>1
<1> HIDE DEF s
<1>7. FirstNonZero(s) = s[k]
  BY <1>1, <1>5, FirstAt
<1> QED BY <1>3, <1>6, <1>7

LEMMA ReleaseFirst ==
  ASSUME NEW a \in Seq(Nat), NEW b \in Seq(Nat)
  PROVE \/ CompareReleases(a, b) = 0 /\ \A i \in Nat \ {0} : At(a, i) = At(b, i)
        \/ \E k \in Nat \ {0} : /\ At(a, k) # At(b, k)
                                /\ \A i \in Nat \ {0} : i < k => At(a, i) = At(b, i)
                                /\ CompareReleases(a, b) = Sign(At(a, k), At(b, k))
<1> DEFINE D == {i \in Nat \ {0} : At(a, i) # At(b, i)}
<1>1. CASE D = {}
  <2>1. \A i \in Nat \ {0} : At(a, i) = At(b, i)
    BY <1>1
  <2> QED BY <2>1, ReleaseOrder
<1>2. CASE D # {}
  <2>1. D \subseteq Nat
    OBVIOUS
  <2> HIDE DEF D
  <2>2. PICK k \in D : \A m \in D : k <= m
    BY <1>2, <2>1, NatMin
  <2>3. k \in Nat \ {0} /\ At(a, k) # At(b, k)
    BY DEF D
  <2>4. \A i \in Nat \ {0} : i < k => At(a, i) = At(b, i)
    BY <2>2, <2>3 DEF D
  <2>5. CompareReleases(a, b) = Sign(At(a, k), At(b, k))
    BY <2>3, <2>4, ReleaseAt
  <2> QED BY <2>3, <2>4, <2>5
<1> QED BY <1>1, <1>2

(* What is not before a release and before its bump at k begins with its   *)
(* first k components.                                                     *)
LEMMA ReleaseBump ==
  ASSUME NEW a \in Seq(Nat), NEW n \in Seq(Nat), NEW k \in 1..Len(n), k <= 3,
         CompareReleases(a, n) >= 0, NEW p, p = Pad(Bump(n, k))
  PROVE p \in Seq(Nat) /\ (CompareReleases(a, p) < 0 <=> Shares(a, n, k))
<1>1. k \in Nat \ {0} /\ k \in 1..3 /\ \A i \in 1..k : i \in Nat \ {0} /\ n[i] \in Nat
  OBVIOUS
<1>2. p \in Seq(Nat) /\ Len(p) = 3
  <2>1. /\ Bump(n, k) \in Seq(Nat) /\ Len(Bump(n, k)) = k
        /\ \A j \in 1..k : Bump(n, k)[j] = IF j = k THEN n[j] + 1 ELSE n[j]
    BY BumpOf
  <2>2. p \in Triples
    BY <2>1, PadIs
  <2> QED BY <2>2, TripleIs
<1>3. \A i \in 1..3 : p[i] = IF i < k THEN n[i] ELSE IF i = k THEN n[k] + 1 ELSE 0
  BY PadBump
<1>4. /\ \A i \in Nat \ {0} : i < k => At(p, i) = n[i]
      /\ At(p, k) = n[k] + 1
      /\ \A i \in Nat \ {0} : i > k => At(p, i) = 0
  BY <1>1, <1>2, <1>3 DEF At
<1>5. \A i \in 1..k : At(n, i) = n[i]
  BY DEF At
<1>6. \A i \in Nat \ {0} : At(a, i) \in Nat
  BY AtIs
<1>7. ASSUME Shares(a, n, k) PROVE CompareReleases(a, p) < 0
  <2>1. \A i \in 1..k : At(a, i) = n[i]
    BY <1>7 DEF Shares
  <2>2. At(a, k) = n[k] /\ At(p, k) = n[k] + 1 /\ n[k] \in Nat
    BY <1>1, <1>4, <2>1
  <2>3. \A i \in Nat \ {0} : i < k => At(a, i) = At(p, i)
    BY <1>1, <1>4, <2>1
  <2>4. At(a, k) # At(p, k)
    BY <2>2
  <2>5. CompareReleases(a, p) = Sign(At(a, k), At(p, k))
    BY <1>1, <1>2, <2>3, <2>4, ReleaseAt
  <2> QED BY <2>2, <2>5 DEF Sign
<1>8. ASSUME ~Shares(a, n, k) PROVE CompareReleases(a, p) >= 0
  <2> DEFINE D == {i \in 1..k : At(a, i) # n[i]}
  <2>1. D \subseteq Nat /\ D # {}
    BY <1>8 DEF Shares
  <2> HIDE DEF D
  <2>2. PICK j \in D : \A m \in D : j <= m
    BY <2>1, NatMin
  <2>3. j \in 1..k /\ At(a, j) # n[j]
    BY DEF D
  <2>4. \A i \in Nat \ {0} : i < j => i \in 1..k /\ At(a, i) = n[i]
    BY <1>1, <2>2, <2>3 DEF D
  <2>5. At(a, j) > n[j]
    <3>1. At(a, j) # At(n, j) /\ \A i \in Nat \ {0} : i < j => At(a, i) = At(n, i)
      BY <1>5, <2>3, <2>4
    <3>2. CompareReleases(a, n) = Sign(At(a, j), At(n, j))
      BY <1>1, <2>3, <3>1, ReleaseAt
    <3>3. At(n, j) = n[j] /\ n[j] \in Nat /\ At(a, j) \in Nat
      BY <1>1, <1>5, <1>6, <2>3
    <3>4. Sign(At(a, j), n[j]) >= 0
      BY <3>2, <3>3
    <3> DEFINE x == At(a, j)
               y == n[j]
    <3>5. x \in Nat /\ y \in Nat /\ Sign(x, y) >= 0 /\ x # y
      BY <2>3, <3>3, <3>4
    <3> HIDE DEF x, y
    <3>6. x > y
      BY <3>5 DEF Sign
    <3> QED BY <3>6 DEF x, y
  <2>6. CASE CompareReleases(a, p) = 0
    BY <2>6
  <2>7. ASSUME NEW d \in Nat \ {0}, At(a, d) # At(p, d),
               \A i \in Nat \ {0} : i < d => At(a, i) = At(p, i),
               CompareReleases(a, p) = Sign(At(a, d), At(p, d))
        PROVE CompareReleases(a, p) >= 0
    <3>1. d >= j
      <4>1. ASSUME d < j PROVE FALSE
        <5>1. At(a, d) = n[d] /\ d < k
          BY <2>3, <2>4, <2>7, <4>1
        <5> QED BY <1>4, <2>7, <5>1
      <4> QED BY <2>3, <4>1
    <3>2. At(a, d) \in Nat /\ At(a, j) \in Nat /\ j \in Nat \ {0}
      BY <1>1, <1>6, <2>3
    <3>3. At(a, d) > At(p, d)
      <4>1. CASE d = j /\ j < k
        <5>1. At(p, d) = n[j]
          BY <1>4, <3>2, <4>1
        <5> QED BY <2>5, <4>1, <5>1
      <4>2. CASE d = j /\ j = k
        <5>1. At(p, d) = n[j] + 1 /\ n[j] \in Nat
          BY <1>1, <1>4, <4>2
        <5> QED BY <2>5, <2>7, <3>2, <4>2, <5>1
      <4>3. CASE d > j /\ j < k
        <5>1. At(a, j) = At(p, j) /\ At(p, j) = n[j]
          BY <1>4, <2>7, <3>2, <4>3
        <5> QED BY <2>3, <5>1
      <4>4. CASE d > j /\ j = k
        <5>1. At(p, d) = 0
          BY <1>4, <4>4
        <5> QED BY <2>7, <3>2, <5>1
      <4> QED BY <2>3, <3>1, <4>1, <4>2, <4>3, <4>4
    <3>4. At(p, d) \in Nat
      BY <1>2, AtIs
    <3> QED BY <2>7, <3>2, <3>3, <3>4 DEF Sign
  <2> QED BY <1>2, <2>6, <2>7, ReleaseFirst
<1>9. CompareReleases(a, p) \in Signs
  BY <1>2, ReleaseOrder
<1> QED BY <1>2, <1>7, <1>8, <1>9 DEF Signs

LEMMA NotAbove == \A l \in Nat : l >= 1 /\ ~(l > 1) => l = 1
OBVIOUS

(* A specifier admits what it means, of versions of one suffix.            *)
LEMMA SpecMeans ==
  ASSUME NEW s, s.op \in Ops440, s.wildcard \in BOOLEAN, NEW v \in PythonVersions, OneSuffix(v),
         s.op = "===" \/ (s.v \in PythonVersions /\ OneSuffix(s.v))
  PROVE Test440(s, v) <=> Means440(s, v)
<1> DEFINE w == s.v
           n == w.release
           cmp == ComparePEP440(v, w)
           order == Order440(v, w)
           same == SameBase(v, w)
           most == IF Len(n) > 1 THEN Front(n) ELSE n
           Begins(k) == v.epoch = w.epoch /\ Shares(v.release, n, k)
<1>1. CASE s.op = "==="
  <2>1. Test440(s, v) <=> v = w /\ ~s.wildcard
    BY <1>1 DEF Test440
  <2>2. Means440(s, v) <=> v = w /\ ~s.wildcard
    BY <1>1 DEF Means440
  <2> QED BY <2>1, <2>2
<1>2. CASE s.op # "==="
  <2>1. w \in PythonVersions /\ OneSuffix(w)
    BY <1>2
  <2>2. order = cmp
    BY <2>1, PythonOrderIsPep440
  <2>3. n \in Seq(Nat) /\ n # <<>> /\ v.epoch \in Nat /\ w.epoch \in Nat
    BY <2>1, PythonIs
  <2>4. /\ (IsPre(v) <=> Phase(v) < 4) /\ (IsPre(w) <=> Phase(w) < 4)
        /\ (v.post >= 0 <=> Phase(v) = 5) /\ (w.post >= 0 <=> Phase(w) = 5)
        /\ v.post \in Int /\ w.post \in Int
    BY <2>1, PhaseIs, PythonIs
  <2>5. PrefixMatch(v, w.epoch, n) <=> Begins(Len(n))
    <3>1. DOMAIN n = 1..Len(n)
      BY <2>3
    <3> QED BY <3>1, Zenon DEF PrefixMatch, Shares
  <2>6. PrefixMatch(v, w.epoch, most) <=> Begins(Compatible(n))
    <3>1. CASE Len(n) > 1
      <4>1. most = SubSeq(n, 1, Len(n) - 1) /\ Compatible(n) = Len(n) - 1
        BY <3>1 DEF Front, Compatible
      <4>2. /\ Len(n) \in Nat /\ DOMAIN SubSeq(n, 1, Len(n) - 1) = 1..(Len(n) - 1)
            /\ \A i \in 1..(Len(n) - 1) : SubSeq(n, 1, Len(n) - 1)[i] = n[i]
        BY <2>3, <3>1
      <4> HIDE DEF most
      <4>3. /\ DOMAIN most = 1..Compatible(n)
            /\ \A i \in 1..Compatible(n) : most[i] = n[i]
        BY <4>1, <4>2
      <4> QED BY <4>3, Zenon DEF PrefixMatch, Shares
    <3>2. CASE ~(Len(n) > 1)
      <4>1. Len(n) = 1
        <5>1. Len(n) \in Nat /\ Len(n) >= 1
          BY <2>3
        <5> QED BY <3>2, <5>1, NotAbove, Zenon
      <4>2. most = n /\ Compatible(n) = 1 /\ DOMAIN n = 1..1
        BY <2>3, <3>2, <4>1 DEF Compatible
      <4> HIDE DEF most
      <4> QED BY <4>2, Zenon DEF PrefixMatch, Shares
    <3> QED BY <3>1, <3>2
  <2>7. CASE s.op = "=="
    <3>1. Test440(s, v) <=> IF s.wildcard THEN PrefixMatch(v, w.epoch, n) ELSE cmp = 0
      BY <2>7 DEF Test440
    <3>2. CASE s.wildcard = TRUE
      <4>1. Means440(s, v) <=> Begins(Len(n))
        BY <2>7, <3>2 DEF Means440
      <4> QED BY <2>5, <3>1, <3>2, <4>1
    <3>3. CASE s.wildcard = FALSE
      <4>1. Means440(s, v) <=> order = 0
        BY <2>7, <3>3 DEF Means440
      <4> QED BY <2>2, <3>1, <3>3, <4>1
    <3> QED BY <3>2, <3>3
  <2>8. CASE s.op = "!="
    <3>1. Test440(s, v) <=> IF s.wildcard THEN ~PrefixMatch(v, w.epoch, n) ELSE cmp # 0
      BY <2>8 DEF Test440
    <3>2. CASE s.wildcard = TRUE
      <4>1. Means440(s, v) <=> ~Begins(Len(n))
        BY <2>8, <3>2 DEF Means440
      <4> QED BY <2>5, <3>1, <3>2, <4>1
    <3>3. CASE s.wildcard = FALSE
      <4>1. Means440(s, v) <=> order # 0
        BY <2>8, <3>3 DEF Means440
      <4> QED BY <2>2, <3>1, <3>3, <4>1
    <3> QED BY <3>2, <3>3
  <2>9. CASE s.op = "<="
    <3>1. (Test440(s, v) <=> cmp <= 0) /\ (Means440(s, v) <=> order <= 0)
      BY <2>9 DEF Test440, Means440
    <3> QED BY <2>2, <3>1
  <2>10. CASE s.op = ">="
    <3>1. (Test440(s, v) <=> cmp >= 0) /\ (Means440(s, v) <=> order >= 0)
      BY <2>10 DEF Test440, Means440
    <3> QED BY <2>2, <3>1
  <2>11. CASE s.op = "<"
    <3>1. Test440(s, v) <=> cmp < 0 /\ ~(~IsPre(w) /\ IsPre(v) /\ same)
      BY <2>11 DEF Test440
    <3>2. Means440(s, v) <=> order < 0 /\ (same /\ Phase(v) < 4 => Phase(w) < 4)
      BY <2>11 DEF Means440
    <3> QED BY <2>2, <2>4, <3>1, <3>2, Zenon
  <2>12. CASE s.op = ">"
    <3>1. Test440(s, v) <=> cmp > 0 /\ ~(w.post < 0 /\ v.post >= 0 /\ same)
      BY <2>12 DEF Test440
    <3>2. Means440(s, v) <=> order > 0 /\ (same /\ Phase(v) = 5 => Phase(w) = 5)
      BY <2>12 DEF Means440
    <3>3. (w.post < 0) <=> ~(w.post >= 0)
      BY <2>4
    <3> QED BY <2>2, <2>4, <3>1, <3>2, <3>3, Zenon
  <2>13. CASE s.op = "~="
    <3>1. Test440(s, v) <=> cmp >= 0 /\ PrefixMatch(v, w.epoch, most)
      BY <2>13 DEF Test440
    <3>2. Means440(s, v) <=> order >= 0 /\ Begins(Compatible(n))
      BY <2>13 DEF Means440
    <3> QED BY <2>2, <2>6, <3>1, <3>2, Zenon
  <2> QED BY <1>2, <2>7, <2>8, <2>9, <2>10, <2>11, <2>12, <2>13 DEF Ops440
<1> QED BY <1>1, <1>2

(* What Poetry writes is a version of one suffix at most.                  *)
LEMMA LowerIs ==
  ASSUME NEW t \in PoetryTerms, t.nums # <<>>
  PROVE /\ Lower(t) \in WrittenVersions /\ ParsePEP440(Lower(t)) \in PythonVersions
        /\ ParsePEP440(Lower(t)).epoch = 0 /\ ParsePEP440(Lower(t)).release = t.nums
        /\ t.nums \in Seq(Nat) /\ t.op \in Ops440 \cup {"bare", "=", "^", "~"}
        /\ t.stars \in BOOLEAN
<1> DEFINE w == Lower(t)
<1>1. /\ t.nums \in Seq(Nat) /\ t.tag \in Spellings \cup {"none"}
      /\ t.op \in Ops440 \cup {"bare", "=", "^", "~"} /\ t.stars \in BOOLEAN
  BY DEF PoetryTerms
<1>2. w = [epoch |-> 0, release |-> t.nums, tag |-> t.tag, num |-> 0, post |-> Absent,
           dev |-> Absent]
  BY DEF Lower, Written
<1>3. w \in WrittenVersions
  BY <1>1, <1>2 DEF WrittenVersions
<1> HIDE DEF w
<1>4. NormalisePre(t.tag) \in Range(Tags) \cup {"none"}
  <2>1. Range(Tags) = {"a", "b", "rc"}
    <3>1. DOMAIN Tags = 1..3 /\ Tags[1] = "a" /\ Tags[2] = "b" /\ Tags[3] = "rc"
      BY DEF Tags
    <3>2. 1..3 = {1, 2, 3}
      OBVIOUS
    <3> QED BY <3>1, <3>2 DEF Range
  <2>2. t.tag \in {"alpha", "beta", "c", "pre", "preview", "a", "b", "rc", "none"}
    BY <1>1, <2>1 DEF Spellings
  <2>3. CASE t.tag = "alpha"
    BY <2>1, <2>3 DEF NormalisePre
  <2>4. CASE t.tag = "beta"
    BY <2>1, <2>4 DEF NormalisePre
  <2>5. CASE t.tag \in {"c", "pre", "preview"}
    BY <2>1, <2>5 DEF NormalisePre
  <2>6. CASE t.tag \in {"a", "b", "rc", "none"}
    BY <2>1, <2>6 DEF NormalisePre
  <2> QED BY <2>2, <2>3, <2>4, <2>5, <2>6
<1>5. ParsePEP440(w) = [epoch |-> 0, release |-> t.nums, tag |-> NormalisePre(t.tag), num |-> 0,
                        post |-> Absent, dev |-> Absent]
  BY <1>2 DEF ParsePEP440
<1> DEFINE x == NormalisePre(t.tag)
<1> HIDE DEF x
<1>6. x \in Range(Tags) \cup {"none"} /\ x \in Spellings \cup {"none"}
  BY <1>4 DEF x, Spellings
<1>7. [epoch |-> 0, release |-> t.nums, tag |-> x, num |-> 0, post |-> Absent,
       dev |-> Absent] \in PythonVersions
  BY <1>1, <1>6 DEF PythonVersions, WrittenVersions
<1> QED BY <1>1, <1>3, <1>5, <1>7 DEF w, x

(* Below a release, of versions of one suffix: "<" leaves the prereleases  *)
(* of the release out, so that only the components decide.                 *)
LEMMA PlainIs ==
  ASSUME NEW p \in Seq(Nat), p # <<>>
  PROVE /\ Plain(p) \in PythonVersions /\ Plain(p).epoch = 0 /\ Plain(p).release = p
        /\ Rank(Plain(p)) = 0 /\ ~IsPre(Plain(p))
<1> DEFINE w == Plain(p)
<1>1. w = [epoch |-> 0, release |-> p, tag |-> "none", num |-> 0, post |-> Absent,
           dev |-> Absent]
  BY DEF Plain, Written
<1>2. Absent = 0 - 1
  BY DEF Absent
<1>3. w \in PythonVersions
  BY <1>1 DEF PythonVersions, WrittenVersions
<1>4. w.epoch = 0 /\ w.release = p /\ w.tag = "none" /\ w.post = 0 - 1 /\ w.dev = 0 - 1
  BY <1>1, <1>2
<1> HIDE DEF w
<1>5. Rank(w) = 0
  BY <1>4 DEF Rank
<1>6. ~IsPre(w)
  BY <1>4 DEF IsPre
<1> QED BY <1>3, <1>4, <1>5, <1>6 DEF w

LEMMA PythonSplits ==
  ASSUME NEW a \in PythonVersions, NEW b \in PythonVersions
  PROVE ComparePEP440(a, b) =
          IF Sign(a.epoch, b.epoch) # 0 THEN Sign(a.epoch, b.epoch)
          ELSE IF CompareReleases(a.release, b.release) # 0
               THEN CompareReleases(a.release, b.release) ELSE Sign(Rank(a), Rank(b))
BY FirstOf3 DEF ComparePEP440

LEMMA NoRankBelow ==
  ASSUME NEW v \in PythonVersions, OneSuffix(v), ~IsPre(v)
  PROVE Rank(v) >= 0
<1>1. /\ Phase(v) \in 0..5 /\ Suffix(v) \in Int /\ Rank(v) = Start(Phase(v)) + Suffix(v)
      /\ (Phase(v) # 4 => Suffix(v) >= 0) /\ (Phase(v) = 4 => Suffix(v) = 0 - 1)
      /\ (IsPre(v) <=> Phase(v) < 4)
  BY PhaseIs
<1>2. CASE Phase(v) = 4
  BY <1>1, <1>2 DEF Start
<1>3. CASE Phase(v) = 5
  BY <1>1, <1>3, BandIs DEF Start
<1> QED BY <1>1, <1>2, <1>3

LEMMA BelowPlain ==
  ASSUME NEW v \in PythonVersions, OneSuffix(v), NEW p \in Seq(Nat), p # <<>>
  PROVE Test440(Spec440("<", Plain(p), FALSE), v)
          <=> v.epoch = 0 /\ CompareReleases(v.release, p) < 0
<1> DEFINE w == Plain(p)
           s == Spec440("<", w, FALSE)
           cmp == ComparePEP440(v, w)
           r == CompareReleases(v.release, p)
<1>1. w \in PythonVersions /\ w.epoch = 0 /\ w.release = p /\ Rank(w) = 0 /\ ~IsPre(w)
  BY PlainIs
<1>2. s.op = "<" /\ s.v = w
  BY DEF Spec440
<1> HIDE DEF s, w
<1>3. Test440(s, v) <=> cmp < 0 /\ ~(~IsPre(w) /\ IsPre(v) /\ SameBase(v, w))
  BY <1>2 DEF Test440
<1>4. SameBase(v, w) <=> v.epoch = 0 /\ r = 0
  BY <1>1 DEF SameBase
<1>5. v.epoch \in Nat /\ Rank(v) \in Int /\ v.release \in Seq(Nat)
  BY PythonIs, RankIsInt
<1>6. cmp = IF Sign(v.epoch, 0) # 0 THEN Sign(v.epoch, 0) ELSE IF r # 0 THEN r
            ELSE Sign(Rank(v), 0)
  BY <1>1, PythonSplits
<1>7. r \in Int
  BY <1>5, ReleaseOrder DEF Signs
<1> HIDE DEF cmp, r
<1>8. ASSUME v.epoch # 0 PROVE ~Test440(s, v)
  <2>1. Sign(v.epoch, 0) = 1
    BY <1>5, <1>8 DEF Sign
  <2>2. cmp = 1
    BY <1>6, <2>1
  <2> QED BY <1>3, <2>2
<1>9. ASSUME v.epoch = 0 PROVE Test440(s, v) <=> r < 0
  <2>1. cmp = IF r # 0 THEN r ELSE Sign(Rank(v), 0)
    BY <1>6, <1>9 DEF Sign
  <2>2. CASE r = 0
    <3>1. IsPre(v) \/ ~(cmp < 0)
      <4>1. ~IsPre(v) => Rank(v) >= 0
        BY NoRankBelow
      <4> QED BY <1>5, <2>1, <2>2, <4>1 DEF Sign
    <3>2. ~Test440(s, v)
      BY <1>1, <1>3, <1>4, <1>9, <2>2, <3>1
    <3> QED BY <2>2, <3>2
  <2>3. CASE r # 0
    <3>1. Test440(s, v) <=> r < 0
      BY <1>3, <1>4, <2>1, <2>3
    <3> QED BY <3>1
  <2> QED BY <2>2, <2>3
<1>10. Test440(s, v) <=> v.epoch = 0 /\ r < 0
  BY <1>8, <1>9
<1> QED BY <1>10 DEF s, w, r

(* Poetry's spans: from what is written up to a bump.                      *)
LEMMA SpanIs ==
  ASSUME NEW t \in PoetryTerms, t.nums # <<>>, NEW v \in PythonVersions, OneSuffix(v),
         NEW low, low = ParsePEP440(Lower(t)), OneSuffix(low),
         NEW k \in 1..Len(t.nums), k <= 3, NEW upper, Pad(upper) = Pad(Bump(t.nums, k))
  PROVE (\A s \in Span(t, upper) : Test440(s, v))
          <=> v.epoch = 0 /\ Order440(v, low) >= 0 /\ Shares(v.release, t.nums, k)
<1> DEFINE p == Pad(upper)
           from == Spec440(">=", low, FALSE)
           to == Spec440("<", Plain(p), FALSE)
<1>1. low \in PythonVersions /\ low.epoch = 0 /\ low.release = t.nums /\ t.nums \in Seq(Nat)
  BY LowerIs
<1>2. v.epoch \in Nat /\ v.release \in Seq(Nat)
  BY PythonIs
<1>3. p \in Seq(Nat) /\ p # <<>>
  <2>1. /\ Bump(t.nums, k) \in Seq(Nat) /\ Len(Bump(t.nums, k)) = k
        /\ \A j \in 1..k : Bump(t.nums, k)[j] = IF j = k THEN t.nums[j] + 1 ELSE t.nums[j]
    BY <1>1, BumpOf
  <2>2. p \in Triples
    BY <2>1, PadIs
  <2>3. p \in Seq(Nat) /\ Len(p) = 3
    BY <2>2, TripleIs
  <2> QED BY <2>3
<1>4. Span(t, upper) = {from, to}
  BY DEF Span
<1>5. Order440(v, low) = ComparePEP440(v, low)
  BY <1>1, PythonOrderIsPep440
<1>6. Test440(from, v) <=> Order440(v, low) >= 0
  <2>1. from.op = ">=" /\ from.v = low
    BY DEF Spec440
  <2> HIDE DEF from
  <2>2. Test440(from, v) <=> ComparePEP440(v, low) >= 0
    BY <2>1 DEF Test440
  <2> QED BY <1>5, <2>2
<1>7. Test440(to, v) <=> v.epoch = 0 /\ CompareReleases(v.release, p) < 0
  BY <1>3, BelowPlain
<1>8. ASSUME v.epoch = 0, Order440(v, low) >= 0
      PROVE CompareReleases(v.release, p) < 0 <=> Shares(v.release, t.nums, k)
  <2> DEFINE r == CompareReleases(v.release, t.nums)
  <2>1. ComparePEP440(v, low) = IF Sign(v.epoch, low.epoch) # 0 THEN Sign(v.epoch, low.epoch)
          ELSE IF CompareReleases(v.release, low.release) # 0
               THEN CompareReleases(v.release, low.release) ELSE Sign(Rank(v), Rank(low))
    BY <1>1, PythonSplits
  <2>2. Sign(v.epoch, low.epoch) = 0
    BY <1>1, <1>8 DEF Sign
  <2>3. r \in Int
    BY <1>1, <1>2, ReleaseOrder DEF Signs
  <2>4. ComparePEP440(v, low) = IF r # 0 THEN r ELSE Sign(Rank(v), Rank(low))
    BY <1>1, <2>1, <2>2
  <2>5. ComparePEP440(v, low) >= 0
    BY <1>5, <1>8
  <2> HIDE DEF r
  <2>6. r >= 0
    BY <2>3, <2>4, <2>5
  <2>7. CompareReleases(v.release, t.nums) >= 0
    BY <2>6 DEF r
  <2> HIDE DEF p
  <2>8. p = Pad(Bump(t.nums, k))
    BY DEF p
  <2> QED BY <1>1, <1>2, <2>7, <2>8, ReleaseBump
<1> HIDE DEF p, from, to
<1>9. (\A s \in Span(t, upper) : Test440(s, v)) <=> Test440(from, v) /\ Test440(to, v)
  BY <1>4
<1> QED BY <1>6, <1>7, <1>8, <1>9

(* How far each operator of Poetry's lets a version go.                    *)
LEMMA PoetryFixed ==
  ASSUME NEW t \in PoetryTerms, t.nums # <<>>
  PROVE /\ (t.op = "^" => Fixed("poetry", t) = Breaking(t.nums))
        /\ (t.op = "~" => Fixed("poetry", t) = Least(2, Len(t.nums)))
        /\ (t.op = "bare" /\ t.stars => Fixed("poetry", t) = Len(t.nums))
<1>1. "poetry" # "npm" /\ "poetry" # "terraform"
  OBVIOUS
<1>2. CASE t.op = "^"
  BY <1>1, <1>2 DEF Fixed
<1>3. CASE t.op = "~"
  BY <1>1, <1>3 DEF Fixed
<1>4. CASE t.op = "bare" /\ t.stars
  BY <1>1, <1>4 DEF Fixed
<1> QED BY <1>2, <1>3, <1>4

LEMMA LeastIs ==
  ASSUME NEW l \in Nat, l >= 1
  PROVE /\ Least(2, l) \in 1..l /\ Least(2, l) <= 3
        /\ (IF l = 1 THEN 1 ELSE 2) = Least(2, l)
        /\ (l < 3 => Least(2, l) = l)
        /\ Least(3, l) <= 3
BY DEF Least

(* A requirement of Poetry's admits what it means.                         *)
LEMMA PoetryIs ==
  ASSUME NEW t \in PoetryTerms, t.op = "bare" /\ t.stars => Len(t.nums) < 3,
         NEW v \in PythonVersions, OneSuffix(v),
         \A s \in TranslateTerm(t) : OneSuffix(s.v)
  PROVE (\A s \in TranslateTerm(t) : Test440(s, v)) <=> MeansPoetry(t, v)
<1> DEFINE low == ParsePEP440(Lower(t))
           n == t.nums
<1>1. CASE n = <<>>
  <2>1. TranslateTerm(t) = {} /\ MeansPoetry(t, v) = TRUE
    BY <1>1, Zenon DEF TranslateTerm, MeansPoetry
  <2> QED BY <2>1
<1>2. CASE n # <<>>
  <2>1. /\ low \in PythonVersions /\ n \in Seq(Nat) /\ Len(n) \in Nat /\ Len(n) >= 1
        /\ t.op \in Ops440 \cup {"bare", "=", "^", "~"} /\ t.stars \in BOOLEAN
    BY <1>2, LowerIs
  <2>2. /\ Least(2, Len(n)) \in 1..Len(n) /\ Least(2, Len(n)) <= 3
        /\ (IF Len(n) = 1 THEN 1 ELSE 2) = Least(2, Len(n))
        /\ (Len(n) < 3 => Least(2, Len(n)) = Len(n)) /\ Least(3, Len(n)) <= 3
    BY <2>1, LeastIs, Zenon
  <2>3. TildeUpper(n) = Bump(n, Least(2, Len(n)))
    BY <2>2 DEF TildeUpper
  <2>4. ASSUME NEW upper, TranslateTerm(t) = Span(t, upper) PROVE OneSuffix(low)
    <3>1. Spec440(">=", low, FALSE) \in Span(t, upper)
      BY DEF Span
    <3>2. Spec440(">=", low, FALSE).v = low
      BY DEF Spec440
    <3> HIDE DEF low
    <3>3. OneSuffix(Spec440(">=", low, FALSE).v)
      BY <2>4, <3>1
    <3> QED BY <3>2, <3>3
  <2>5. CASE t.op = "^"
    <3>1. TranslateTerm(t) = Span(t, CaretUpper(Truncated(n)))
      BY <1>2, <2>5 DEF TranslateTerm
    <3>2. MeansPoetry(t, v) <=> v.epoch = 0 /\ Order440(v, low) >= 0
                                /\ Shares(v.release, n, Fixed("poetry", t))
      BY <1>2, <2>5 DEF MeansPoetry
    <3>3. Breaking(n) \in 1..Least(3, Len(n)) /\ Breaking(n) \in 1..Len(n)
      BY <1>2, <2>1, BreakingIs
    <3>4. Breaking(n) <= 3
      <4>1. Least(3, Len(n)) \in Int /\ Least(3, Len(n)) <= 3
        BY <2>1, <2>2 DEF Least
      <4> QED BY <3>3, <4>1
    <3>5. Pad(CaretUpper(Truncated(n))) = Pad(Bump(n, Breaking(n)))
      BY <1>2, <2>1, CaretIs
    <3>6. Fixed("poetry", t) = Breaking(n)
      BY <1>2, <2>5, PoetryFixed
    <3>7. OneSuffix(low)
      BY <2>4, <3>1
    <3>8. (\A s \in Span(t, CaretUpper(Truncated(n))) : Test440(s, v))
            <=> v.epoch = 0 /\ Order440(v, low) >= 0 /\ Shares(v.release, n, Breaking(n))
      BY <1>2, <3>3, <3>4, <3>5, <3>7, SpanIs
    <3> QED BY <3>1, <3>2, <3>6, <3>8
  <2>6. ASSUME TranslateTerm(t) = Span(t, TildeUpper(n)), Fixed("poetry", t) = Least(2, Len(n))
        PROVE (\A s \in TranslateTerm(t) : Test440(s, v))
                <=> v.epoch = 0 /\ Order440(v, low) >= 0
                    /\ Shares(v.release, n, Fixed("poetry", t))
    <3>1. OneSuffix(low)
      BY <2>4, <2>6
    <3>2. Pad(TildeUpper(n)) = Pad(Bump(n, Least(2, Len(n))))
      BY <2>3
    <3>3. (\A s \in Span(t, TildeUpper(n)) : Test440(s, v))
            <=> v.epoch = 0 /\ Order440(v, low) >= 0 /\ Shares(v.release, n, Least(2, Len(n)))
      BY <1>2, <2>2, <3>1, <3>2, SpanIs
    <3> QED BY <2>6, <3>3
  <2>7. CASE t.op = "~"
    <3>1. TranslateTerm(t) = Span(t, TildeUpper(n))
      BY <1>2, <2>7 DEF TranslateTerm
    <3>2. MeansPoetry(t, v) <=> v.epoch = 0 /\ Order440(v, low) >= 0
                                /\ Shares(v.release, n, Fixed("poetry", t))
      BY <1>2, <2>7 DEF MeansPoetry
    <3>3. Fixed("poetry", t) = Least(2, Len(n))
      BY <1>2, <2>7, PoetryFixed
    <3> QED BY <2>6, <3>1, <3>2, <3>3
  <2>8. CASE t.op = "bare" /\ t.stars = TRUE
    <3>1. TranslateTerm(t) = Span(t, TildeUpper(n))
      BY <1>2, <2>8 DEF TranslateTerm
    <3>2. MeansPoetry(t, v) <=> v.epoch = 0 /\ Order440(v, low) >= 0
                                /\ Shares(v.release, n, Fixed("poetry", t))
      BY <1>2, <2>8 DEF MeansPoetry
    <3>3. Fixed("poetry", t) = Least(2, Len(n))
      <4>1. Fixed("poetry", t) = Len(n)
        BY <1>2, <2>8, PoetryFixed
      <4> QED BY <2>2, <2>8, <4>1
    <3> QED BY <2>6, <3>1, <3>2, <3>3
  <2>9. CASE t.op = "bare" /\ t.stars = FALSE
    <3> DEFINE s == Spec440("==", low, FALSE)
    <3>1. TranslateTerm(t) = {s}
      BY <1>2, <2>9 DEF TranslateTerm
    <3>2. MeansPoetry(t, v) <=> Order440(v, low) = 0
      BY <1>2, <2>9 DEF MeansPoetry
    <3>3. s.op = "==" /\ s.v = low /\ s.wildcard = FALSE
      BY DEF Spec440
    <3> HIDE DEF low, s
    <3>4. OneSuffix(low)
      <4>1. OneSuffix(s.v)
        BY <3>1
      <4> QED BY <3>3, <4>1
    <3>5. Order440(v, low) = ComparePEP440(v, low)
      BY <2>1, <3>4, PythonOrderIsPep440
    <3>6. Test440(s, v) <=> ComparePEP440(v, low) = 0
      BY <3>3 DEF Test440
    <3> QED BY <3>1, <3>2, <3>5, <3>6
  <2>10. CASE t.op \in {"=", "==="}
    <3> DEFINE s == Spec440("===", Lower(t), t.stars)
    <3>1. TranslateTerm(t) = {s}
      BY <1>2, <2>10 DEF TranslateTerm
    <3>2. MeansPoetry(t, v) <=> v = Lower(t) /\ ~t.stars
      BY <1>2, <2>10 DEF MeansPoetry
    <3>3. s.op = "===" /\ s.v = Lower(t) /\ s.wildcard = t.stars
      BY DEF Spec440
    <3> HIDE DEF s
    <3>4. Test440(s, v) <=> v = Lower(t) /\ ~t.stars
      BY <3>3 DEF Test440
    <3> QED BY <3>1, <3>2, <3>4
  <2>11. CASE t.op \in Ops440 \ {"==="}
    <3> DEFINE s == Spec440(t.op, low, t.stars)
    <3>1. TranslateTerm(t) = {s}
      BY <1>2, <2>11 DEF TranslateTerm, Ops440
    <3>2. MeansPoetry(t, v) <=> Means440(s, v)
      BY <1>2, <2>11 DEF MeansPoetry, Ops440
    <3>3. s.op = t.op /\ s.v = low /\ s.wildcard = t.stars
      BY DEF Spec440
    <3> HIDE DEF low, s
    <3>4. OneSuffix(low)
      <4>1. OneSuffix(s.v)
        BY <3>1
      <4> QED BY <3>3, <4>1
    <3>5. s.op \in Ops440 /\ s.wildcard \in BOOLEAN /\ s.v \in PythonVersions /\ OneSuffix(s.v)
      BY <2>1, <2>11, <3>3, <3>4
    <3>6. Test440(s, v) <=> Means440(s, v)
      BY <3>5, SpecMeans
    <3> QED BY <3>1, <3>2, <3>6
  <2> QED BY <2>1, <2>5, <2>7, <2>8, <2>9, <2>10, <2>11
<1> QED BY <1>1, <1>2

-----------------------------------------------------------------------------
(* What a requirement admits: what it must, and nothing it may not.        *)
LEMMA RequestIs ==
  ASSUME NEW r \in Requests
  PROVE /\ r.scheme \in Schemes /\ Terms(r) \subseteq TermsOf(r.scheme)
        /\ Releases(r.scheme) \subseteq VersionsOf(r.scheme)
        /\ (r.scheme = "pep440" => Terms(r) \subseteq Specs440 /\ Specs(r) = Terms(r))
        /\ (r.scheme = "poetry" => Terms(r) \subseteq PoetryTerms
                                   /\ Specs(r) = Translate(Terms(r)))
        /\ (~Python(r) => Terms(r) \subseteq SemTerms)
        /\ (Python(r) => VersionsOf(r.scheme) = PythonVersions)
        /\ (~Python(r) => VersionsOf(r.scheme) = SemVersions)
        /\ (Python(r) <=> r.scheme = "pep440" \/ r.scheme = "poetry")
        /\ (~Python(r) => r.scheme \in {"npm", "cargo", "go", "terraform"})
<1>1. r.scheme \in Schemes /\ Terms(r) \subseteq TermsOf(r.scheme)
  BY VersionsAssumption
<1>2. Releases(r.scheme) \subseteq VersionsOf(r.scheme)
  BY <1>1, VersionsAssumption
<1>3. Python(r) <=> r.scheme \in {"pep440", "poetry"}
  BY DEF Python
<1>4. ~Python(r) => r.scheme \in {"npm", "cargo", "go", "terraform"}
  BY <1>1, <1>3 DEF Schemes
<1>5. /\ (r.scheme = "pep440" => TermsOf(r.scheme) = Specs440)
      /\ (r.scheme = "poetry" => TermsOf(r.scheme) = PoetryTerms)
      /\ (~Python(r) => TermsOf(r.scheme) = SemTerms)
  BY <1>3, <1>4 DEF TermsOf
<1>6. /\ (Python(r) => VersionsOf(r.scheme) = PythonVersions)
      /\ (~Python(r) => VersionsOf(r.scheme) = SemVersions)
  BY <1>3 DEF VersionsOf
<1>7. /\ (r.scheme = "pep440" => Specs(r) = Terms(r))
      /\ (r.scheme = "poetry" => Specs(r) = Translate(Terms(r)))
  BY DEF Specs
<1> QED BY <1>1, <1>2, <1>3, <1>4, <1>5, <1>6, <1>7

LEMMA SpecIs ==
  ASSUME NEW s \in Specs440
  PROVE /\ s.op \in Ops440 /\ s.wildcard \in BOOLEAN /\ s.v \in WrittenVersions
        /\ (s.op = "===" \/ s.v \in PythonVersions)
BY DEF Specs440

LEMMA AdmittedByPep440 ==
  ASSUME NEW r \in Requests, r.scheme = "pep440", Regular(r), NEW v \in PythonVersions, OneSuffix(v)
  PROVE Satisfies(r, v) <=> \A s \in Terms(r) : Means440(s, v)
<1>1. Terms(r) \subseteq Specs440 /\ Specs(r) = Terms(r) /\ Python(r)
  BY RequestIs
<1>2. Satisfies(r, v) <=> \A s \in Terms(r) : Test440(s, v)
  <2>1. Satisfies(r, v) = Satisfies440(v, Specs(r))
    BY DEF Satisfies
  <2> QED BY <1>1, <2>1 DEF Satisfies440
<1>3. ASSUME NEW s \in Terms(r) PROVE Test440(s, v) <=> Means440(s, v)
  <2>1. OneSuffix(s.v)
    <3>1. s.v \in {x.v : x \in Specs(r)}
      BY <1>1
    <3> QED BY <1>1, <3>1 DEF Regular
  <2>2. s \in Specs440
    BY <1>1
  <2>3. /\ s.op \in Ops440 /\ s.wildcard \in BOOLEAN
        /\ (s.op = "===" \/ (s.v \in PythonVersions /\ OneSuffix(s.v)))
    BY <2>1, <2>2, SpecIs
  <2> QED BY <2>3, SpecMeans
<1> QED BY <1>2, <1>3

LEMMA AdmittedByPoetry ==
  ASSUME NEW r \in Requests, r.scheme = "poetry", Regular(r), NEW v \in PythonVersions, OneSuffix(v)
  PROVE Satisfies(r, v) <=> \A t \in Terms(r) : MeansPoetry(t, v)
<1>1. Terms(r) \subseteq PoetryTerms /\ Specs(r) = Translate(Terms(r)) /\ Python(r)
  BY RequestIs
<1>2. Satisfies(r, v) <=> \A t \in Terms(r) : \A s \in TranslateTerm(t) : Test440(s, v)
  <2>1. Satisfies(r, v) = Satisfies440(v, Specs(r))
    BY DEF Satisfies
  <2>2. Satisfies440(v, Specs(r)) <=> \A s \in UNION {TranslateTerm(t) : t \in Terms(r)} :
                                         Test440(s, v)
    BY <1>1 DEF Satisfies440, Translate
  <2> QED BY <2>1, <2>2, Zenon
<1>3. ASSUME NEW t \in Terms(r)
      PROVE (\A s \in TranslateTerm(t) : Test440(s, v)) <=> MeansPoetry(t, v)
  <2>1. ASSUME NEW s \in TranslateTerm(t) PROVE OneSuffix(s.v)
    <3>1. s \in Specs(r)
      BY <1>1, Zenon DEF Translate
    <3>2. s.v \in {x.v : x \in Specs(r)}
      BY <3>1
    <3> QED BY <1>1, <3>2 DEF Regular
  <2>2. t.op = "bare" /\ t.stars => Len(t.nums) < 3
    BY DEF Regular
  <2>3. t \in PoetryTerms
    BY <1>1
  <2> QED BY <2>1, <2>2, <2>3, PoetryIs
<1> QED BY <1>2, <1>3

LEMMA AdmittedBySemver ==
  ASSUME NEW r \in Requests, ~Python(r), Readable(r), Regular(r), NEW v \in SemVersions
  PROVE (Must(r, v) => Satisfies(r, v)) /\ (Satisfies(r, v) => May(r, v))
<1>1. Terms(r) \subseteq SemTerms /\ r.scheme \in {"npm", "cargo", "go", "terraform"}
  BY RequestIs
<1>2. \A t \in Terms(r) : t.op = "bare" /\ t.stars => Len(t.nums) < 3
  BY <1>1 DEF Regular
<1>3. CASE r.scheme = "npm"
  <2>1. \A t \in UNION r.constraint : ParsesNpm(t)
    BY <1>3 DEF Readable, Terms
  <2>2. UNION r.constraint \subseteq SemTerms
    BY <1>1 DEF Terms
  <2>3. Satisfies(r, v) = SatisfiesNpm(v, r.constraint)
    BY <1>3 DEF Satisfies
  <2>4. Must(r, v) = \E alt \in r.constraint :
           /\ \A t \in alt : Means("npm", t, v)
           /\ v.pre = <<>> \/ \E t \in alt : NamesPre(t) /\ Low("npm", t).nums = v.nums
    BY <1>3 DEF Must
  <2>5. May(r, v) = Must(r, v)
    BY <1>3 DEF May
  <2>6. SatisfiesNpm(v, r.constraint) <=>
          \E alt \in r.constraint :
            /\ \A t \in alt : Means("npm", t, v)
            /\ v.pre = <<>> \/ \E t \in alt : NamesPre(t) /\ Low("npm", t).nums = v.nums
    BY <2>1, <2>2, NpmIs
  <2> QED BY <2>3, <2>4, <2>5, <2>6, Zenon
<1>4. CASE r.scheme = "cargo"
  <2>1. \A t \in Terms(r) : ParsesCargo(t)
    BY <1>4 DEF Readable
  <2>2. Satisfies(r, v) = SatisfiesCargo(v, Terms(r))
    BY <1>4 DEF Satisfies
  <2>3. Must(r, v) <=> v.pre = <<>> /\ \A t \in Terms(r) : Means("cargo", t, v)
    BY <1>4 DEF Must, AllMean
  <2>4. /\ v.pre # <<>> => (May(r, v) <=> \E t \in Terms(r) : t.pre # <<>>)
        /\ v.pre = <<>> => (May(r, v) <=> Must(r, v))
    BY <1>4 DEF May
  <2>5. /\ (v.pre = <<>> => (SatisfiesCargo(v, Terms(r)) <=>
                               \A t \in Terms(r) : Means("cargo", t, v)))
        /\ (v.pre # <<>> /\ SatisfiesCargo(v, Terms(r)) => \E t \in Terms(r) : t.pre # <<>>)
    <3>1. \A t \in Terms(r) : t.op = "bare" => t.x = Absent
      BY <1>4 DEF Regular
    <3> QED BY <1>1, <1>2, <2>1, <3>1, CargoIs
  <2> QED BY <2>2, <2>3, <2>4, <2>5, Zenon
<1>5. CASE r.scheme = "terraform"
  <2>1. \A t \in Terms(r) : ParsesTerraform(t)
    BY <1>5 DEF Readable
  <2>2. Satisfies(r, v) = SatisfiesTerraform(v, Terms(r))
    BY <1>5 DEF Satisfies
  <2>3. Must(r, v) <=> v.pre = <<>> /\ \A t \in Terms(r) : Means("terraform", t, v)
    BY <1>5 DEF Must, AllMean
  <2>4. /\ v.pre # <<>> => May(r, v)
        /\ v.pre = <<>> => (May(r, v) <=> Must(r, v))
    BY <1>5 DEF May
  <2>5. v.pre = <<>> => (SatisfiesTerraform(v, Terms(r)) <=>
                           \A t \in Terms(r) : Means("terraform", t, v))
    BY <1>1, <2>1, TerraformIs
  <2> QED BY <2>2, <2>3, <2>4, <2>5, Zenon
<1>6. CASE r.scheme = "go"
  <2>1. \A t \in Terms(r) : ParsesGo(t)
    BY <1>6 DEF Readable
  <2>2. Satisfies(r, v) = \E t \in Terms(r) : SatisfiesGo(v, t)
    BY <1>6 DEF Satisfies
  <2>3. Must(r, v) = \E t \in Terms(r) : ~After(Low("go", t), v)
    BY <1>6 DEF Must
  <2>4. May(r, v) = Must(r, v)
    BY <1>6 DEF May
  <2>5. \A t \in Terms(r) : SatisfiesGo(v, t) <=> ~After(Low("go", t), v)
    BY <1>1, <2>1, GoIs
  <2> QED BY <2>2, <2>3, <2>4, <2>5, Zenon
<1> QED BY <1>1, <1>3, <1>4, <1>5, <1>6

(* Satisfies, which tests the comparators each scheme turns a requirement  *)
(* into, admits every version its operators promise and none they exclude. *)
(* The constraint is one that can be read and is Regular: a bare version   *)
(* of Cargo with an x in its suffix is left out, which the code reads as   *)
(* a tilde, and Poetry's ^1.1.1alpha, which it does not read.              *)
THEOREM AdmittedAsPromised ==
  ASSUME NEW r \in Requests, Readable(r), Regular(r), NEW v \in Releases(r.scheme)
  PROVE (Must(r, v) => Satisfies(r, v)) /\ (Satisfies(r, v) => May(r, v))
<1>1. v \in VersionsOf(r.scheme)
  BY RequestIs
<1>2. CASE ~Python(r)
  <2>1. v \in SemVersions
    BY <1>1, <1>2, RequestIs
  <2> QED BY <1>2, <2>1, AdmittedBySemver
<1>3. CASE Python(r)
  <2>1. v \in PythonVersions /\ OneSuffix(v)
    BY <1>1, <1>3, RequestIs DEF Regular
  <2>2. r.scheme = "pep440" \/ r.scheme = "poetry"
    BY <1>3, RequestIs
  <2>3. May(r, v) = Must(r, v)
    BY <2>2 DEF May
  <2>4. CASE r.scheme = "pep440"
    <3>1. Must(r, v) = \A s \in Terms(r) : Means440(s, v)
      BY <2>4 DEF Must
    <3>2. Satisfies(r, v) <=> \A s \in Terms(r) : Means440(s, v)
      BY <2>1, <2>4, AdmittedByPep440
    <3> QED BY <2>3, <3>1, <3>2
  <2>5. CASE r.scheme = "poetry"
    <3>1. Must(r, v) = \A t \in Terms(r) : MeansPoetry(t, v)
      BY <2>5 DEF Must
    <3>2. Satisfies(r, v) <=> \A t \in Terms(r) : MeansPoetry(t, v)
      BY <2>1, <2>5, AdmittedByPoetry
    <3> QED BY <2>3, <3>1, <3>2
  <2> QED BY <2>2, <2>4, <2>5
<1> QED BY <1>2, <1>3

-----------------------------------------------------------------------------
(* What is admitted, newest first.                                         *)

(* Compare of each scheme is an order: either way round it says the same,  *)
(* and of three versions it never goes in a circle.                        *)
THEOREM VersionsAreOrdered ==
  ASSUME NEW r \in Requests, NEW a \in VersionsOf(r.scheme), NEW b \in VersionsOf(r.scheme),
         NEW c \in VersionsOf(r.scheme)
  PROVE /\ CompareVersions(r, a, b) \in Signs
        /\ CompareVersions(r, b, a) = 0 - CompareVersions(r, a, b)
        /\ Chains(CompareVersions(r, a, b), CompareVersions(r, b, c), CompareVersions(r, a, c))
<1>1. CASE Python(r)
  <2>1. a \in PythonVersions /\ b \in PythonVersions /\ c \in PythonVersions
    BY <1>1, RequestIs
  <2>2. /\ CompareVersions(r, a, b) = ComparePEP440(a, b)
        /\ CompareVersions(r, b, a) = ComparePEP440(b, a)
        /\ CompareVersions(r, b, c) = ComparePEP440(b, c)
        /\ CompareVersions(r, a, c) = ComparePEP440(a, c)
    BY <1>1 DEF CompareVersions
  <2>3. /\ ComparePEP440(a, b) \in Signs
        /\ ComparePEP440(b, a) = 0 - ComparePEP440(a, b)
    BY <2>1, PythonOrder
  <2>4. Chains(ComparePEP440(a, b), ComparePEP440(b, c), ComparePEP440(a, c))
    BY <2>1, PythonChains
  <2> QED BY <2>2, <2>3, <2>4
<1>2. CASE ~Python(r)
  <2>1. a \in SemVersions /\ b \in SemVersions /\ c \in SemVersions
    BY <1>2, RequestIs
  <2>2. /\ CompareVersions(r, a, b) = Compare(a, b)
        /\ CompareVersions(r, b, a) = Compare(b, a)
        /\ CompareVersions(r, b, c) = Compare(b, c)
        /\ CompareVersions(r, a, c) = Compare(a, c)
    BY <1>2 DEF CompareVersions
  <2>3. Compare(a, b) \in Signs /\ Compare(b, a) = 0 - Compare(a, b)
    BY <2>1, SemOrder
  <2>4. Chains(Compare(a, b), Compare(b, c), Compare(a, c))
    BY <2>1, SemChains
  <2> QED BY <2>2, <2>3, <2>4
<1> QED BY <1>1, <1>2

(* Of two places one comes before the other, never a place before itself.  *)
LEMMA BeforeIs ==
  ASSUME NEW r \in Requests, NEW a \in VersionsOf(r.scheme), NEW b \in VersionsOf(r.scheme),
         NEW c \in VersionsOf(r.scheme), NEW i \in Nat, NEW j \in Nat, NEW k \in Nat
  PROVE /\ ~Before(r, a, a, i, i)
        /\ (i # j => Before(r, a, b, i, j) \/ Before(r, b, a, j, i))
        /\ (Before(r, a, b, i, j) /\ Before(r, b, c, j, k) => Before(r, a, c, i, k))
        /\ (Before(r, a, b, i, j) => CompareVersions(r, a, b) >= 0)
<1> DEFINE x == CompareVersions(r, a, b)
           y == CompareVersions(r, b, c)
           z == CompareVersions(r, a, c)
           u == CompareVersions(r, b, a)
           w == CompareVersions(r, a, a)
<1>1. x \in Signs /\ u = 0 - x /\ Chains(x, y, z)
  BY VersionsAreOrdered
<1>2. y \in Signs
  BY VersionsAreOrdered
<1>3. z \in Signs
  BY VersionsAreOrdered
<1>4. w \in Signs /\ w = 0 - w
  BY VersionsAreOrdered
<1>5. /\ (Before(r, a, b, i, j) <=> x > 0 \/ (x = 0 /\ i < j))
      /\ (Before(r, b, a, j, i) <=> u > 0 \/ (u = 0 /\ j < i))
      /\ (Before(r, b, c, j, k) <=> y > 0 \/ (y = 0 /\ j < k))
      /\ (Before(r, a, c, i, k) <=> z > 0 \/ (z = 0 /\ i < k))
      /\ (Before(r, a, a, i, i) <=> w > 0 \/ (w = 0 /\ i < i))
  BY DEF Before
<1> HIDE DEF x, y, z, u, w
<1>6. ~Before(r, a, a, i, i)
  BY <1>4, <1>5 DEF Signs
<1>7. i # j => Before(r, a, b, i, j) \/ Before(r, b, a, j, i)
  BY <1>1, <1>5 DEF Signs
<1>8. Before(r, a, b, i, j) /\ Before(r, b, c, j, k) => Before(r, a, c, i, k)
  BY <1>1, <1>2, <1>3, <1>5 DEF Signs, Chains
<1>9. Before(r, a, b, i, j) => x >= 0
  BY <1>1, <1>5 DEF Signs
<1> QED BY <1>6, <1>7, <1>8, <1>9 DEF x

LEMMA NewestFirstIs ==
  ASSUME NEW r \in Requests, NEW vs \in Seq(VersionsOf(r.scheme)), NEW S, S \subseteq DOMAIN vs,
         NEW out, out = NewestFirst(r, vs, S)
  PROVE /\ out \in Seq(VersionsOf(r.scheme)) /\ Range(out) = {vs[i] : i \in S}
        /\ \A k, l \in DOMAIN out : k < l => CompareVersions(r, out[k], out[l]) >= 0
        /\ (S = {} => out = <<>>)
        /\ (S # {} => /\ out # <<>>
                      /\ \E i \in S : /\ out[1] = vs[i]
                                      /\ \A j \in S : i = j \/ Before(r, vs[i], vs[j], i, j))
<1> DEFINE T == VersionsOf(r.scheme)
           R == {e \in S \X S : Before(r, vs[e[1]], vs[e[2]], e[1], e[2])}
           order == Sorted(S, R)
           n == Cardinality(S)
<1>1. Len(vs) \in Nat /\ DOMAIN vs = 1..Len(vs) /\ \A i \in S : i \in Nat /\ vs[i] \in T
  OBVIOUS
<1>2. IsFiniteSet(S)
  <2>1. IsFiniteSet(1..Len(vs))
    <3>1. 1 \in Int /\ Len(vs) \in Int
      BY <1>1
    <3> QED BY <3>1, FS_Interval
  <2> QED BY <1>1, <2>1, FS_Subset
<1>3. \A i, j \in S : <<i, j>> \in R <=> Before(r, vs[i], vs[j], i, j)
  OBVIOUS
<1>4. out = [k \in DOMAIN order |-> vs[order[k]]]
  BY DEF NewestFirst
<1> HIDE DEF R
<1>5. \A i \in S : <<i, i>> \notin R
  BY <1>1, <1>3, BeforeIs
<1>6. \A i, j, k \in S : <<i, j>> \in R /\ <<j, k>> \in R => <<i, k>> \in R
  <2> SUFFICES ASSUME NEW i \in S, NEW j \in S, NEW k \in S, <<i, j>> \in R, <<j, k>> \in R
               PROVE <<i, k>> \in R
    OBVIOUS
  <2>1. Before(r, vs[i], vs[j], i, j) /\ Before(r, vs[j], vs[k], j, k)
    BY <1>3
  <2>2. vs[i] \in T /\ vs[j] \in T /\ vs[k] \in T /\ i \in Nat /\ j \in Nat /\ k \in Nat
    BY <1>1
  <2>3. Before(r, vs[i], vs[k], i, k)
    BY <2>1, <2>2, BeforeIs
  <2> QED BY <1>3, <2>3
<1>7. \A i, j \in S : i # j => <<i, j>> \in R \/ <<j, i>> \in R
  <2> SUFFICES ASSUME NEW i \in S, NEW j \in S, i # j PROVE <<i, j>> \in R \/ <<j, i>> \in R
    OBVIOUS
  <2>1. vs[i] \in T /\ vs[j] \in T /\ i \in Nat /\ j \in Nat
    BY <1>1
  <2>2. Before(r, vs[i], vs[j], i, j) \/ Before(r, vs[j], vs[i], j, i)
    BY <2>1, BeforeIs
  <2> QED BY <1>3, <2>2
<1>8. /\ n \in Nat /\ DOMAIN order = 1..n /\ \A k \in 1..n : order[k] \in S
      /\ \A j \in S : \E k \in 1..n : order[k] = j
      /\ \A k, l \in 1..n : k < l => <<order[k], order[l]>> \in R
  <2>1. /\ Cardinality(S) \in Nat /\ DOMAIN Sorted(S, R) = 1..Cardinality(S)
        /\ \A k \in 1..Cardinality(S) : Sorted(S, R)[k] \in S
        /\ \A j \in S : \E k \in 1..Cardinality(S) : Sorted(S, R)[k] = j
        /\ \A k, l \in 1..Cardinality(S) :
             k < l => <<Sorted(S, R)[k], Sorted(S, R)[l]>> \in R
    BY <1>2, <1>5, <1>6, <1>7, SortedIs, Zenon
  <2> QED BY <2>1
<1>9. (S = {} <=> n = 0)
  <2>1. S = {} => n = 0
    BY FS_EmptySet
  <2>2. S # {} => n # 0
    BY <1>8
  <2> QED BY <2>1, <2>2
<1> HIDE DEF order, n, T
<1>10. DOMAIN out = 1..n /\ \A k \in 1..n : out[k] = vs[order[k]]
  BY <1>4, <1>8
<1>11. out \in Seq(T) /\ Len(out) = n
  <2>1. out \in [1..n -> T]
    BY <1>1, <1>4, <1>8
  <2> QED BY <1>8, <2>1
<1>12. Range(out) = {vs[i] : i \in S}
  BY <1>8, <1>10 DEF Range
<1>13. \A k, l \in DOMAIN out : k < l => CompareVersions(r, out[k], out[l]) >= 0
  <2> SUFFICES ASSUME NEW k \in 1..n, NEW l \in 1..n, k < l
               PROVE CompareVersions(r, out[k], out[l]) >= 0
    BY <1>10
  <2> DEFINE i == order[k]
             j == order[l]
  <2>1. i \in S /\ j \in S /\ <<i, j>> \in R /\ out[k] = vs[i] /\ out[l] = vs[j]
    BY <1>8, <1>10
  <2> HIDE DEF i, j
  <2>2. vs[i] \in T /\ vs[j] \in T /\ i \in Nat /\ j \in Nat
    BY <1>1, <2>1
  <2>3. Before(r, vs[i], vs[j], i, j)
    BY <1>3, <2>1
  <2>4. CompareVersions(r, vs[i], vs[j]) >= 0
    BY <2>2, <2>3, BeforeIs DEF T
  <2> QED BY <2>1, <2>4
<1>14. S = {} => out = <<>>
  BY <1>9, <1>11
<1>15. ASSUME S # {}
       PROVE /\ out # <<>>
             /\ \E i \in S : out[1] = vs[i] /\ \A j \in S : i = j \/ Before(r, vs[i], vs[j], i, j)
  <2>1. 1 \in 1..n
    BY <1>8, <1>9, <1>15
  <2>2. out # <<>>
    BY <1>8, <1>11, <2>1
  <2> DEFINE i == order[1]
  <2>3. i \in S /\ out[1] = vs[i]
    BY <1>8, <1>10, <2>1
  <2>4. \A j \in S : i = j \/ Before(r, vs[i], vs[j], i, j)
    <3> SUFFICES ASSUME NEW j \in S, i # j PROVE Before(r, vs[i], vs[j], i, j)
      OBVIOUS
    <3>1. PICK l \in 1..n : order[l] = j
      BY <1>8
    <3>2. l # 1
      BY <3>1
    <3>3. 1 < l
      BY <1>8, <3>1, <3>2
    <3>4. <<order[1], order[l]>> \in R
      BY <1>8, <2>1, <3>3
    <3>5. <<i, j>> \in R
      BY <3>1, <3>4
    <3> HIDE DEF i
    <3> QED BY <1>3, <2>3, <3>5
  <2> QED BY <2>2, <2>3, <2>4
<1> QED BY <1>11, <1>12, <1>13, <1>14, <1>15 DEF T

LEMMA PrefixIs ==
  ASSUME NEW T, NEW s \in Seq(T), NEW n \in 0..Len(s)
  PROVE /\ SubSeq(s, 1, n) \in Seq(T) /\ Len(SubSeq(s, 1, n)) = n
        /\ DOMAIN SubSeq(s, 1, n) = 1..n /\ \A j \in 1..n : SubSeq(s, 1, n)[j] = s[j]
        /\ 1..n \subseteq DOMAIN s /\ DOMAIN s = 1..Len(s) /\ Len(s) \in Nat
<1>1. Len(s) \in Nat /\ DOMAIN s = 1..Len(s) /\ \A j \in 1..Len(s) : s[j] \in T
  OBVIOUS
<1>2. \A j \in 1..n : s[j] \in T
  BY <1>1
<1>3. SubSeq(s, 1, n) = [j \in 1..n |-> s[j]]
  BY <1>1
<1>4. [j \in 1..n |-> s[j]] \in [1..n -> T] /\ n \in Nat
  BY <1>1, <1>2
<1>5. SubSeq(s, 1, n) \in Seq(T) /\ Len(SubSeq(s, 1, n)) = n
  BY <1>3, <1>4
<1> QED BY <1>1, <1>3, <1>4, <1>5

-----------------------------------------------------------------------------
(* What is selected of a list, and of the list it has grown from.          *)
LEMMA SelectedIs ==
  ASSUME NEW r, NEW vs
  PROVE /\ Selected(r, vs) \subseteq DOMAIN vs
        /\ \A i \in Selected(r, vs) : Satisfies(r, vs[i])
<1>1. CASE Python(r)
  BY <1>1 DEF Selected, Stable
<1>2. CASE ~Python(r)
  BY <1>2 DEF Selected
<1> QED BY <1>1, <1>2

LEMMA SelectedBefore ==
  ASSUME NEW r, NEW T, NEW vs \in Seq(T), NEW n \in 1..Len(vs), NEW old \in Seq(T),
         DOMAIN old = 1..n, \A j \in 1..n : old[j] = vs[j],
         NEW i \in Selected(r, vs), i <= n
  PROVE Selected(r, old) = Selected(r, vs) \cap 1..n
<1> DEFINE ok == {j \in DOMAIN vs : Satisfies(r, vs[j])}
           okOld == {j \in DOMAIN old : Satisfies(r, old[j])}
           stable == {j \in ok : ~IsPre(vs[j])}
           stableOld == {j \in okOld : ~IsPre(old[j])}
<1>1. /\ Len(vs) \in Nat /\ DOMAIN vs = 1..Len(vs) /\ DOMAIN old = 1..n
      /\ 1..n \subseteq DOMAIN vs
  OBVIOUS
<1>2. \A j \in 1..n : old[j] = vs[j]
  OBVIOUS
<1>3. okOld = ok \cap 1..n
  BY <1>1, <1>2
<1>4. stableOld = stable \cap 1..n
  BY <1>1, <1>2
<1>5. i \in 1..n
  BY <1>1, SelectedIs
<1> HIDE DEF ok, okOld, stable, stableOld
<1>6. CASE Python(r)
  <2>1. /\ Selected(r, vs) = IF MentionsPre(Specs(r)) \/ stable = {} THEN ok ELSE stable
        /\ Selected(r, old) = IF MentionsPre(Specs(r)) \/ stableOld = {} THEN okOld
                              ELSE stableOld
    BY <1>6 DEF Selected, Stable, ok, okOld, stable, stableOld
  <2>2. CASE MentionsPre(Specs(r)) \/ stable = {}
    <3>1. MentionsPre(Specs(r)) \/ stableOld = {}
      BY <1>4, <2>2
    <3> QED BY <1>3, <2>1, <2>2, <3>1
  <2>3. CASE ~(MentionsPre(Specs(r)) \/ stable = {})
    <3>1. i \in stableOld
      BY <1>4, <1>5, <2>1, <2>3
    <3> QED BY <1>4, <2>1, <2>3, <3>1
  <2> QED BY <2>2, <2>3
<1>7. CASE ~Python(r)
  <2>1. Selected(r, vs) = ok /\ Selected(r, old) = okOld
    BY <1>7 DEF Selected, ok, okOld
  <2> QED BY <1>3, <2>1
<1> QED BY <1>6, <1>7

LEMMA FirstOnly ==
  ASSUME NEW T, NEW s \in Seq(T)
  PROVE /\ FirstN(1, s) = IF s = <<>> THEN <<>> ELSE <<s[1]>>
        /\ Range(FirstN(1, s)) = IF s = <<>> THEN {} ELSE {s[1]}
<1>1. FirstN(1, s) = IF s = <<>> THEN <<>> ELSE <<s[1]>>
  <2>1. CASE s = <<>>
    BY <2>1 DEF FirstN
  <2>2. CASE s # <<>>
    <3>1. Len(s) \in Nat /\ ~(Len(s) < 1)
      BY <2>2
    <3>2. FirstN(1, s) = SubSeq(s, 1, 1)
      BY <3>1 DEF FirstN
    <3> QED BY <2>2, <3>1, <3>2
  <2> QED BY <2>1, <2>2
<1>2. Range(<<>>) = {} /\ Range(<<s[1]>>) = {s[1]}
  BY DEF Range
<1> QED BY <1>1, <1>2

(* The newest of a list that has grown was the newest of it before, or is  *)
(* new.                                                                    *)
LEMMA LatestMoves ==
  ASSUME NEW r \in Requests, NEW vs \in Seq(VersionsOf(r.scheme)), NEW n \in 1..Len(vs),
         NEW old \in Seq(VersionsOf(r.scheme)), DOMAIN old = 1..n,
         \A j \in 1..n : old[j] = vs[j]
  PROVE Range(FirstN(1, Satisfying(r, vs))) \subseteq
          Range(FirstN(1, Satisfying(r, old))) \cup Range(SubSeq(vs, n + 1, Len(vs)))
<1> DEFINE T == VersionsOf(r.scheme)
           S == Selected(r, vs)
           Q == Selected(r, old)
           new == NewestFirst(r, vs, S)
           was == NewestFirst(r, old, Q)
<1>1. old \in Seq(T) /\ S \subseteq DOMAIN vs /\ Q \subseteq DOMAIN old
  BY SelectedIs
<1>2. /\ new \in Seq(T)
      /\ (S = {} => new = <<>>)
      /\ (S # {} => /\ new # <<>>
                    /\ \E i \in S : /\ new[1] = vs[i]
                                    /\ \A j \in S : i = j \/ Before(r, vs[i], vs[j], i, j))
  <2> HIDE DEF S
  <2> QED BY <1>1, NewestFirstIs
<1>3. /\ was \in Seq(T)
      /\ (Q # {} => /\ was # <<>>
                    /\ \E i \in Q : /\ was[1] = old[i]
                                    /\ \A j \in Q : i = j \/ Before(r, old[i], old[j], i, j))
  <2> HIDE DEF Q
  <2> QED BY <1>1, NewestFirstIs
<1>4. Satisfying(r, vs) = new /\ Satisfying(r, old) = was
  BY DEF Satisfying
<1> HIDE DEF S, Q, new, was
<1>5. /\ Range(FirstN(1, new)) = IF new = <<>> THEN {} ELSE {new[1]}
      /\ Range(FirstN(1, was)) = IF was = <<>> THEN {} ELSE {was[1]}
  BY <1>2, <1>3, FirstOnly
<1>6. CASE S = {}
  BY <1>2, <1>4, <1>5, <1>6
<1>7. CASE S # {}
  <2>1. PICK i \in S : /\ new[1] = vs[i]
                       /\ \A j \in S : i = j \/ Before(r, vs[i], vs[j], i, j)
    BY <1>2, <1>7
  <2>2. i \in 1..Len(vs) /\ Len(vs) \in Nat
    BY <1>1
  <2>3. CASE i <= n
    <3>1. /\ DOMAIN old = 1..n /\ \A j \in 1..n : old[j] = vs[j]
          /\ Q = S \cap 1..n
      <4>1. i \in Selected(r, vs)
        BY DEF S
      <4>2. Selected(r, old) = Selected(r, vs) \cap 1..n
        BY <2>3, <4>1, SelectedBefore
      <4> QED BY <4>2 DEF S, Q
    <3>2. i \in Q
      BY <2>2, <2>3, <3>1
    <3>3. PICK k \in Q : /\ was[1] = old[k]
                         /\ \A j \in Q : k = j \/ Before(r, old[k], old[j], k, j)
      BY <1>3, <3>2
    <3>4. k \in S /\ k \in 1..n /\ old[k] = vs[k] /\ old[i] = vs[i] /\ i \in 1..n
      BY <3>1, <3>2
    <3>5. i = k
      <4> SUFFICES ASSUME i # k PROVE FALSE
        OBVIOUS
      <4>1. Before(r, vs[i], vs[k], i, k)
        BY <2>1, <3>4
      <4>2. Before(r, vs[k], vs[i], k, i)
        BY <3>2, <3>3, <3>4
      <4>3. vs[i] \in T /\ vs[k] \in T /\ i \in Nat /\ k \in Nat
        BY <1>1, <2>2, <3>4
      <4>4. Before(r, vs[i], vs[i], i, i)
        BY <4>1, <4>2, <4>3, BeforeIs
      <4> QED BY <4>3, <4>4, BeforeIs
    <3>6. was # <<>> /\ was[1] = new[1]
      BY <1>3, <2>1, <3>2, <3>3, <3>4, <3>5
    <3> QED BY <1>2, <1>4, <1>5, <1>7, <3>6
  <2>4. CASE ~(i <= n)
    <3>1. vs[i] \in Range(SubSeq(vs, n + 1, Len(vs)))
      <4> DEFINE q == SubSeq(vs, n + 1, Len(vs))
      <4>1. i - n \in 1..(Len(vs) - n) /\ n + 1 \in 1..Len(vs)
        BY <2>2, <2>4
      <4>2. DOMAIN q = 1..(Len(vs) - n) /\ q[i - n] = vs[i]
        BY <2>2, <4>1
      <4> HIDE DEF q
      <4> QED BY <4>1, <4>2 DEF Range, q
    <3> QED BY <1>2, <1>4, <1>5, <1>7, <2>1, <3>1
  <2> QED BY <2>3, <2>4
<1> QED BY <1>6, <1>7

-----------------------------------------------------------------------------
(* The answer kept is that of the last scan, of what was published then.   *)
Then == SubSeq(available, 1, seen)
VersionsInv ==
  /\ request \in Requests /\ available \in Seq(Releases(request.scheme))
  /\ seen \in 0..Len(available)
  /\ seen > 0 /\ Readable(request) =>
       answer = [m \in Modes |-> Enumerate(request, Then, m)]

LEMMA VersionsInvHolds == VersionsSpec => []VersionsInv
<1>1. ASSUME VersionsInit PROVE VersionsInv
  <2>1. request \in Requests /\ available = <<>> /\ seen = 0
    BY <1>1 DEF VersionsInit
  <2>2. available \in Seq(Releases(request.scheme)) /\ Len(available) = 0
    BY <2>1
  <2> QED BY <2>1, <2>2 DEF VersionsInv
<1>2. ASSUME VersionsInv, [VersionsNext]_versionsVars PROVE VersionsInv'
  <2>1. CASE PublishVersion
    <3> DEFINE T == Releases(request.scheme)
    <3>1. PICK v \in T : available' = Append(available, v)
      BY <2>1 DEF PublishVersion
    <3>2. available \in Seq(T) /\ seen \in 0..Len(available)
      BY <1>2 DEF VersionsInv
    <3>3. /\ available' \in Seq(T) /\ seen \in 0..Len(available')
          /\ SubSeq(available', 1, seen) = SubSeq(available, 1, seen)
      <4>1. /\ Append(available, v) \in Seq(T) /\ seen \in 0..Len(Append(available, v))
            /\ \A j \in 1..seen : Append(available, v)[j] = available[j]
        BY <3>2
      <4>2. /\ SubSeq(available, 1, seen) \in Seq(T) /\ Len(SubSeq(available, 1, seen)) = seen
            /\ DOMAIN SubSeq(available, 1, seen) = 1..seen
            /\ \A j \in 1..seen : SubSeq(available, 1, seen)[j] = available[j]
        BY <3>2, PrefixIs
      <4> DEFINE w == Append(available, v)
      <4> HIDE DEF w
      <4>3. w \in Seq(T) /\ seen \in 0..Len(w)
        BY <4>1 DEF w
      <4>4. /\ SubSeq(w, 1, seen) \in Seq(T) /\ Len(SubSeq(w, 1, seen)) = seen
            /\ DOMAIN SubSeq(w, 1, seen) = 1..seen
            /\ \A j \in 1..seen : SubSeq(w, 1, seen)[j] = w[j]
        BY <4>3, PrefixIs
      <4>5. \A j \in 1..seen : SubSeq(w, 1, seen)[j] = SubSeq(available, 1, seen)[j]
        BY <4>1, <4>2, <4>4 DEF w
      <4>6. SubSeq(w, 1, seen) = SubSeq(available, 1, seen)
        BY <4>2, <4>4, <4>5
      <4> QED BY <3>1, <4>1, <4>6 DEF w
    <3>4. request' = request /\ answer' = answer /\ seen' = seen
      BY <2>1 DEF PublishVersion
    <3>5. Then' = Then
      BY <3>3, <3>4 DEF Then
    <3> QED BY <1>2, <3>3, <3>4, <3>5 DEF VersionsInv
  <2>2. CASE Scan
    <3>1. /\ request' = request /\ available' = available /\ seen' = Len(available)
          /\ (Readable(request) =>
                answer' = [m \in Modes |-> Enumerate(request, available, m)])
      BY <2>2 DEF Scan
    <3>2. available \in Seq(Releases(request.scheme)) /\ request \in Requests
      BY <1>2 DEF VersionsInv
    <3>3. Then' = available
      BY <3>1, <3>2 DEF Then
    <3>4. Len(available) \in 0..Len(available)
      BY <3>2
    <3> QED BY <3>1, <3>2, <3>3, <3>4 DEF VersionsInv
  <2>3. CASE UNCHANGED versionsVars
    BY <1>2, <2>3 DEF VersionsInv, versionsVars, Then
  <2> QED BY <1>2, <2>1, <2>2, <2>3 DEF VersionsNext
<1> QED BY <1>1, <1>2, PTL DEF VersionsSpec

LEMMA ThenIs ==
  ASSUME VersionsInv
  PROVE /\ available \in Seq(VersionsOf(request.scheme))
        /\ Then \in Seq(VersionsOf(request.scheme)) /\ Len(Then) = seen
        /\ DOMAIN Then = 1..seen /\ \A j \in 1..seen : Then[j] = available[j]
        /\ Range(Then) \subseteq Releases(request.scheme)
<1> DEFINE T == VersionsOf(request.scheme)
           P == Releases(request.scheme)
<1>1. /\ request \in Requests /\ available \in Seq(P) /\ seen \in 0..Len(available)
  BY DEF VersionsInv
<1>2. P \subseteq T
  BY <1>1, RequestIs
<1> HIDE DEF P, T
<1>3. /\ SubSeq(available, 1, seen) \in Seq(P) /\ Len(SubSeq(available, 1, seen)) = seen
      /\ DOMAIN SubSeq(available, 1, seen) = 1..seen
      /\ \A j \in 1..seen : SubSeq(available, 1, seen)[j] = available[j]
  BY <1>1, PrefixIs
<1>4. Then \in Seq(P) /\ Len(Then) = seen /\ DOMAIN Then = 1..seen
      /\ \A j \in 1..seen : Then[j] = available[j]
  BY <1>3 DEF Then
<1>5. ASSUME NEW s \in Seq(P) PROVE s \in Seq(T) /\ Range(s) \subseteq P
  BY <1>2 DEF Range
<1>6. available \in Seq(T) /\ Then \in Seq(T) /\ Range(Then) \subseteq P
  BY <1>1, <1>4, <1>5
<1> QED BY <1>4, <1>6 DEF P, T

(* A rescan moves what would be installed only to what is new.             *)
THEOREM LatestMovesOnlyToNews == VersionsSpec => WillMovesOnlyToNews
<1> DEFINE Moves == seen' # seen /\ request.scheme # "go" =>
                      Range(answer["latest"]') \subseteq
                        Range(answer["latest"]) \cup Range(SubSeq(available, seen + 1, seen'))
<1>1. ASSUME VersionsInv, [VersionsNext]_versionsVars PROVE Moves
  <2> SUFFICES ASSUME Scan, seen' # seen, request.scheme # "go"
               PROVE Range(answer["latest"]') \subseteq
                       Range(answer["latest"]) \cup Range(SubSeq(available, seen + 1, seen'))
    BY <1>1 DEF VersionsNext, PublishVersion, versionsVars
  <2> DEFINE r == request
             T == VersionsOf(r.scheme)
             n == Len(available)
  <2>1. /\ r \in Requests /\ seen \in 0..n /\ n \in Nat /\ seen' = n /\ seen < n
        /\ answer' = IF Readable(r) THEN [m \in Modes |-> Enumerate(r, available, m)] ELSE Unasked
    <3>1. r \in Requests /\ seen \in 0..n
      BY <1>1 DEF VersionsInv
    <3>2. /\ seen' = n
          /\ answer' = IF Readable(r) THEN [m \in Modes |-> Enumerate(r, available, m)]
                       ELSE Unasked
      BY DEF Scan
    <3>3. available \in Seq(T)
      BY <1>1, ThenIs
    <3>4. n \in Nat
      BY <3>3
    <3> QED BY <3>1, <3>2, <3>4
  <2>2. available \in Seq(T) /\ Then \in Seq(T) /\ Len(Then) = seen
        /\ DOMAIN Then = 1..seen /\ \A j \in 1..seen : Then[j] = available[j]
    BY <1>1, ThenIs
  <2>3. "latest" \in Modes
    BY DEF Modes
  <2>4. ASSUME NEW vs PROVE Enumerate(r, vs, "latest") = FirstN(1, Satisfying(r, vs))
    BY DEF Enumerate
  <2>5. CASE ~Readable(r)
    <3>1. answer["latest"]' = <<>>
      BY <2>1, <2>3, <2>5 DEF Unasked
    <3>2. Range(<<>>) = {}
      BY DEF Range
    <3> QED BY <3>1, <3>2
  <2>6. CASE Readable(r)
    <3>1. answer["latest"]' = FirstN(1, Satisfying(r, available))
      <4>1. answer' = [m \in Modes |-> Enumerate(r, available, m)]
        BY <2>1, <2>6
      <4> QED BY <2>3, <2>4, <4>1
    <3>2. CASE seen = 0
      <4>1. /\ Satisfying(r, available) \in Seq(T)
            /\ Range(Satisfying(r, available)) \subseteq Range(available)
        <5> DEFINE S == Selected(r, available)
                   out == NewestFirst(r, available, S)
        <5>1. S \subseteq DOMAIN available
          BY SelectedIs
        <5> HIDE DEF S
        <5>2. out \in Seq(T) /\ Range(out) = {available[i] : i \in S}
          BY <2>1, <2>2, <5>1, NewestFirstIs
        <5> HIDE DEF out
        <5>3. Satisfying(r, available) = out
          BY DEF Satisfying, out, S
        <5> QED BY <5>1, <5>2, <5>3 DEF Range
      <4> DEFINE s == Satisfying(r, available)
      <4> HIDE DEF s
      <4>2. Range(FirstN(1, s)) = IF s = <<>> THEN {} ELSE {s[1]}
        BY <4>1, FirstOnly DEF s
      <4>3. s # <<>> => s[1] \in Range(s)
        <5>1. s \in Seq(T)
          BY <4>1 DEF s
        <5> QED BY <5>1 DEF Range
      <4>4. SubSeq(available, 1, Len(available)) = available
        <5>1. available \in Seq(T)
          BY <2>2
        <5> HIDE DEF T
        <5> QED BY <5>1
      <4>5. Range(FirstN(1, s)) \subseteq Range(available)
        BY <4>1, <4>2, <4>3 DEF s
      <4>6. seen + 1 = 1 /\ seen' = Len(available)
        BY <2>1, <3>2
      <4>7. SubSeq(available, seen + 1, seen') = available
        BY <4>4, <4>6
      <4>8. answer["latest"]' = FirstN(1, s)
        BY <3>1 DEF s
      <4> QED BY <4>5, <4>7, <4>8
    <3>3. CASE seen # 0
      <4>1. answer["latest"] = FirstN(1, Satisfying(r, Then))
        <5>1. answer = [m \in Modes |-> Enumerate(r, Then, m)]
          BY <1>1, <2>1, <2>6, <3>3 DEF VersionsInv
        <5> QED BY <2>3, <2>4, <5>1
      <4>2. seen \in 1..n
        BY <2>1, <3>3
      <4>3. Range(FirstN(1, Satisfying(r, available))) \subseteq
              Range(FirstN(1, Satisfying(r, Then))) \cup Range(SubSeq(available, seen + 1, n))
        BY <2>1, <2>2, <4>2, LatestMoves
      <4> QED BY <2>1, <3>1, <4>1, <4>3
    <3> QED BY <3>2, <3>3
  <2> QED BY <2>5, <2>6
<1> QED BY <1>1, VersionsInvHolds, PTL DEF VersionsSpec, WillMovesOnlyToNews

-----------------------------------------------------------------------------
(* What is selected is what the reference's policy leaves.                 *)
LEMMA NewerIs ==
  ASSUME NEW r \in Requests, Regular(r), NEW a \in Releases(r.scheme), NEW b \in Releases(r.scheme)
  PROVE Newer(r, a, b) <=> CompareVersions(r, a, b) > 0
<1>1. a \in VersionsOf(r.scheme) /\ b \in VersionsOf(r.scheme)
  BY RequestIs
<1>2. CASE Python(r)
  <2>1. a \in PythonVersions /\ b \in PythonVersions /\ OneSuffix(a) /\ OneSuffix(b)
    BY <1>1, <1>2, RequestIs DEF Regular
  <2>2. Order440(a, b) = ComparePEP440(a, b)
    BY <2>1, PythonOrderIsPep440
  <2> QED BY <1>2, <2>2 DEF Newer, CompareVersions
<1>3. CASE ~Python(r)
  BY <1>3 DEF Newer, CompareVersions, After
<1> QED BY <1>2, <1>3

LEMMA SelectedOf ==
  ASSUME NEW r \in Requests, Readable(r), Regular(r), NEW vs, Range(vs) \subseteq Releases(r.scheme)
  PROVE /\ {vs[i] : i \in Selected(r, vs)} \subseteq Policy(r, {v \in Range(vs) : May(r, v)})
        /\ Policy(r, {v \in Range(vs) : Must(r, v)}) \subseteq {vs[i] : i \in Selected(r, vs)}
<1> DEFINE may == {v \in Range(vs) : May(r, v)}
           must == {v \in Range(vs) : Must(r, v)}
           sel == {vs[i] : i \in Selected(r, vs)}
           ok == {i \in DOMAIN vs : Satisfies(r, vs[i])}
           stable == {i \in ok : ~IsPre(vs[i])}
<1>1. \A i \in DOMAIN vs : vs[i] \in Range(vs) /\ vs[i] \in Releases(r.scheme)
  BY DEF Range
<1>2. \A v \in Range(vs) : \E i \in DOMAIN vs : v = vs[i]
  BY DEF Range
<1>3. \A i \in DOMAIN vs : /\ Must(r, vs[i]) => Satisfies(r, vs[i])
                           /\ Satisfies(r, vs[i]) => May(r, vs[i])
  BY <1>1, AdmittedAsPromised
<1>4. {vs[i] : i \in ok} \subseteq may /\ must \subseteq {vs[i] : i \in ok}
  BY <1>1, <1>2, <1>3
<1> HIDE DEF may, must
<1>5. CASE ~Python(r)
  <2>1. Selected(r, vs) = ok
    BY <1>5 DEF Selected
  <2>2. Policy(r, may) = may /\ Policy(r, must) = must
    BY <1>5 DEF Policy
  <2> HIDE DEF ok
  <2>3. sel = {vs[i] : i \in ok}
    BY <2>1
  <2>4. sel \subseteq Policy(r, may) /\ Policy(r, must) \subseteq sel
    BY <1>4, <2>2, <2>3
  <2> QED BY <2>4 DEF may, must
<1>6. CASE Python(r)
  <2>1. may = must
    <3>1. \A v : May(r, v) = Must(r, v)
      <4>1. r.scheme = "pep440" \/ r.scheme = "poetry"
        BY <1>6, RequestIs
      <4> QED BY <4>1 DEF May
    <3> QED BY <3>1 DEF may, must
  <2>2. may = {vs[i] : i \in ok}
    BY <1>4, <2>1
  <2>3. ASSUME NEW i \in DOMAIN vs PROVE IsPre(vs[i]) <=> Phase(vs[i]) \notin {4, 5}
    <3>1. vs[i] \in PythonVersions /\ OneSuffix(vs[i])
      BY <1>1, <1>6, RequestIs DEF Regular
    <3>2. Phase(vs[i]) \in 0..5 /\ (IsPre(vs[i]) <=> Phase(vs[i]) < 4)
      BY <3>1, PhaseIs
    <3> QED BY <3>2
  <2>4. ok \subseteq DOMAIN vs
    OBVIOUS
  <2>5. Selected(r, vs) = IF MentionsPre(Specs(r)) \/ stable = {} THEN ok ELSE stable
    BY <1>6 DEF Selected, Stable
  <2>6. {v \in may : Phase(v) \in {4, 5}} = {vs[i] : i \in stable}
    <3> HIDE DEF ok
    <3>1. \A i \in ok : Phase(vs[i]) \in {4, 5} <=> ~IsPre(vs[i])
      BY <2>3, <2>4
    <3> QED BY <2>2, <3>1, Zenon
  <2>7. Policy(r, may) = IF {v \in may : Phase(v) \in {4, 5}} = {} \/ MentionsPre(Specs(r))
                         THEN may ELSE {v \in may : Phase(v) \in {4, 5}}
    BY <1>6 DEF Policy
  <2> HIDE DEF ok, stable
  <2>8. {vs[i] : i \in stable} = {} <=> stable = {}
    OBVIOUS
  <2>9. CASE MentionsPre(Specs(r)) \/ stable = {}
    <3>1. Selected(r, vs) = ok /\ Policy(r, may) = may
      BY <2>5, <2>6, <2>7, <2>8, <2>9
    <3>2. sel = may
      BY <2>2, <3>1
    <3> QED BY <2>1, <3>1, <3>2 DEF may, must
  <2>10. CASE ~(MentionsPre(Specs(r)) \/ stable = {})
    <3>1. Selected(r, vs) = stable /\ Policy(r, may) = {vs[i] : i \in stable}
      BY <2>5, <2>6, <2>7, <2>8, <2>10
    <3>2. sel = Policy(r, may)
      BY <3>1
    <3> QED BY <2>1, <3>2 DEF may, must
  <2> QED BY <2>9, <2>10
<1> QED BY <1>5, <1>6

(* The first of a list, up to a bound.                                     *)
LEMMA FirstNIs ==
  ASSUME NEW T, NEW s \in Seq(T), NEW n \in Nat, NEW q, q = FirstN(n, s)
  PROVE /\ q \in Seq(T) /\ Len(q) <= n /\ Len(q) <= Len(s) /\ DOMAIN q = 1..Len(q)
        /\ \A i \in 1..Len(q) : q[i] = s[i]
        /\ Range(q) \subseteq Range(s)
        /\ (Len(q) = n \/ q = s)
        /\ Len(q) \in Nat /\ Len(s) \in Nat
<1> DEFINE k == IF Len(s) < n THEN Len(s) ELSE n
<1>1. k \in 0..Len(s) /\ k <= n /\ (k = n \/ k = Len(s)) /\ Len(s) \in Nat
  OBVIOUS
<1>2. q = SubSeq(s, 1, k)
  BY DEF FirstN
<1> HIDE DEF k
<1>3. /\ SubSeq(s, 1, k) \in Seq(T) /\ Len(SubSeq(s, 1, k)) = k
      /\ DOMAIN SubSeq(s, 1, k) = 1..k /\ \A j \in 1..k : SubSeq(s, 1, k)[j] = s[j]
      /\ 1..k \subseteq DOMAIN s
  BY <1>1, PrefixIs
<1>4. /\ q \in Seq(T) /\ Len(q) = k /\ DOMAIN q = 1..k /\ \A j \in 1..k : q[j] = s[j]
      /\ 1..k \subseteq DOMAIN s
  BY <1>2, <1>3
<1>5. Range(q) \subseteq Range(s)
  BY <1>4 DEF Range
<1>6. k = Len(s) => q = s
  BY <1>2
<1> QED BY <1>1, <1>4, <1>5, <1>6

LEMMA EqualIs ==
  ASSUME NEW r, NEW T, NEW s \in Seq(T), NEW want, NEW q, q = Equal(r, s, want)
  PROVE \/ q = <<>>
        \/ \E w \in Range(s) : q = <<w>> /\ CompareVersions(r, w, want) = 0
<1> DEFINE at == {i \in DOMAIN s : CompareVersions(r, s[i], want) = 0}
<1>1. CASE at = {}
  BY <1>1 DEF Equal
<1>2. CASE at # {}
  <2>1. at \subseteq Nat
    OBVIOUS
  <2>2. Min(at) \in at
    <3> HIDE DEF at
    <3>1. PICK k \in at : \A m \in at : k <= m
      BY <1>2, <2>1, NatMin
    <3> QED BY <3>1 DEF Min
  <2>3. q = <<s[Min(at)]>>
    BY <1>2 DEF Equal
  <2>4. CompareVersions(r, s[Min(at)], want) = 0 /\ Min(at) \in DOMAIN s
    BY <2>2
  <2> HIDE DEF at
  <2> QED BY <2>3, <2>4 DEF Range
<1> QED BY <1>1, <1>2

-----------------------------------------------------------------------------
(* What the code calls exact admits versions that compare as equal.        *)
LEMMA EqualsMk ==
  ASSUME NEW v \in SemVersions, NEW n \in Seq(Nat), NEW p \in Seq(Identifiers), NEW op,
         op \in {"=", "bare"}, Test(Mk(op, n, p), v)
  PROVE v = [nums |-> Pad(n), pre |-> p]
<1>1. CASE op = "="
  BY <1>1, TestIs
<1>2. CASE op = "bare"
  BY <1>2, TestIs
<1> QED BY <1>1, <1>2

LEMMA ExactComparator ==
  ASSUME NEW t \in SemTerms, ParsesNpm(t), NEW c, Desugar(t) = {c}, c.op = "="
  PROVE c = Mk("=", t.nums, t.pre)
<1> DEFINE n == t.nums
<1>1. /\ n \in Seq(Nat) /\ t.op # "!="
      /\ t.op \in {"bare", "=", ">=", ">", "<=", "<", "from", "to", "^", "~", "~>"}
  BY TermIs DEF Ops, ParsesNpm
<1>2. ASSUME NEW m, NEW p, NEW op, op # "=", Mk(op, m, p) \in Desugar(t) PROVE FALSE
  <2>1. Mk(op, m, p) = c
    BY <1>2
  <2>2. Mk(op, m, p).op = op
    BY DEF Mk
  <2> QED BY <1>2, <2>1, <2>2
<1>3. \A m : From(t) \subseteq Desugar(t) \/ Upto(m) \subseteq Desugar(t) => FALSE
  <2>1. \E p : From(t) = {Mk(">=", n, p)}
    BY DEF From
  <2>2. \A m : Upto(m) = {Mk("<", m, <<Number(0)>>)}
    BY DEF Upto
  <2>3. ">=" # "=" /\ "<" # "="
    OBVIOUS
  <2> QED BY <1>2, <2>1, <2>2, <2>3, Zenon
<1>4. CASE t.op \in {"^", "~", "~>"}
  <2>1. n # <<>>
    <3>1. CASE t.op = "^"
      BY <1>4, <3>1 DEF Desugar, CaretNpm
    <3>2. CASE t.op \in {"~", "~>"}
      BY <1>4, <3>2 DEF Desugar, TildeNpm
    <3> QED BY <1>4, <3>1, <3>2
  <2>2. CASE t.op = "^"
    <3>1. Desugar(t) = CaretNpm(t)
      BY <2>2 DEF Desugar
    <3>2. CaretNpm(t) = From(t) \cup Upto(Bump(t.nums, Breaking(t.nums)))
      BY <2>1, CaretNpmIs
    <3> QED BY <1>3, <3>1, <3>2
  <2>3. CASE t.op \in {"~", "~>"}
    <3>1. Desugar(t) = TildeNpm(t)
      BY <2>3 DEF Desugar
    <3>2. TildeNpm(t) = From(t) \cup Upto(TildeUpper(t.nums))
      BY <2>1 DEF TildeNpm
    <3> QED BY <1>3, <3>1, <3>2
  <2> QED BY <1>4, <2>2, <2>3
<1>5. CASE t.op = "from"
  <2>1. Desugar(t) = {} \/ Desugar(t) = From(t)
    BY <1>5 DEF Desugar, HyphenFrom
  <2> QED BY <1>3, <2>1
<1>6. CASE t.op = "to"
  <2>1. Desugar(t) = HyphenTo(t)
    BY <1>6 DEF Desugar
  <2>2. \/ HyphenTo(t) = {} \/ HyphenTo(t) = Upto(Bump(t.nums, Len(t.nums)))
        \/ HyphenTo(t) = {Mk("<=", t.nums, t.pre)}
    BY DEF HyphenTo
  <2>3. "<=" # "="
    OBVIOUS
  <2>4. HyphenTo(t) # {Mk("<=", t.nums, t.pre)}
    <3> SUFFICES ASSUME HyphenTo(t) = {Mk("<=", t.nums, t.pre)} PROVE FALSE
      OBVIOUS
    <3>1. Mk("<=", t.nums, t.pre) \in Desugar(t)
      BY <2>1
    <3> QED BY <1>2, <2>3, <3>1
  <2> QED BY <1>3, <2>1, <2>2, <2>4
<1>7. CASE t.op \in {"bare", "=", ">=", ">", "<=", "<"}
  <2>1. Desugar(t) = XRange(t)
    BY <1>7 DEF Desugar
  <2>2. CASE n = <<>>
    <3>1. XRange(t) = {} \/ XRange(t) = NoneComp
      BY <2>2 DEF XRange
    <3>2. NoneComp = Upto(<<0, 0, 0>>)
      BY DEF NoneComp, Upto
    <3> QED BY <1>3, <2>1, <3>1, <3>2
  <2>3. CASE n # <<>> /\ Len(n) < 3
    <3> DEFINE next == Bump(n, Len(n))
    <3>1. CASE t.op = ">" \/ t.op = ">="
      <4>1. \E m : XRange(t) = {Mk(">=", m, <<>>)}
        BY <2>3, <3>1 DEF XRange
      <4>2. PICK m : XRange(t) = {Mk(">=", m, <<>>)}
        BY <4>1
      <4>3. Mk(">=", m, <<>>) \in Desugar(t) /\ ">=" # "="
        BY <2>1, <4>2
      <4> QED BY <1>2, <4>3
    <3>2. CASE t.op = "<" \/ t.op = "<="
      <4>1. \E m : XRange(t) = Upto(m)
        BY <2>3, <3>2 DEF XRange
      <4> QED BY <1>3, <2>1, <4>1
    <3>3. CASE t.op = "bare" \/ t.op = "="
      <4>1. XRange(t) = From(t) \cup Upto(next)
        BY <2>3, <3>3 DEF XRange
      <4> QED BY <1>3, <2>1, <4>1
    <3> QED BY <1>7, <3>1, <3>2, <3>3
  <2>4. CASE n # <<>> /\ ~(Len(n) < 3)
    <3> DEFINE op == IF t.op = "bare" THEN "=" ELSE t.op
    <3>1. XRange(t) = {Mk(op, n, t.pre)}
      BY <2>4 DEF XRange
    <3> HIDE DEF op
    <3>2. Mk(op, n, t.pre) \in Desugar(t)
      BY <2>1, <3>1
    <3>3. op = "="
      BY <1>2, <3>2
    <3> QED BY <2>1, <3>1, <3>3
  <2> QED BY <2>2, <2>3, <2>4
<1> QED BY <1>1, <1>4, <1>5, <1>6, <1>7

LEMMA ExactSemver ==
  ASSUME NEW r \in Requests, ~Python(r), r.scheme # "go", Readable(r), IsExact(r),
         NEW a \in SemVersions, NEW b \in SemVersions, Satisfies(r, a), Satisfies(r, b)
  PROVE a = b
<1>1. Terms(r) \subseteq SemTerms /\ r.scheme \in {"npm", "cargo", "terraform"}
  BY RequestIs
<1>2. CASE r.scheme = "npm"
  <2>1. IsExact(r) = IsExactNpm(r.constraint)
    BY <1>2 DEF IsExact
  <2>2. PICK t \in UNION r.constraint :
          r.constraint = {{t}} /\ \E c \in Desugar(t) : Desugar(t) = {c} /\ c.op = "="
    BY <2>1 DEF IsExactNpm
  <2>3. PICK c : Desugar(t) = {c} /\ c.op = "="
    BY <2>2
  <2>4. t \in SemTerms /\ ParsesNpm(t)
    BY <1>1, <1>2 DEF Readable, Terms
  <2>5. c = Mk("=", t.nums, t.pre)
    BY <2>3, <2>4, ExactComparator
  <2>6. ASSUME NEW v \in SemVersions, Satisfies(r, v) PROVE Test(c, v)
    <3>1. SatisfiesNpm(v, r.constraint)
      BY <1>2, <2>6 DEF Satisfies
    <3>2. ComparatorSet({t}) = {c}
      BY <2>3 DEF ComparatorSet
    <3>3. \A alt \in r.constraint : alt = {t}
      BY <2>2
    <3>4. \E alt \in r.constraint : TestSet(ComparatorSet(alt), v)
      BY <3>1, Zenon DEF SatisfiesNpm, ParseRange
    <3>5. TestSet({c}, v)
      BY <3>2, <3>3, <3>4, Zenon
    <3> QED BY <3>5 DEF TestSet
  <2>7. t.nums \in Seq(Nat) /\ t.pre \in Seq(Identifiers)
    BY <2>4, TermIs
  <2>8. a = [nums |-> Pad(t.nums), pre |-> t.pre] /\ b = [nums |-> Pad(t.nums), pre |-> t.pre]
    BY <2>5, <2>6, <2>7, EqualsMk
  <2> QED BY <2>8
<1>3. CASE r.scheme = "cargo"
  <2>1. IsExact(r) = IsExactCargo(Terms(r))
    BY <1>3 DEF IsExact
  <2>2. PICK t \in Terms(r) : Terms(r) = {t} /\ t.op = "=" /\ t.nums # <<>>
    BY <2>1 DEF IsExactCargo
  <2>3. t \in SemTerms
    BY <1>1
  <2>4. CargoBounds(t) = {Mk("=", t.nums, t.pre)}
    BY <2>2 DEF CargoBounds
  <2>5. ASSUME NEW v \in SemVersions, Satisfies(r, v) PROVE Test(Mk("=", t.nums, t.pre), v)
    <3>1. SatisfiesCargo(v, Terms(r))
      BY <1>3, <2>5 DEF Satisfies
    <3>2. Mk("=", t.nums, t.pre) \in UNION {CargoBounds(x) : x \in Terms(r)}
      BY <2>4, Zenon
    <3> QED BY <3>1, <3>2, Zenon DEF SatisfiesCargo
  <2>6. t.nums \in Seq(Nat) /\ t.pre \in Seq(Identifiers)
    BY <2>3, TermIs
  <2>7. a = [nums |-> Pad(t.nums), pre |-> t.pre] /\ b = [nums |-> Pad(t.nums), pre |-> t.pre]
    BY <2>5, <2>6, EqualsMk
  <2> QED BY <2>7
<1>4. CASE r.scheme = "terraform"
  <2>1. IsExact(r) = IsExactTerraform(Terms(r))
    BY <1>4 DEF IsExact
  <2>2. PICK t \in Terms(r) : Terms(r) = {t} /\ t.op \in {"bare", "="}
    BY <2>1 DEF IsExactTerraform
  <2>3. t \in SemTerms
    BY <1>1
  <2>4. ASSUME NEW v \in SemVersions, Satisfies(r, v) PROVE Test(Mk(t.op, t.nums, t.pre), v)
    <3>1. SatisfiesTerraform(v, Terms(r))
      BY <1>4, <2>4 DEF Satisfies
    <3>2. MatchesTerraform(t, v)
      BY <3>1 DEF SatisfiesTerraform
    <3>3. t.op # "~>"
      BY <2>2
    <3> QED BY <3>2, <3>3 DEF MatchesTerraform
  <2>5. t.nums \in Seq(Nat) /\ t.pre \in Seq(Identifiers)
    BY <2>3, TermIs
  <2>6. a = [nums |-> Pad(t.nums), pre |-> t.pre] /\ b = [nums |-> Pad(t.nums), pre |-> t.pre]
    BY <2>2, <2>4, <2>5, EqualsMk
  <2> QED BY <2>6
<1> QED BY <1>1, <1>2, <1>3, <1>4

LEMMA PinIs ==
  ASSUME NEW r \in Requests, Python(r), NEW s \in Specs(r), s.op = "=="
  PROVE s.v \in PythonVersions
<1>1. CASE r.scheme = "pep440"
  <2>1. s \in Specs440
    BY <1>1, RequestIs
  <2>2. s.op # "==="
    OBVIOUS
  <2> QED BY <2>1, <2>2, SpecIs
<1>2. CASE r.scheme = "poetry"
  <2>1. PICK t \in Terms(r) : s \in TranslateTerm(t)
    <3>1. Specs(r) = Translate(Terms(r))
      BY <1>2, RequestIs
    <3> QED BY <3>1, Zenon DEF Translate
  <2>2. t \in PoetryTerms
    BY <1>2, RequestIs
  <2>3. t.nums # <<>>
    <3>1. t.nums = <<>> => TranslateTerm(t) = {}
      BY Zenon DEF TranslateTerm
    <3> QED BY <2>1, <3>1
  <2>4. /\ t.op \in Ops440 \cup {"bare", "=", "^", "~"} /\ ParsePEP440(Lower(t)) \in PythonVersions
    BY <2>2, <2>3, LowerIs
  <2>5. ASSUME NEW upper PROVE s \notin Span(t, upper)
    BY DEF Span, Spec440
  <2>6. s.v = ParsePEP440(Lower(t))
    <3>1. CASE t.op = "^"
      <4>1. TranslateTerm(t) = Span(t, CaretUpper(Truncated(t.nums)))
        BY <2>3, <3>1 DEF TranslateTerm
      <4> QED BY <2>1, <2>5, <4>1
    <3>2. CASE t.op = "~" \/ (t.op = "bare" /\ t.stars)
      <4>1. TranslateTerm(t) = Span(t, TildeUpper(t.nums))
        BY <2>3, <3>2 DEF TranslateTerm
      <4> QED BY <2>1, <2>5, <4>1
    <3>3. CASE t.op = "bare" /\ ~t.stars
      <4>1. TranslateTerm(t) = {Spec440("==", ParsePEP440(Lower(t)), FALSE)}
        BY <2>3, <3>3 DEF TranslateTerm
      <4> QED BY <2>1, <4>1 DEF Spec440
    <3>4. CASE t.op \in {"=", "==="}
      <4>1. TranslateTerm(t) = {Spec440("===", Lower(t), t.stars)}
        BY <2>3, <3>4 DEF TranslateTerm
      <4> QED BY <2>1, <4>1 DEF Spec440
    <3>5. CASE t.op \in Ops440 \ {"==="}
      <4>1. TranslateTerm(t) = {Spec440(t.op, ParsePEP440(Lower(t)), t.stars)}
        BY <2>3, <3>5 DEF TranslateTerm, Ops440
      <4> QED BY <2>1, <4>1 DEF Spec440
    <3> QED BY <2>4, <3>1, <3>2, <3>3, <3>4, <3>5
  <2> QED BY <2>4, <2>6
<1> QED BY <1>1, <1>2, RequestIs

LEMMA ExactPython ==
  ASSUME NEW r \in Requests, Python(r), IsExact(r),
         NEW a \in PythonVersions, NEW b \in PythonVersions, Satisfies(r, a), Satisfies(r, b)
  PROVE ComparePEP440(a, b) = 0
<1>1. r.scheme = "pep440" \/ r.scheme = "poetry"
  BY RequestIs
<1>2. IsExact(r) = IsExact440(Specs(r))
  BY <1>1 DEF IsExact
<1>3. \A s \in Specs(r) : Test440(s, a) /\ Test440(s, b)
  <2>1. Satisfies(r, a) = Satisfies440(a, Specs(r)) /\ Satisfies(r, b) = Satisfies440(b, Specs(r))
    BY <1>1 DEF Satisfies
  <2> QED BY <2>1 DEF Satisfies440
<1>4. PICK s \in Specs(r) : (s.op = "==" /\ ~s.wildcard) \/ s.op = "==="
  BY <1>2 DEF IsExact440, Exactly
<1>5. CASE s.op = "==" /\ ~s.wildcard
  <2>1. s.v \in PythonVersions
    BY <1>5, PinIs
  <2> DEFINE w == s.v
  <2>2. ComparePEP440(a, w) = 0 /\ ComparePEP440(b, w) = 0
    <3>1. \A v : Test440(s, v) <=> ComparePEP440(v, w) = 0
      BY <1>5 DEF Test440
    <3> QED BY <1>3, <3>1
  <2> HIDE DEF w
  <2>3. w \in PythonVersions
    BY <2>1 DEF w
  <2>4. ComparePEP440(w, b) = 0 - ComparePEP440(b, w)
    BY <2>3, PythonOrder
  <2>5. Chains(ComparePEP440(a, w), ComparePEP440(w, b), ComparePEP440(a, b))
    BY <2>3, PythonChains
  <2> QED BY <2>2, <2>4, <2>5 DEF Chains
<1>6. CASE s.op = "==="
  <2>1. a = s.v /\ b = s.v
    <3>1. \A v : Test440(s, v) => v = s.v
      BY <1>6 DEF Test440
    <3> QED BY <1>3, <3>1
  <2>2. ComparePEP440(a, a) \in Signs /\ ComparePEP440(a, a) = 0 - ComparePEP440(a, a)
    BY PythonOrder
  <2> QED BY <2>1, <2>2 DEF Signs
<1> QED BY <1>4, <1>5, <1>6

LEMMA ExactIs ==
  ASSUME NEW r \in Requests, r.scheme # "go", Readable(r), IsExact(r),
         NEW a \in VersionsOf(r.scheme), NEW b \in VersionsOf(r.scheme),
         Satisfies(r, a), Satisfies(r, b)
  PROVE CompareVersions(r, a, b) = 0
<1>1. CASE Python(r)
  <2>1. a \in PythonVersions /\ b \in PythonVersions
    BY <1>1, RequestIs
  <2> QED BY <1>1, <2>1, ExactPython DEF CompareVersions
<1>2. CASE ~Python(r)
  <2>1. a \in SemVersions /\ b \in SemVersions
    BY <1>2, RequestIs
  <2>2. a = b
    BY <1>2, <2>1, ExactSemver
  <2>3. Compare(a, a) = 0
    BY <2>1, SemOrder
  <2> QED BY <1>2, <2>2, <2>3 DEF CompareVersions
<1> QED BY <1>1, <1>2

-----------------------------------------------------------------------------
(* What a scan answers.                                                    *)
LEMMA SatisfyingIs ==
  ASSUME NEW r \in Requests, NEW vs \in Seq(VersionsOf(r.scheme))
  PROVE /\ Satisfying(r, vs) \in Seq(VersionsOf(r.scheme))
        /\ Range(Satisfying(r, vs)) = {vs[i] : i \in Selected(r, vs)}
        /\ \A k, l \in DOMAIN Satisfying(r, vs) :
             k < l => CompareVersions(r, Satisfying(r, vs)[k], Satisfying(r, vs)[l]) >= 0
        /\ Range(Satisfying(r, vs)) \subseteq Range(vs)
        /\ \A v \in Range(Satisfying(r, vs)) : Satisfies(r, v)
<1> DEFINE S == Selected(r, vs)
           out == NewestFirst(r, vs, S)
<1>1. S \subseteq DOMAIN vs /\ \A i \in S : Satisfies(r, vs[i])
  BY SelectedIs
<1>2. Satisfying(r, vs) = out
  BY DEF Satisfying
<1> HIDE DEF S
<1>3. /\ out \in Seq(VersionsOf(r.scheme)) /\ Range(out) = {vs[i] : i \in S}
      /\ \A k, l \in DOMAIN out : k < l => CompareVersions(r, out[k], out[l]) >= 0
  BY <1>1, NewestFirstIs
<1> HIDE DEF out
<1>4. Range(out) \subseteq Range(vs) /\ \A v \in Range(out) : Satisfies(r, v)
  BY <1>1, <1>3 DEF Range
<1> QED BY <1>2, <1>3, <1>4 DEF S

LEMMA SatisfyingOf ==
  ASSUME NEW r \in Requests, Readable(r), Regular(r), NEW vs \in Seq(VersionsOf(r.scheme)),
         Range(vs) \subseteq Releases(r.scheme)
  PROVE /\ Range(Satisfying(r, vs)) \subseteq Policy(r, {v \in Range(vs) : May(r, v)})
        /\ Policy(r, {v \in Range(vs) : Must(r, v)}) \subseteq Range(Satisfying(r, vs))
<1>1. Range(Satisfying(r, vs)) = {vs[i] : i \in Selected(r, vs)}
  BY SatisfyingIs
<1>2. /\ {vs[i] : i \in Selected(r, vs)} \subseteq Policy(r, {v \in Range(vs) : May(r, v)})
      /\ Policy(r, {v \in Range(vs) : Must(r, v)}) \subseteq {vs[i] : i \in Selected(r, vs)}
  BY SelectedOf
<1> QED BY <1>1, <1>2

LEMMA AnswerIs ==
  ASSUME NEW r, NEW vs
  PROVE /\ Enumerate(r, vs, "all") = FirstN(MaxVersionsPerRange, Satisfying(r, vs))
        /\ (r.scheme # "go" => Enumerate(r, vs, "latest") = FirstN(1, Satisfying(r, vs)))
        /\ (r.scheme # "go" =>
              \/ Enumerate(r, vs, "pinned") = FirstN(1, Satisfying(r, vs))
              \/ Enumerate(r, vs, "pinned") = Equal(r, Satisfying(r, vs), Pin(r)))
        /\ (r.scheme = "go" => \A mode \in {"latest", "pinned"} :
              \/ Enumerate(r, vs, mode) = <<Bound(CHOOSE t \in Terms(r) : TRUE)>>
              \/ /\ Enumerate(r, vs, mode) =
                      Equal(r, Satisfying(r, vs), Bound(CHOOSE t \in Terms(r) : TRUE))
                 /\ Enumerate(r, vs, mode) # <<>>)
<1> DEFINE bound == Bound(CHOOSE t \in Terms(r) : TRUE)
           out == Satisfying(r, vs)
<1>1. CASE r.scheme = "go"
  <2>1. \A mode : Enumerate(r, vs, mode) = GoEnumerate(r, vs, mode)
    BY <1>1 DEF Enumerate
  <2> HIDE DEF bound, out
  <2>2. GoEnumerate(r, vs, "all") = FirstN(MaxVersionsPerRange, out)
    BY DEF GoEnumerate, out
  <2>3. ASSUME NEW mode \in {"latest", "pinned"}
        PROVE GoEnumerate(r, vs, mode) =
                IF Equal(r, out, bound) # <<>> THEN Equal(r, out, bound) ELSE <<bound>>
    BY DEF GoEnumerate, out, bound
  <2> QED BY <1>1, <2>1, <2>2, <2>3 DEF out, bound
<1>2. CASE r.scheme # "go"
  <2>1. Enumerate(r, vs, "all") = FirstN(MaxVersionsPerRange, Satisfying(r, vs))
    BY <1>2 DEF Enumerate
  <2>2. Enumerate(r, vs, "latest") = FirstN(1, Satisfying(r, vs))
    BY <1>2 DEF Enumerate
  <2>3. \/ Enumerate(r, vs, "pinned") = FirstN(1, Satisfying(r, vs))
        \/ Enumerate(r, vs, "pinned") = Equal(r, Satisfying(r, vs), Pin(r))
    BY <1>2 DEF Enumerate
  <2> QED BY <1>2, <2>1, <2>2, <2>3
<1> QED BY <1>1, <1>2

(* Go selects the requirement, listed or not.                              *)
LEMMA GoSelects ==
  ASSUME NEW r \in Requests, r.scheme = "go", Readable(r), NEW vs \in Seq(VersionsOf(r.scheme)),
         NEW mode \in {"latest", "pinned"}
  PROVE Enumerate(r, vs, mode) = <<Bound(CHOOSE t \in Terms(r) : TRUE)>>
<1> DEFINE term == CHOOSE t \in Terms(r) : TRUE
           bound == Bound(term)
           out == Satisfying(r, vs)
<1>1. \/ Enumerate(r, vs, mode) = <<bound>>
      \/ Enumerate(r, vs, mode) = Equal(r, out, bound) /\ Enumerate(r, vs, mode) # <<>>
  BY AnswerIs
<1>2. /\ out \in Seq(VersionsOf(r.scheme)) /\ Range(out) \subseteq Range(vs)
      /\ \A v \in Range(out) : Satisfies(r, v)
  BY SatisfyingIs
<1>3. ~Python(r) /\ VersionsOf(r.scheme) = SemVersions /\ Terms(r) \subseteq SemTerms
  <2>1. ~Python(r)
    BY DEF Python
  <2> QED BY <2>1, RequestIs
<1> HIDE DEF term, bound, out
<1>4. ASSUME NEW w \in Range(out), Equal(r, out, bound) = <<w>>, CompareVersions(r, w, bound) = 0
      PROVE w = bound
  <2>1. \E t \in Terms(r) : SatisfiesGo(w, t)
    BY <1>2, <1>4 DEF Satisfies
  <2>2. term \in Terms(r)
    BY <2>1 DEF term
  <2>3. term \in SemTerms /\ ParsesGo(term)
    BY <1>3, <2>2 DEF Readable
  <2>4. w \in SemVersions
    BY <1>2, <1>3, <1>4 DEF Range
  <2>5. bound \in SemVersions
    BY <2>3, <2>4, GoIs DEF bound
  <2>6. Compare(w, bound) = 0
    BY <1>3, <1>4 DEF CompareVersions
  <2> QED BY <2>4, <2>5, <2>6, CompareSplits
<1>5. Equal(r, out, bound) = <<>> \/
      \E w \in Range(out) : Equal(r, out, bound) = <<w>> /\ CompareVersions(r, w, bound) = 0
  BY <1>2, EqualIs
<1>6. Enumerate(r, vs, mode) = <<bound>>
  BY <1>1, <1>4, <1>5
<1> QED BY <1>6 DEF bound, term

LEMMA PinnedIs ==
  ASSUME NEW r \in Requests, NEW vs \in Seq(VersionsOf(r.scheme)), r.scheme # "go"
  PROVE /\ Len(Enumerate(r, vs, "pinned")) <= 1
        /\ Range(Enumerate(r, vs, "pinned")) \subseteq Range(Satisfying(r, vs))
<1> DEFINE out == Satisfying(r, vs)
           pin == Pin(r)
           q == Equal(r, out, pin)
           f == FirstN(1, out)
<1>1. out \in Seq(VersionsOf(r.scheme))
  BY SatisfyingIs
<1>2. Enumerate(r, vs, "pinned") = f \/ Enumerate(r, vs, "pinned") = q
  BY AnswerIs
<1> HIDE DEF out, pin
<1>3. Len(f) <= 1 /\ Range(f) \subseteq Range(out)
  BY <1>1, FirstNIs
<1>4. q = <<>> \/ \E w \in Range(out) : q = <<w>> /\ CompareVersions(r, w, pin) = 0
  BY <1>1, EqualIs
<1> HIDE DEF q, f
<1>5. Len(q) <= 1 /\ Range(q) \subseteq Range(out)
  <2>1. CASE q = <<>>
    <3>1. Range(<<>>) = {} /\ Len(<<>>) = 0
      BY DEF Range
    <3> QED BY <2>1, <3>1
  <2>2. ASSUME NEW w \in Range(out), q = <<w>> PROVE Len(q) <= 1 /\ Range(q) \subseteq Range(out)
    <3>1. Range(<<w>>) = {w} /\ Len(<<w>>) = 1
      BY DEF Range
    <3> QED BY <2>2, <3>1
  <2> QED BY <1>4, <2>1, <2>2
<1> QED BY <1>2, <1>3, <1>5 DEF out

(* What a scan enumerates is what its constraint promises: no version that *)
(* it may not admit, every version that it must up to the policy's bound,  *)
(* newest first, and the newest or the pin where one is installed.  The    *)
(* constraint can be read, and is none of those that Regular leaves out.   *)
THEOREM CandidatesHold == VersionsSpec => []CandidatesAreRight
<1>1. ASSUME VersionsInv PROVE CandidatesAreRight
  <2> DEFINE r == request
             T == VersionsOf(r.scheme)
             must == Policy(r, {v \in Published : Must(r, v)})
             may == Policy(r, {v \in Published : May(r, v)})
             all == answer["all"]
             out == Satisfying(r, Then)
  <2> SUFFICES ASSUME Readable(r), Regular(r), seen > 0
      PROVE /\ Range(all) \subseteq may /\ Len(all) <= MaxVersionsPerRange
            /\ \A v \in must \ Range(all) :
                 Len(all) = MaxVersionsPerRange /\ \A w \in Range(all) : ~Newer(r, v, w)
            /\ \A i, j \in DOMAIN all : i < j => ~Newer(r, all[j], all[i])
            /\ IF r.scheme = "go"
               THEN answer["latest"] = <<Bound(CHOOSE t \in Terms(r) : TRUE)>>
               ELSE answer["latest"] = FirstN(1, all)
            /\ Len(answer["pinned"]) <= 1
            /\ r.scheme # "go" => Range(answer["pinned"]) \subseteq may
            /\ IsExact(r) /\ r.scheme # "go" =>
                 \A i, j \in DOMAIN all : ~Newer(r, all[i], all[j])
    BY Zenon DEF CandidatesAreRight
  <2>1. /\ r \in Requests /\ answer = [m \in Modes |-> Enumerate(r, Then, m)]
        /\ Then \in Seq(T) /\ Range(Then) \subseteq Releases(r.scheme) /\ Published = Range(Then)
    BY <1>1, ThenIs DEF VersionsInv, Published, Then
  <2>2. /\ all = Enumerate(r, Then, "all") /\ answer["latest"] = Enumerate(r, Then, "latest")
        /\ answer["pinned"] = Enumerate(r, Then, "pinned")
    BY <2>1 DEF Modes
  <2>3. all = FirstN(MaxVersionsPerRange, out)
    BY <2>2, AnswerIs
  <2>4. /\ out \in Seq(T) /\ Range(out) = {Then[i] : i \in Selected(r, Then)}
        /\ \A k, l \in DOMAIN out : k < l => CompareVersions(r, out[k], out[l]) >= 0
        /\ Range(out) \subseteq Range(Then) /\ \A v \in Range(out) : Satisfies(r, v)
    BY <2>1, SatisfyingIs
  <2>5. Range(out) \subseteq may /\ must \subseteq Range(out)
    <3>1. /\ Range(Satisfying(r, Then)) \subseteq Policy(r, {v \in Range(Then) : May(r, v)})
          /\ Policy(r, {v \in Range(Then) : Must(r, v)}) \subseteq Range(Satisfying(r, Then))
      BY <2>1, SatisfyingOf
    <3> QED BY <2>1, <3>1
  <2> HIDE DEF must, may, all, out
  <2>6. MaxVersionsPerRange \in Nat /\ MaxVersionsPerRange >= 1
    BY VersionsAssumption
  <2>7. /\ all \in Seq(T) /\ Len(all) <= MaxVersionsPerRange /\ Len(all) <= Len(out)
        /\ DOMAIN all = 1..Len(all) /\ \A i \in 1..Len(all) : all[i] = out[i]
        /\ Range(all) \subseteq Range(out) /\ (Len(all) = MaxVersionsPerRange \/ all = out)
        /\ Len(all) \in Nat /\ Len(out) \in Nat
    BY <2>3, <2>4, <2>6, FirstNIs
  <2>8. DOMAIN out = 1..Len(out)
    BY <2>4
  <2>9. \A i \in DOMAIN out : out[i] \in Range(out) /\ out[i] \in Releases(r.scheme) /\ out[i] \in T
    BY <2>1, <2>4, <2>8 DEF Range
  <2>10. \A i, j \in DOMAIN out : i < j => ~Newer(r, out[j], out[i])
    <3> SUFFICES ASSUME NEW i \in DOMAIN out, NEW j \in DOMAIN out, i < j
                 PROVE ~Newer(r, out[j], out[i])
      OBVIOUS
    <3> DEFINE a == out[i]
               b == out[j]
    <3>1. CompareVersions(r, a, b) >= 0
      BY <2>4
    <3>2. a \in Releases(r.scheme) /\ b \in Releases(r.scheme) /\ a \in T /\ b \in T
      BY <2>9
    <3> HIDE DEF a, b
    <3>3. /\ CompareVersions(r, b, a) = 0 - CompareVersions(r, a, b)
          /\ CompareVersions(r, a, b) \in Signs
      BY <2>1, <3>2, VersionsAreOrdered
    <3>4. Newer(r, b, a) <=> CompareVersions(r, b, a) > 0
      BY <2>1, <3>2, NewerIs
    <3>5. ~Newer(r, b, a)
      BY <3>1, <3>3, <3>4 DEF Signs
    <3> QED BY <3>5 DEF a, b
  <2>11. \A i, j \in DOMAIN all : i < j => ~Newer(r, all[j], all[i])
    <3>1. \A i \in DOMAIN all : i \in DOMAIN out /\ all[i] = out[i]
      BY <2>7, <2>8
    <3> QED BY <2>10, <3>1
  <2>12. ASSUME NEW v \in must \ Range(all)
         PROVE Len(all) = MaxVersionsPerRange /\ \A w \in Range(all) : ~Newer(r, v, w)
    <3>1. v \in Range(out) /\ v \notin Range(all)
      BY <2>5, <2>12
    <3>2. Len(all) = MaxVersionsPerRange
      BY <2>7, <3>1
    <3>3. PICK k \in DOMAIN out : v = out[k]
      BY <3>1 DEF Range
    <3>4. ASSUME NEW i \in DOMAIN all PROVE i < k
      <4>1. k \notin DOMAIN all
        BY <2>7, <3>1, <3>3 DEF Range
      <4>2. i \in Nat /\ k \in Nat /\ i <= Len(all) /\ ~(k <= Len(all)) /\ Len(all) \in Nat
        BY <2>7, <2>8, <4>1
      <4> QED BY <4>2
    <3>5. \A i \in DOMAIN all : ~Newer(r, v, all[i])
      <4>1. \A i \in DOMAIN all : i \in DOMAIN out /\ all[i] = out[i]
        BY <2>7, <2>8
      <4> QED BY <2>10, <3>3, <3>4, <4>1
    <3> QED BY <3>2, <3>5 DEF Range
  <2>13. r.scheme # "go" => answer["latest"] = FirstN(1, all)
    <3>1. r.scheme # "go" => answer["latest"] = FirstN(1, out)
      BY <2>2, AnswerIs DEF out
    <3>2. FirstN(1, all) = FirstN(1, out)
      <4>1. /\ FirstN(1, out) = IF out = <<>> THEN <<>> ELSE <<out[1]>>
            /\ FirstN(1, all) = IF all = <<>> THEN <<>> ELSE <<all[1]>>
        BY <2>4, <2>7, FirstOnly
      <4>2. (all = <<>> <=> out = <<>>) /\ (all # <<>> => all[1] = out[1])
        <5>1. all = <<>> => out = <<>>
          <6>1. all = <<>> => Len(all) = 0
            OBVIOUS
          <6> QED BY <2>6, <2>7, <6>1
        <5>2. all # <<>> => 1 \in 1..Len(all)
          BY <2>7
        <5>3. out = <<>> => all = <<>>
          <6>1. out = <<>> => Len(out) = 0
            OBVIOUS
          <6> QED BY <2>7, <6>1
        <5> QED BY <2>7, <5>1, <5>2, <5>3
      <4> QED BY <4>1, <4>2
    <3> QED BY <3>1, <3>2
  <2>14. r.scheme = "go" =>
           /\ answer["latest"] = <<Bound(CHOOSE t \in Terms(r) : TRUE)>>
           /\ answer["pinned"] = <<Bound(CHOOSE t \in Terms(r) : TRUE)>>
    BY <2>1, <2>2, GoSelects
  <2>15. /\ Len(answer["pinned"]) <= 1
         /\ (r.scheme # "go" => Range(answer["pinned"]) \subseteq may)
    <3>1. CASE r.scheme = "go"
      <4> DEFINE b == Bound(CHOOSE t \in Terms(r) : TRUE)
      <4>1. answer["pinned"] = <<b>>
        BY <2>14, <3>1
      <4> HIDE DEF b
      <4>2. Len(<<b>>) = 1
        OBVIOUS
      <4>3. Len(answer["pinned"]) <= 1
        BY <4>1, <4>2
      <4> QED BY <3>1, <4>3
    <3>2. CASE r.scheme # "go"
      <4>1. /\ Len(Enumerate(r, Then, "pinned")) <= 1
            /\ Range(Enumerate(r, Then, "pinned")) \subseteq Range(out)
        BY <2>1, <3>2, PinnedIs DEF out
      <4> QED BY <2>2, <2>5, <4>1
    <3> QED BY <3>1, <3>2
  <2>16. ASSUME IsExact(r), r.scheme # "go"
         PROVE \A i, j \in DOMAIN all : ~Newer(r, all[i], all[j])
    <3> SUFFICES ASSUME NEW i \in DOMAIN all, NEW j \in DOMAIN all
                 PROVE ~Newer(r, all[i], all[j])
      OBVIOUS
    <3> DEFINE a == all[i]
               b == all[j]
    <3>1. a = out[i] /\ b = out[j] /\ i \in DOMAIN out /\ j \in DOMAIN out
      BY <2>7, <2>8
    <3> HIDE DEF a, b
    <3>2. /\ a \in Releases(r.scheme) /\ b \in Releases(r.scheme) /\ a \in T /\ b \in T
          /\ Satisfies(r, a) /\ Satisfies(r, b)
      BY <2>4, <2>9, <3>1
    <3>3. CompareVersions(r, a, b) = 0
      BY <2>1, <2>16, <3>2, ExactIs
    <3>4. Newer(r, a, b) <=> CompareVersions(r, a, b) > 0
      BY <2>1, <3>2, NewerIs
    <3> QED BY <3>3, <3>4 DEF a, b
  <2>17. Range(all) \subseteq may /\ Len(all) <= MaxVersionsPerRange
    BY <2>5, <2>7
  <2>18. IF r.scheme = "go" THEN answer["latest"] = <<Bound(CHOOSE t \in Terms(r) : TRUE)>>
         ELSE answer["latest"] = FirstN(1, all)
    BY <2>13, <2>14
  <2> QED BY <2>11, <2>12, <2>15, <2>16, <2>17, <2>18
<1> QED BY <1>1, VersionsInvHolds, PTL
==============================================================================
