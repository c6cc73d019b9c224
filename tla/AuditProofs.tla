----------------------------- MODULE AuditProofs -----------------------------
(***************************************************************************)
(* What an audit can be trusted for, whatever OSV and deps.dev have on     *)
(* record, however their answers are cut and ordered, whichever of them    *)
(* fail, and whenever another process deletes the run.                     *)
(***************************************************************************)
EXTENDS Audit, FiniteSetTheorems

Records == {Record[id] : id \in Id}

-----------------------------------------------------------------------------
(* Advisories: what is filed, and what dedupe leaves.                      *)

(* The query of a node is answered with what is about it.                  *)
LEMMA ServedIsAbout == \A n \in Node : Served(QueryFor(n)) = About[n]
<1> SUFFICES ASSUME NEW n \in Node
             PROVE  \A f \in Filed :
                      LET q == QueryFor(n) IN
                      (/\ f.ecosystem = q.ecosystem /\ f.name = q.name
                       /\ q.version = <<>> \/ q.version \in f.versions) <=> FiledFor(f, n)
  BY FilingAssumption DEF Served
<1>1. IsAction(n) => n.type = "github" BY DEF IsAction
<1>2. IsProvider(n) => n.type = "terraform" BY DEF IsProvider
<1>3. CASE IsAction(n)
  BY <1>1, <1>2, <1>3 DEF QueryFor, FiledFor, ActionName
<1>4. CASE IsProvider(n)
  BY <1>1, <1>2, <1>4 DEF QueryFor, FiledFor, TerraformProviderPURL, GoModule
<1>5. CASE n.type = "terraform-cli"
  BY <1>1, <1>2, <1>5 DEF QueryFor, FiledFor, TerraformCLIPURL, GoModule
<1>6. CASE ~IsAction(n) /\ ~IsProvider(n) /\ n.type # "terraform-cli"
  BY <1>6 DEF QueryFor, FiledFor
<1> QED BY <1>3, <1>4, <1>5, <1>6

(* Of the records of one flaw in one node, one is better than every other: *)
(* the first in byte order among those with a summary, if any has one,     *)
(* among those with a severity, if any has one.                            *)
LEMMA DedupeKeepsBest ==
  ASSUME NEW nodes, NEW fs, fs \subseteq [node : nodes, advisory : Records],
         NEW f \in fs
  PROVE  \E g \in Dedupe(fs) : /\ Key(g) = Key(f)
                               /\ Rated(f.advisory) => Rated(g.advisory)
<1> DEFINE G == {g \in fs : Key(g) = Key(f)}
           R == {g \in G : Rated(g.advisory)}
           A == IF R # {} THEN R ELSE G
           W == {g \in A : g.advisory.summary}
           S == IF W # {} THEN W ELSE A
           N == {i \in DOMAIN IdOrder : \E g \in S : IdOrder[i] = g.advisory.id}
<1>1. S # {} /\ S \subseteq A /\ A \subseteq G /\ G \subseteq fs
  OBVIOUS
<1>2. \A g \in fs : /\ g.advisory.id \in Id /\ g.advisory = Record[g.advisory.id]
                    /\ g.advisory.summary \in BOOLEAN /\ g.node \in nodes
                    /\ g = [node |-> g.node, advisory |-> g.advisory]
  BY RecordAssumption DEF Records
<1>3. IdOrder \in Seq(Id) /\ DOMAIN IdOrder \subseteq Nat
      /\ (\A i, j \in DOMAIN IdOrder : IdOrder[i] = IdOrder[j] => i = j)
      /\ (\A id \in Id : \E i \in DOMAIN IdOrder : IdOrder[i] = id)
  BY AdvisoryAssumption DEF Id, Range, IsInjective
<1>4. N # {} /\ N \subseteq Nat
  <2>1. PICK g \in S : g \in fs
    BY <1>1
  <2>2. PICK i \in DOMAIN IdOrder : IdOrder[i] = g.advisory.id
    BY <2>1, <1>2, <1>3
  <2> QED BY <2>1, <2>2, <1>3
<1>5. PICK m \in N : \A i \in N : m <= i
  BY <1>4, NatMin
<1>6. PICK g \in S : IdOrder[m] = g.advisory.id
  BY <1>5
<1>7. g \in fs /\ Key(g) = Key(f)
  BY <1>1, <1>6
<1>8. ASSUME NEW h \in fs \ {g}, Key(h) = Key(g)
      PROVE  Better(g.advisory, h.advisory)
  <2>1. h \in G
    BY <1>7, <1>8
  <2>2. g.node = h.node
    BY <1>8 DEF Key
  <2>3. g.advisory.id # h.advisory.id
    BY <1>2, <1>7, <1>8, <2>2
  <2>4. Rated(g.advisory) # Rated(h.advisory) => Rated(g.advisory)
    BY <1>6, <2>1 DEF Rated
  <2>5. Rated(g.advisory) = Rated(h.advisory) => h \in A
    BY <1>6, <2>1 DEF Rated
  <2>6. Rated(g.advisory) = Rated(h.advisory) /\ g.advisory.summary # h.advisory.summary
          => g.advisory.summary
    BY <1>2, <1>6, <1>7, <2>5
  <2>7. ASSUME Rated(g.advisory) = Rated(h.advisory), g.advisory.summary = h.advisory.summary
        PROVE  Precedes(g.advisory.id, h.advisory.id)
    <3>1. h \in S
      BY <1>6, <2>5, <2>7
    <3>2. PICK j \in DOMAIN IdOrder : IdOrder[j] = h.advisory.id
      BY <1>2, <1>3
    <3>3. j \in N /\ m <= j /\ m # j /\ m \in Nat /\ j \in Nat /\ m \in DOMAIN IdOrder
      BY <1>3, <1>5, <1>6, <2>3, <3>1, <3>2
    <3> QED BY <1>6, <3>2, <3>3 DEF Precedes
  <2> HIDE DEF S, A, R, G
  <2> QED BY <2>4, <2>6, <2>7 DEF Better
<1>9. g \in Dedupe(fs)
  BY <1>7, <1>8 DEF Dedupe
<1>10. Rated(f.advisory) => Rated(g.advisory)
  BY <1>6
<1> QED BY <1>7, <1>9, <1>10

(* A record names a CVE, or is not one itself.                             *)
LEMMA CVEIs ==
  ASSUME NEW id \in Id
  PROVE  CVE(Record[id]) \in Cve \/ (CVE(Record[id]) = NoCVE /\ id \notin Cve)
<1> DEFINE a     == Record[id]
           named == {i \in DOMAIN a.aliases : a.aliases[i] \in Cve}
<1>1. a.id = id /\ a.aliases \in Seq(Range(a.aliases))
  BY RecordAssumption
<1>2. CASE named = {}
  BY <1>1, <1>2 DEF CVE
<1>3. CASE named # {}
  <2>1. named \subseteq Nat /\ CVE(a) = a.aliases[Min(named)]
    BY <1>1, <1>3 DEF CVE
  <2>2. Min(named) \in named
    <3> HIDE DEF named
    <3>1. \E i \in named : \A j \in named : i <= j
      BY <1>3, <2>1, NatMin
    <3> QED BY <3>1 DEF Min
  <2> QED BY <2>1, <2>2
<1> QED BY <1>2, <1>3

(* Two records under one key are one flaw, and each names the other.       *)
LEMMA KeyIsFlaw ==
  ASSUME NEW f, NEW g, f.advisory \in Records, g.advisory \in Records, Key(f) = Key(g)
  PROVE  /\ f.node = g.node
         /\ g.advisory = f.advisory \/ g.advisory.id \in Range(f.advisory.aliases)
<1> DEFINE a == f.advisory
           b == g.advisory
<1>1. PICK x \in Id : a = Record[x]
  BY DEF Records
<1>2. PICK y \in Id : b = Record[y]
  BY DEF Records
<1>3. a.id = x /\ b.id = y
  BY <1>1, <1>2, RecordAssumption
<1>4. f.node = g.node /\ (IF CVE(a) = NoCVE THEN a.id ELSE CVE(a))
                        = (IF CVE(b) = NoCVE THEN b.id ELSE CVE(b))
  BY DEF Key
<1>5. /\ CVE(a) \in Cve \/ (CVE(a) = NoCVE /\ x \notin Cve)
      /\ CVE(b) \in Cve \/ (CVE(b) = NoCVE /\ y \notin Cve)
      /\ NoCVE \notin Cve
  BY <1>1, <1>2, CVEIs, RecordAssumption, AdvisoryAssumption
<1>6. CASE CVE(a) = NoCVE \/ CVE(b) = NoCVE
  BY <1>1, <1>2, <1>3, <1>4, <1>5, <1>6
<1>7. CASE CVE(a) # NoCVE /\ CVE(b) # NoCVE
  BY <1>1, <1>2, <1>3, <1>4, <1>7, RecordAssumption
<1> QED BY <1>4, <1>6, <1>7

(* No claim is missing, and each names the records it stands for.          *)
Attributed(nodes, claims) ==
  /\ SaysExactly(nodes, claims)
  /\ \A n \in nodes : \A a \in KnownAbout(n) :
       \E f \in claims : f.node = n /\ (f.advisory = a \/ a.id \in Range(f.advisory.aliases))

(* Once every record of a node's ids is there, what Check returns is what  *)
(* is known about the nodes it was asked of.                               *)
LEMMA FindingsAreExact ==
  ASSUME NEW nodes, nodes \subseteq Node, DOMAIN idsFor = nodes, vulns \subseteq Records,
         \A n \in nodes : idsFor[n] = About[n] /\ \A id \in idsFor[n] : Record[id] \in vulns
  PROVE  Attributed(nodes, Findings(knownAt))
<1> DEFINE fs == {f \in [node : DOMAIN idsFor, advisory : vulns] :
                       f.advisory.id \in idsFor[f.node] /\ Known(f.advisory, knownAt)}
<1>1. fs \subseteq [node : nodes, advisory : Records]
  OBVIOUS
<1>2. ASSUME NEW f \in fs
      PROVE  f.node \in nodes /\ f.advisory \in KnownAbout(f.node)
  <2>1. f.node \in nodes /\ f.advisory \in Records
    OBVIOUS
  <2>2. f.advisory = Record[f.advisory.id]
    BY <2>1, RecordAssumption DEF Records
  <2>3. f.advisory.id \in About[f.node] /\ Known(f.advisory, knownAt)
    BY <2>1
  <2> HIDE DEF fs
  <2> QED BY <2>1, <2>2, <2>3 DEF KnownAbout
<1>3. ASSUME NEW n \in nodes, NEW a \in KnownAbout(n)
      PROVE  \E f \in Dedupe(fs) : /\ f.node = n /\ (Rated(a) => Rated(f.advisory))
                                   /\ f.advisory = a \/ a.id \in Range(f.advisory.aliases)
  <2> DEFINE f == [node |-> n, advisory |-> a]
  <2>1. PICK id \in About[n] : a = Record[id] /\ Known(Record[id], knownAt)
    BY <1>3 DEF KnownAbout
  <2>2. id \in Id
    BY <2>1, FilingAssumption
  <2>3. a.id = id /\ a \in vulns
    BY <2>1, <2>2, RecordAssumption
  <2>4. f \in fs
    BY <2>1, <2>3
  <2> HIDE DEF fs
  <2>5. PICK g \in Dedupe(fs) : Key(g) = Key(f) /\ (Rated(f.advisory) => Rated(g.advisory))
    BY <1>1, <2>4, DedupeKeepsBest
  <2>6. g \in fs /\ g.advisory \in Records /\ f.advisory \in Records
    BY <1>1, <2>4, <2>5 DEF Dedupe
  <2>7. g.node = n /\ (g.advisory = a \/ a.id \in Range(g.advisory.aliases))
    BY <2>5, <2>6, KeyIsFlaw
  <2> QED BY <2>5, <2>7
<1>4. Findings(knownAt) = Dedupe(fs) /\ Dedupe(fs) \subseteq fs
  BY DEF Findings, Dedupe
<1> HIDE DEF fs
<1> QED BY <1>2, <1>3, <1>4 DEF Attributed, SaysExactly, SameFlaw

-----------------------------------------------------------------------------
(* Check, as its batches are answered and its records arrive.              *)

(* Asked about these nodes: whoever was in a batch has all of its ids,     *)
(* and of every id the record is there or on its way, unless it failed.    *)
Asked(nodes) ==
  /\ nodes \subseteq Node /\ DOMAIN idsFor = nodes /\ pending \in Seq(nodes)
  /\ todo \in Seq(Id) /\ flight \subseteq Id /\ vulns \subseteq Records
  /\ pending # <<>> => todo = <<>> /\ flight = {}
  /\ osv = "ok" =>
       /\ \A n \in nodes : /\ idsFor[n] \subseteq About[n]
                           /\ n \notin Range(pending) => idsFor[n] = About[n]
       /\ pending = <<>> =>
            \A n \in nodes : \A id \in idsFor[n] :
              id \in Range(todo) \/ id \in flight \/ Record[id] \in vulns

LEMMA CheckBegins ==
  ASSUME NEW s \in Seq(Node), BeginCheck(s)
  PROVE  Asked(Range(s))'
<1>1. Range(s) \subseteq Node /\ s \in Seq(Range(s)) /\ (s = <<>> => Range(s) = {})
  BY DEF Range
<1> QED BY <1>1 DEF BeginCheck, Asked

(* A batch answered by position: whoever is not left over was in it.       *)
LEMMA PostKeeps ==
  ASSUME NEW nodes, Asked(nodes), Post
  PROVE  Asked(nodes)'
<1> DEFINE size    == IF Len(pending) < OsvBatch THEN Len(pending) ELSE OsvBatch
           chunk   == SubSeq(pending, 1, size)
           rest    == SubSeq(pending, size + 1, Len(pending))
           results == [i \in DOMAIN chunk |-> Served(QueryFor(chunk[i]))]
           all     == UNION {idsFor'[n] : n \in DOMAIN idsFor'}
<1>1. /\ pending \in Seq(nodes) /\ pending # <<>> /\ nodes \subseteq Node /\ osv = "ok"
      /\ DOMAIN idsFor = nodes /\ todo = <<>> /\ flight = {}
  BY DEF Asked, Post
<1>2. /\ pending' = rest /\ idsFor' = Answered(chunk, results)
      /\ UNCHANGED <<flight, vulns, osv>>
      /\ todo' = IF pending' = <<>> THEN Kept(IdOrder, UNION {idsFor'[n] : n \in DOMAIN idsFor}) ELSE <<>>
  BY DEF Post
<1>3. /\ size \in 1..Len(pending) /\ rest \in Seq(nodes)
      /\ DOMAIN chunk = 1..size /\ \A i \in 1..size : chunk[i] = pending[i] /\ chunk[i] \in nodes
  BY <1>1, AdvisoryAssumption
<1>4. \A n \in Range(pending) : n \in Range(rest) \/ \E i \in 1..size : chunk[i] = n
  <2> SUFFICES ASSUME NEW n \in Range(pending), \A i \in 1..size : chunk[i] # n
               PROVE  n \in Range(rest)
    OBVIOUS
  <2>1. Len(pending) \in Nat /\ DOMAIN pending = 1..Len(pending)
    BY <1>1
  <2>2. PICK k \in 1..Len(pending) : n = pending[k]
    BY <2>1 DEF Range
  <2>3. Len(rest) = Len(pending) - size /\ \A j \in 1..Len(rest) : rest[j] = pending[j + size]
    BY <1>1, <1>3
  <2>4. DOMAIN rest = 1..Len(rest)
    BY <1>3
  <2> HIDE DEF rest, chunk, size
  <2>5. ~(k <= size)
    BY <1>3, <2>2
  <2>6. k - size \in 1..Len(rest) /\ (k - size) + size = k
    BY <1>3, <2>1, <2>3, <2>5
  <2>7. rest[k - size] = n
    BY <2>2, <2>3, <2>6
  <2> QED BY <2>4, <2>6, <2>7 DEF Range
<1>5. DOMAIN idsFor' = nodes
  BY <1>1, <1>2 DEF Answered
<1>6. ASSUME NEW n \in nodes
      PROVE  /\ idsFor'[n] \subseteq About[n]
             /\ n \notin Range(rest) => idsFor'[n] = About[n]
  <2> DEFINE here == UNION {results[i] : i \in {i \in DOMAIN chunk : chunk[i] = n}}
  <2>1. idsFor'[n] = idsFor[n] \cup here
    BY <1>1, <1>2 DEF Answered
  <2>2. \A i \in DOMAIN chunk : chunk[i] = n => results[i] = About[n]
    BY <1>1, ServedIsAbout
  <2>3. here \subseteq About[n] /\ ((\E i \in DOMAIN chunk : chunk[i] = n) => here = About[n])
    <3> HIDE DEF chunk, results
    <3> QED BY <2>2
  <2>4. /\ idsFor[n] \subseteq About[n]
        /\ n \notin Range(pending) => idsFor[n] = About[n]
    BY <1>1 DEF Asked
  <2> HIDE DEF here, chunk, results, rest, size
  <2> QED BY <1>3, <1>4, <2>1, <2>3, <2>4
<1>7. \A n \in nodes : idsFor'[n] \subseteq Id
  BY <1>1, <1>6, FilingAssumption
<1>8. todo' \in Seq(Id) /\ (pending' = <<>> => Range(todo') = Id \cap all)
  <2>1. IdOrder \in Seq(Id) /\ Range(IdOrder) = Id
    BY AdvisoryAssumption DEF Id
  <2> HIDE DEF all
  <2>2. /\ Kept(IdOrder, all) \in Seq(Id) /\ Range(Kept(IdOrder, all)) = Range(IdOrder) \cap all
    BY <2>1, KeptIs
  <2>3. all = UNION {idsFor'[n] : n \in DOMAIN idsFor}
    BY <1>1, <1>5 DEF all
  <2>4. todo' = Kept(IdOrder, all) \/ (todo' = <<>> /\ pending' # <<>>)
    BY <1>2, <2>3
  <2>5. CASE todo' = Kept(IdOrder, all)
    BY <2>1, <2>2, <2>5, Zenon
  <2>6. CASE todo' = <<>> /\ pending' # <<>>
    BY <2>6
  <2> QED BY <2>4, <2>5, <2>6
<1>9. pending' = <<>> => \A n \in nodes : \A id \in idsFor'[n] : id \in Range(todo')
  BY <1>5, <1>7, <1>8
<1>10. pending' # <<>> => todo' = <<>> /\ flight' = {}
  BY <1>1, <1>2
<1>11. vulns' \subseteq Records /\ flight' \subseteq Id
  BY <1>2 DEF Asked
<1> HIDE DEF rest, all, chunk, results, size
<1> QED BY <1>1, <1>2, <1>3, <1>5, <1>6, <1>8, <1>9, <1>10, <1>11 DEF Asked

LEMMA TailDropsHead ==
  ASSUME NEW T, NEW s \in Seq(T), s # <<>>
  PROVE  /\ Head(s) \in T /\ Tail(s) \in Seq(T)
         /\ Range(s) = {Head(s)} \cup Range(Tail(s))
<1>1. /\ Len(s) \in Nat \ {0} /\ DOMAIN s = 1..Len(s) /\ Head(s) = s[1] /\ Head(s) \in T
      /\ Tail(s) \in Seq(T) /\ DOMAIN Tail(s) = 1..(Len(s) - 1)
      /\ \A i \in 1..(Len(s) - 1) : Tail(s)[i] = s[i + 1]
  OBVIOUS
<1>2. ASSUME NEW i \in DOMAIN s PROVE s[i] \in {Head(s)} \cup Range(Tail(s))
  <2>1. CASE i = 1
    BY <1>1, <2>1
  <2>2. CASE i # 1
    <3>1. i - 1 \in DOMAIN Tail(s) /\ Tail(s)[i - 1] = s[i]
      BY <1>1, <2>2
    <3> QED BY <3>1 DEF Range
  <2> QED BY <2>1, <2>2
<1>3. ASSUME NEW i \in DOMAIN Tail(s) PROVE Tail(s)[i] \in Range(s)
  <2>1. i + 1 \in DOMAIN s /\ Tail(s)[i] = s[i + 1]
    BY <1>1
  <2> QED BY <2>1 DEF Range
<1>4. 1 \in DOMAIN s
  BY <1>1
<1> QED BY <1>1, <1>2, <1>3, <1>4 DEF Range

LEMMA CheckStepKeeps ==
  ASSUME NEW nodes, Asked(nodes), CheckStep
  PROVE  Asked(nodes)'
<1>1. CASE Post
  BY <1>1, PostKeeps
<1>2. CASE PostFails
  BY <1>2 DEF PostFails, Asked
<1>3. CASE StartFetch
  <2>1. /\ todo \in Seq(Id) /\ todo # <<>> /\ todo' = Tail(todo) /\ pending = <<>>
        /\ UNCHANGED <<pending, idsFor, vulns, osv>>
    BY <1>3 DEF StartFetch, Asked
  <2>2. /\ Head(todo) \in Id /\ Tail(todo) \in Seq(Id)
        /\ Range(todo) = {Head(todo)} \cup Range(Tail(todo))
    BY <2>1, TailDropsHead
  <2>3. flight \subseteq flight' /\ flight' \subseteq flight \cup {Head(todo)}
        /\ (Head(todo) \in flight' \/ \E a \in vulns : a.id = Head(todo))
    BY <1>3 DEF StartFetch
  <2>4. \A a \in vulns : Record[a.id] = a
    BY RecordAssumption DEF Asked, Records
  <2> QED BY <2>1, <2>2, <2>3, <2>4 DEF Asked
<1>4. CASE \E id \in flight : Fetched(id)
  BY <1>4 DEF Fetched, Asked, Records
<1>5. CASE \E id \in flight : FetchFails(id)
  BY <1>5 DEF FetchFails, Asked
<1> QED BY <1>1, <1>2, <1>3, <1>4, <1>5 DEF CheckStep

(* When Check has returned without an error, its findings are exact.       *)
LEMMA CheckReturns ==
  ASSUME NEW nodes, Asked(nodes), Returned, osv = "ok"
  PROVE  Attributed(nodes, Findings(knownAt))
<1>1. \A n \in nodes : idsFor[n] = About[n] /\ \A id \in idsFor[n] : Record[id] \in vulns
  BY DEF Asked, Returned, Range
<1> QED BY <1>1, FindingsAreExact DEF Asked

-----------------------------------------------------------------------------
(* Facts: every node that is asked about is in one batch, and the answers  *)
(* of a batch are written where its nodes stand.                           *)

Looked(n) == IF n \in DOMAIN Listed THEN ApplyVersion(Unasked(n), Listed[n]) ELSE Unasked(n)
FactOf(n) == IF Queryable(n) THEN Looked(n) ELSE Unasked(n)

(* The places of what is asked about among the nodes.                      *)
Asking(s) == Kept([i \in DOMAIN s |-> i], {i \in DOMAIN s : Queryable(s[i])})
Batches(s) == (Len(Asking(s)) + DepsBatch - 1) \div DepsBatch

FactsInv ==
  /\ targets \in Seq(Node) /\ DOMAIN facts = DOMAIN targets
  /\ \A i \in DOMAIN targets :
       /\ facts[i] \in {Unasked(targets[i]), Looked(targets[i])}
       /\ ~Queryable(targets[i]) => facts[i] = Unasked(targets[i])
  /\ chunks \in [1 .. Batches(targets) -> {"waiting", "asking", "done"}]
  /\ deps = "ok" =>
       \A k \in DOMAIN chunks : chunks[k] = "done" =>
         \A j \in Part(k) : facts[Asking(targets)[j]] = Looked(targets[Asking(targets)[j]])

FactsSettled ==
  /\ targets \in Seq(Node) /\ DOMAIN facts = DOMAIN targets
  /\ \A i \in DOMAIN targets : facts[i] = FactOf(targets[i])

LEMMA FactFields ==
  \A n : Unasked(n).node = n /\ Looked(n).node = n /\ FactOf(n).node = n
BY DEF Unasked, Looked, FactOf, ApplyVersion

LEMMA AskingIs ==
  ASSUME NEW s \in Seq(Node)
  PROVE  /\ Asking(s) \in Seq(DOMAIN s)
         /\ Range(Asking(s)) = {i \in DOMAIN s : Queryable(s[i])}
<1> DEFINE places == [i \in DOMAIN s |-> i]
           S == {i \in DOMAIN s : Queryable(s[i])}
<1>1. places \in Seq(DOMAIN s) /\ Range(places) = DOMAIN s
  <2>1. Len(s) \in Nat /\ DOMAIN s = 1..Len(s)
    OBVIOUS
  <2>2. places = [i \in 1..Len(s) |-> i]
    BY <2>1
  <2> QED BY <2>1, <2>2 DEF Range
<1>2. Asking(s) = Kept(places, S) /\ S \subseteq DOMAIN s
  BY DEF Asking
<1> HIDE DEF places, S
<1>3. Kept(places, S) \in Seq(DOMAIN s) /\ Range(Kept(places, S)) = Range(places) \cap S
  BY <1>1, KeptIs
<1>4. Range(Asking(s)) = S
  BY <1>1, <1>2, <1>3
<1> QED BY <1>2, <1>3, <1>4 DEF S

(* The facts, written or not, are of the nodes.                            *)
LEMMA AskIdxIs ==
  ASSUME DOMAIN facts = DOMAIN targets, \A i \in DOMAIN targets : facts[i].node = targets[i]
  PROVE  AskIdx = Asking(targets)
<1>1. [i \in DOMAIN facts |-> i] = [i \in DOMAIN targets |-> i]
  OBVIOUS
<1>2. {i \in DOMAIN facts : Queryable(facts[i].node)}
        = {i \in DOMAIN targets : Queryable(targets[i])}
  OBVIOUS
<1> QED BY <1>1, <1>2, Zenon DEF AskIdx, Asking

(* The batch of a place is one of the batches.                             *)
LEMMA BatchOf ==
  ASSUME NEW n \in Nat, NEW j \in 1..n
  PROVE  (j - 1) \div DepsBatch + 1 \in 1 .. (n + DepsBatch - 1) \div DepsBatch
<1> DEFINE B == DepsBatch
           q == (j - 1) \div B
           p == (n + B - 1) \div B
<1>1. B \in Nat /\ B > 0
  BY SupplyAssumption
<1>2. q \in Nat /\ B * q <= j - 1
  BY <1>1
<1>3. p \in Nat /\ n + B - 1 < B * p + B
  BY <1>1
<1> HIDE DEF q, p, B
<1>4. B * q + B < B * p + B + 1
  BY <1>1, <1>2, <1>3
<1>5. ~(p <= q)
  <2> SUFFICES ASSUME p <= q PROVE FALSE
    OBVIOUS
  <2>1. B * q + B <= n - 1 + B
    BY <1>1, <1>2
  <2>2. B * q < B * p + 1 /\ B * q <= j - 1 /\ n - 1 < B * p
    BY <1>1, <1>2, <1>3
  <2>3. B * p <= B * q
    BY <1>1, <1>2, <1>3
  <2> QED BY <1>1, <1>2, <1>3, <2>2, <2>3
<1>6. q + 1 \in 1..p
  BY <1>2, <1>3, <1>5
<1> QED BY <1>6 DEF q, p, B

LEMMA FactsBegin ==
  ASSUME targets' \in Seq(Node), BeginFacts(targets')
  PROVE  FactsInv'
<1>1. facts' = [i \in DOMAIN targets' |-> Unasked(targets'[i])]
  BY DEF BeginFacts
<1>2. \A i \in DOMAIN targets' : facts'[i] = Unasked(targets'[i])
  BY <1>1
<1>3. AskIdx' = Asking(targets')
  <2>1. [i \in DOMAIN facts' |-> i] = [i \in DOMAIN targets' |-> i]
    BY <1>1
  <2>2. {i \in DOMAIN facts' : Queryable(facts'[i].node)}
          = {i \in DOMAIN targets' : Queryable(targets'[i])}
    BY <1>1, <1>2, FactFields
  <2> QED BY <2>1, <2>2, Zenon DEF AskIdx, Asking
<1>4. chunks' = [k \in 1 .. Batches(targets') |-> "waiting"]
  BY <1>3 DEF BeginFacts, Batches
<1> QED BY <1>1, <1>2, <1>4 DEF FactsInv

LEMMA AnswerKeepsFacts ==
  ASSUME FactsInv, NEW k \in DOMAIN chunks, ChunkAnswered(k), targets' = targets
  PROVE  FactsInv'
<1> DEFINE s == targets
           here == {Asking(s)[j] : j \in Part(k)}
<1>1. /\ s \in Seq(Node) /\ DOMAIN facts = DOMAIN s
      /\ \A i \in DOMAIN s : facts[i].node = s[i]
  BY FactFields DEF FactsInv
<1>2. AskIdx = Asking(s)
  BY <1>1, AskIdxIs
<1>3. Asking(s) \in Seq(DOMAIN s) /\ Range(Asking(s)) = {i \in DOMAIN s : Queryable(s[i])}
  BY <1>1, AskingIs
<1>4. /\ chunks' = [chunks EXCEPT ![k] = "done"] /\ deps' = deps
      /\ facts' = [i \in DOMAIN facts |->
                    IF i \notin here THEN facts[i] ELSE Looked(facts[i].node)]
  BY <1>2 DEF ChunkAnswered, Written, Looked
<1>5. \A m : Part(m) \subseteq DOMAIN Asking(s)
  BY <1>2 DEF Part
<1>6. \A i \in here : i \in DOMAIN s /\ Queryable(s[i])
  BY <1>3, <1>5 DEF Range
<1>7. /\ DOMAIN facts' = DOMAIN s
      /\ \A i \in DOMAIN s : facts'[i] = IF i \in here THEN Looked(s[i]) ELSE facts[i]
  BY <1>1, <1>4
<1>8. \A i \in DOMAIN s : facts'[i].node = s[i]
  BY <1>1, <1>7, FactFields
<1>9. AskIdx' = Asking(s)
  <2>1. [i \in DOMAIN facts' |-> i] = [i \in DOMAIN s |-> i]
    BY <1>7
  <2>2. {i \in DOMAIN facts' : Queryable(facts'[i].node)} = {i \in DOMAIN s : Queryable(s[i])}
    BY <1>7, <1>8
  <2> QED BY <2>1, <2>2, Zenon DEF AskIdx, Asking
<1>10. \A m : Part(m)' = Part(m)
  BY <1>2, <1>9 DEF Part
<1>11. ASSUME deps' = "ok", NEW m \in DOMAIN chunks', chunks'[m] = "done", NEW j \in Part(m)'
       PROVE  facts'[Asking(s)[j]] = Looked(s[Asking(s)[j]])
  <2>1. j \in Part(m) /\ Asking(s)[j] \in DOMAIN s
    BY <1>3, <1>5, <1>10, <1>11
  <2>2. CASE m = k
    BY <2>1, <2>2, <1>7
  <2>3. CASE m # k
    <3>1. facts[Asking(s)[j]] = Looked(s[Asking(s)[j]])
      BY <1>4, <1>11, <2>1, <2>3 DEF FactsInv
    <3> QED BY <1>7, <2>1, <3>1
  <2> QED BY <2>2, <2>3
<1>12. chunks' \in [1 .. Batches(s) -> {"waiting", "asking", "done"}]
  BY <1>4 DEF FactsInv
<1>13. \A i \in DOMAIN s :
         /\ facts'[i] \in {Unasked(s[i]), Looked(s[i])}
         /\ ~Queryable(s[i]) => facts'[i] = Unasked(s[i])
  BY <1>6, <1>7 DEF FactsInv
<1> HIDE DEF here
<1> QED BY <1>1, <1>7, <1>11, <1>12, <1>13 DEF FactsInv

(* Part depends on the places asked about alone.                           *)
LEMMA FactsStepKeeps ==
  ASSUME FactsInv, NEW k \in DOMAIN chunks, targets' = targets,
         TakeChunk(k) \/ ChunkAnswered(k) \/ ChunkFails(k)
  PROVE  FactsInv'
<1>1. CASE ChunkAnswered(k)
  BY <1>1, AnswerKeepsFacts
<1>2. CASE TakeChunk(k)
  <2>1. facts' = facts /\ deps' = deps /\ chunks' = [chunks EXCEPT ![k] = "asking"]
    BY <1>2 DEF TakeChunk
  <2>2. \A m : Part(m)' = Part(m)
    BY <2>1 DEF Part, AskIdx
  <2> QED BY <2>1, <2>2 DEF FactsInv
<1>3. CASE ChunkFails(k)
  <2>1. facts' = facts /\ deps' = "failed" /\ chunks' = [chunks EXCEPT ![k] = "done"]
    BY <1>3 DEF ChunkFails
  <2> QED BY <2>1 DEF FactsInv
<1> QED BY <1>1, <1>2, <1>3

(* When every batch has been answered, every node has its own fact.        *)
LEMMA FactsReturn ==
  ASSUME FactsInv, FactsReturned, deps = "ok"
  PROVE  FactsSettled
<1> DEFINE s == targets
<1>1. /\ s \in Seq(Node) /\ DOMAIN facts = DOMAIN s
      /\ \A i \in DOMAIN s : facts[i].node = s[i]
  BY FactFields DEF FactsInv
<1>2. AskIdx = Asking(s)
  BY <1>1, AskIdxIs
<1>3. /\ Asking(s) \in Seq(DOMAIN s) /\ Range(Asking(s)) = {i \in DOMAIN s : Queryable(s[i])}
  BY <1>1, AskingIs
<1>4. ASSUME NEW i \in DOMAIN s, Queryable(s[i])
      PROVE  facts[i] = Looked(s[i])
  <2>1. Len(Asking(s)) \in Nat /\ DOMAIN Asking(s) = 1..Len(Asking(s))
    BY <1>3
  <2>2. PICK j \in 1..Len(Asking(s)) : Asking(s)[j] = i
    BY <1>3, <1>4, <2>1 DEF Range
  <2> DEFINE m == (j - 1) \div DepsBatch + 1
  <2>3. m \in 1..Batches(s)
    BY <2>1, BatchOf DEF Batches
  <2>4. j \in Part(m)
    <3>1. (j - 1) \div DepsBatch = m - 1
      BY SupplyAssumption
    <3> QED BY <1>2, <2>1, <3>1 DEF Part
  <2> HIDE DEF m
  <2>5. m \in DOMAIN chunks /\ chunks[m] = "done"
    BY <2>3 DEF FactsInv, FactsReturned
  <2> QED BY <2>2, <2>4, <2>5 DEF FactsInv
<1> QED BY <1>1, <1>4 DEF FactsInv, FactsSettled, FactOf

-----------------------------------------------------------------------------
(* Projects, and what Assess makes of facts and projects.                  *)

CardOf(r) == IF r \in DOMAIN Scorecards THEN Scorecards[r] ELSE [has |-> FALSE, checks |-> <<>>]

ProjectsInv ==
  /\ calls \in [Repos -> [pc : {"waiting", "asking", "backoff", "done", "failed"},
                         attempt : Nat]]
  /\ \A r \in DOMAIN projects : projects[r] = CardOf(r)
  /\ \A r \in Repos : calls[r].pc = "done" => r \in DOMAIN projects

LEMMA ProjectsStepKeeps ==
  ASSUME ProjectsInv, NEW r \in DOMAIN calls,
         TakeCall(r) \/ CallAnswered(r) \/ CallFails(r) \/ Throttled(r) \/ AskAgain(r)
  PROVE  ProjectsInv' /\ facts' = facts
<1> DEFINE Call == [pc : {"waiting", "asking", "backoff", "done", "failed"}, attempt : Nat]
<1>1. calls \in [Repos -> Call] /\ r \in Repos
  BY DEF ProjectsInv
<1>2. facts' = facts => Repos' = Repos
  BY DEF Repos
<1>3. CASE CallAnswered(r)
  <2>1. /\ calls' = [calls EXCEPT ![r].pc = "done"] /\ facts' = facts
        /\ projects' = [q \in DOMAIN projects \cup {r} |->
                          IF q # r THEN projects[q] ELSE CardOf(r)]
    BY <1>3 DEF CallAnswered, CardOf
  <2>2. /\ DOMAIN projects' = DOMAIN projects \cup {r}
        /\ \A q \in DOMAIN projects' :
             projects'[q] = IF q # r THEN projects[q] ELSE CardOf(r)
    BY <2>1
  <2>3. calls' \in [Repos -> Call] /\ \A q \in Repos \ {r} : calls'[q] = calls[q]
    BY <1>1, <2>1
  <2> QED BY <1>2, <2>1, <2>2, <2>3 DEF ProjectsInv
<1>4. CASE TakeCall(r) \/ CallFails(r) \/ Throttled(r) \/ AskAgain(r)
  <2>1. facts' = facts /\ projects' = projects
    BY <1>4 DEF TakeCall, CallFails, Throttled, AskAgain
  <2>2. /\ calls' \in [Repos -> Call] /\ calls'[r].pc # "done"
        /\ \A q \in Repos \ {r} : calls'[q] = calls[q]
    <3>1. CASE TakeCall(r)
      BY <1>1, <3>1 DEF TakeCall
    <3>2. CASE CallFails(r)
      BY <1>1, <3>2 DEF CallFails
    <3>3. CASE Throttled(r)
      BY <1>1, <3>3 DEF Throttled
    <3>4. CASE AskAgain(r)
      BY <1>1, <3>4 DEF AskAgain
    <3> QED BY <1>4, <3>1, <3>2, <3>3, <3>4
  <2> QED BY <1>2, <2>1, <2>2 DEF ProjectsInv
<1> QED BY <1>3, <1>4

(* The signal of a rule is no other's, and none that has another cause.    *)
LEMMA RulesAreApart ==
  /\ \A p, q \in ScorecardRules : p[3] = q[3] => p = q
  /\ \A p \in ScorecardRules :
       /\ p[2] \in Nat
       /\ p[3] \notin {"unlisted", "deprecated", "no-license", "non-standard-license",
                      "no-source-repo", "unattested-source", "no-scorecard"}
BY DEF ScorecardRules

(* The repository of a fact is one its document names.                     *)
LEMMA SourceIs ==
  ASSUME NEW n \in DOMAIN Listed
  PROVE  LET links   == Range(Listed[n].related)
             sources == {l \in links : l.type = "SOURCE_REPO"}
             vouched == {l \in sources : l.provenance = "SLSA_ATTESTATION"}
         IN  \/ Source(Listed[n]).id \in {l.id : l \in IF vouched # {} THEN vouched ELSE sources}
             \/ sources = {} /\ Source(Listed[n]).id = NoRepo
<1> DEFINE rel      == Listed[n].related
           named    == {i \in DOMAIN rel : rel[i].type = "SOURCE_REPO"}
           attested == {i \in named : rel[i].provenance = "SLSA_ATTESTATION"}
           chosen   == IF attested # {} THEN attested ELSE named
           sources  == {l \in Range(rel) : l.type = "SOURCE_REPO"}
           vouched  == {l \in sources : l.provenance = "SLSA_ATTESTATION"}
<1>1. rel \in Seq(Range(rel)) /\ DOMAIN rel \subseteq Nat
  BY DocumentAssumption
<1>2. /\ sources = {rel[i] : i \in named} /\ vouched = {rel[i] : i \in attested}
  BY DEF Range
<1>3. CASE named = {}
  BY <1>2, <1>3 DEF Source
<1>4. CASE named # {}
  <2>1. chosen # {} /\ chosen \subseteq Nat /\ Source(Listed[n]) = rel[Min(chosen)]
    BY <1>1, <1>4 DEF Source
  <2>2. Min(chosen) \in chosen
    <3> HIDE DEF chosen
    <3>1. \E i \in chosen : \A j \in chosen : i <= j
      BY <2>1, NatMin
    <3> QED BY <3>1 DEF Min
  <2> QED BY <1>2, <2>1, <2>2
<1> QED BY <1>3, <1>4

(* The signals of a node are those of its own documents.                   *)
LEMMA SignalsAreOwn ==
  ASSUME ProjectsInv, ProjectsReturned, NEW n, NEW f, f = FactOf(n),
         f.sourceRepo # NoRepo => f.sourceRepo \in Repos
  PROVE  /\ "unlisted" \in SignalsOf(f) <=> Queryable(n) /\ n \notin DOMAIN Listed
         /\ \A rule \in ScorecardRules :
              LET r   == f.sourceRepo
                  bad == /\ r \in DOMAIN Scorecards
                         /\ rule[1] \in DOMAIN Scorecards[r].checks
                         /\ Scorecards[r].checks[rule[1]] \in 0 .. rule[2]
              IN  /\ rule[3] \in SignalsOf(f) => bad
                  /\ bad /\ r \notin Unreachable => rule[3] \in SignalsOf(f)
<1> DEFINE r == f.sourceRepo
<1>1. /\ f.queried = Queryable(n)
      /\ f.known = (Queryable(n) /\ n \in DOMAIN Listed)
      /\ ~f.known => r = NoRepo
  BY DEF FactOf, Looked, Unasked, ApplyVersion
<1>2. ASSUME NEW rule \in ScorecardRules
      PROVE  rule[3] \in OfProject(f) <=>
               /\ HasScorecard(r) /\ rule[1] \in DOMAIN projects[r].checks
               /\ projects[r].checks[rule[1]] >= 0 /\ projects[r].checks[rule[1]] <= rule[2]
  BY RulesAreApart DEF OfProject, FromScorecard
<1>3. /\ "unlisted" \notin OfLicenses(f) \cup OfSource(f) \cup OfProject(f) \cup {"deprecated"}
      /\ \A rule \in ScorecardRules : rule[3] \notin OfLicenses(f) \cup OfSource(f) \cup {"deprecated"}
  BY RulesAreApart DEF OfLicenses, OfSource, OfProject, FromScorecard
<1>4. /\ ~f.queried => SignalsOf(f) = {}
      /\ f.queried /\ ~f.known => SignalsOf(f) = {"unlisted"}
      /\ f.queried /\ f.known =>
           SignalsOf(f) = (IF f.deprecated THEN {"deprecated"} ELSE {})
                            \cup OfLicenses(f) \cup OfSource(f) \cup OfProject(f)
  BY DEF SignalsOf
<1>5. "unlisted" \in SignalsOf(f) <=> Queryable(n) /\ n \notin DOMAIN Listed
  BY <1>1, <1>3, <1>4
<1>6. ASSUME NEW rule \in ScorecardRules
      PROVE  rule[3] \in SignalsOf(f) <=> f.known /\ rule[3] \in OfProject(f)
  BY <1>1, <1>3, <1>4, <1>6, RulesAreApart
<1>7. NoRepo \notin DOMAIN Scorecards
  BY DocumentAssumption
<1>8. r \in DOMAIN projects => projects[r] = CardOf(r)
  BY DEF ProjectsInv
<1>9. ASSUME NEW rule \in ScorecardRules, rule[3] \in SignalsOf(f)
      PROVE  /\ r \in DOMAIN Scorecards /\ rule[1] \in DOMAIN Scorecards[r].checks
             /\ Scorecards[r].checks[rule[1]] \in 0 .. rule[2]
  <2>1. /\ HasScorecard(r) /\ rule[1] \in DOMAIN projects[r].checks
        /\ projects[r].checks[rule[1]] >= 0 /\ projects[r].checks[rule[1]] <= rule[2]
    BY <1>2, <1>6, <1>9
  <2>2. r \in DOMAIN Scorecards /\ projects[r] = Scorecards[r]
    BY <1>8, <2>1 DEF HasScorecard, CardOf
  <2>3. Scorecards[r].checks[rule[1]] \in Int
    BY <2>1, <2>2, DocumentAssumption
  <2> QED BY <2>1, <2>2, <2>3, RulesAreApart
<1>10. ASSUME NEW rule \in ScorecardRules, r \in DOMAIN Scorecards, r \notin Unreachable,
              rule[1] \in DOMAIN Scorecards[r].checks,
              Scorecards[r].checks[rule[1]] \in 0 .. rule[2]
       PROVE  rule[3] \in SignalsOf(f)
  <2>1. r # NoRepo /\ r \in Repos
    BY <1>7, <1>10
  <2>2. r \in DOMAIN calls /\ calls[r].pc \in {"done", "failed"}
    BY <2>1 DEF ProjectsInv, ProjectsReturned
  <2>3. r \in DOMAIN projects
    BY <1>10, <2>1, <2>2 DEF ProjectsInv, Unreachable
  <2>4. projects[r] = Scorecards[r] /\ HasScorecard(r)
    BY <1>8, <1>10, <2>3, DocumentAssumption DEF CardOf, HasScorecard
  <2>5. f.known
    BY <1>1, <2>1
  <2> QED BY <1>2, <1>6, <1>10, <2>4, <2>5, RulesAreApart
<1> QED BY <1>5, <1>9, <1>10

-----------------------------------------------------------------------------
(* The inductive invariant: what a command has in hand at each place.      *)

Reading == {"owners", "nodes", "pins", "surfaces", "actions", "actions-check", "pinning", "build"}
Pcs == {"run", "targets", "check", "facts", "projects", "cross", "done", "failed"} \cup Reading

ActionNodes == {n \in Range(got.actions) : IsAction(n)}

ProcessInv ==
  /\ pc \in Pcs /\ asked.command \in {"report", "risk"}
  /\ pc \in {"check"} \cup Reading => asked.command = "report"
  /\ pc = "cross" => asked.command = "risk"
  /\ targets \in Seq(Node)
  /\ DOMAIN got = DOMAIN NothingRead
  /\ got.actions \in Seq(Node)
  /\ pc # "done" => doc = NoDoc

(* What Check was asked, and what was made of its answers.                 *)
AdvisoryInv ==
  /\ pc \in {"check", "cross"} => Asked(Range(targets))
  /\ pc = "actions-check" => Asked(ActionNodes)
  /\ pc \in {"run", "targets"} => found = {}
  /\ pc \notin {"pinning", "build", "done", "failed"} => actionsFound = {}
  /\ found \subseteq [node : Node, advisory : Records]
  /\ pc \in {"facts", "projects"} /\ asked.command = "report" =>
       Attributed(Range(targets), found)
  /\ pc \in {"done"} \cup Reading => Attributed(Range(targets), found)
  /\ pc \in {"pinning", "build"} \/ (pc = "done" /\ asked.command = "report") =>
       Attributed(ActionNodes, actionsFound)
  /\ pc = "done" /\ asked.command = "report" =>
       doc = BuildReport(Range(targets), found, assessments, got, Range(got.actions), actionsFound)

(* What deps.dev was asked, and what was made of its answers.              *)
SupplyInv ==
  /\ pc = "facts" => FactsInv
  /\ pc = "projects" => FactsSettled /\ ProjectsInv
  /\ pc \in {"run", "targets", "check", "facts"} => projects = <<>>
  /\ pc \in {"run", "targets", "check", "facts", "projects"} => assessments = <<>>
  /\ assessments # <<>> =>
       FactsSettled /\ ProjectsInv /\ ProjectsReturned /\ assessments = Assess

AuditInv == ProcessInv /\ AdvisoryInv /\ SupplyInv

(* What another step does not touch stays as it was.                       *)
LEMMA OsvUntouched ==
  ASSUME UNCHANGED osvVars, NEW nodes
  PROVE  Asked(nodes)' <=> Asked(nodes)
BY DEF osvVars, Asked

LEMMA SupplyUntouched ==
  ASSUME UNCHANGED supplyVars, targets' = targets
  PROVE  /\ FactsInv' <=> FactsInv
         /\ FactsSettled' <=> FactsSettled
         /\ ProjectsInv' <=> ProjectsInv
         /\ ProjectsReturned' <=> ProjectsReturned
         /\ Assess' = Assess
<1>1. /\ facts' = facts /\ chunks' = chunks /\ calls' = calls /\ projects' = projects
      /\ deps' = deps
  BY DEF supplyVars
<1>2. \A k : Part(k)' = Part(k)
  BY <1>1 DEF Part, AskIdx
<1>3. \A f : SignalsOf(f)' = SignalsOf(f)
  BY <1>1 DEF SignalsOf, OfProject, HasScorecard
<1>4. Assess' = Assess
  BY <1>1, <1>3 DEF Assess
<1> QED BY <1>1, <1>2, <1>4 DEF FactsInv, FactsSettled, ProjectsInv, Repos, ProjectsReturned

LEMMA InitAuditInv == Init => AuditInv
<1> SUFFICES ASSUME Init PROVE AuditInv
  OBVIOUS
<1>1. /\ pc = "run" /\ targets = <<>> /\ found = {} /\ assessments = <<>> /\ projects = <<>>
      /\ actionsFound = {} /\ got = NothingRead /\ doc = NoDoc /\ asked \in Commandlines
  BY DEF Init, SupplyIdle
<1>2. ProcessInv
  <2>1. got.actions = <<>>
    BY <1>1 DEF NothingRead
  <2> QED BY <1>1, <2>1 DEF ProcessInv, Pcs, Reading, Commandlines
<1>3. AdvisoryInv
  BY <1>1 DEF AdvisoryInv, Reading
<1>4. SupplyInv
  BY <1>1 DEF SupplyInv
<1> QED BY <1>2, <1>3, <1>4 DEF AuditInv

(* Filters of the node order are lists of nodes.                           *)
LEMMA FilterIs ==
  ASSUME NEW s \in Seq(Node), NEW S
  PROVE  Kept(s, S) \in Seq(Node) /\ Range(Kept(s, S)) = Range(s) \cap S
BY KeptIs

LEMMA ProcessStep ==
  ASSUME ProcessInv, Next
  PROVE  ProcessInv'
<1>1. Selected \in Seq(Node) /\ Answer("actions") \in Seq(Node)
  <2>1. NodeOrder \in Seq(Node)
    BY FilingAssumption
  <2>2. \A S : Kept(NodeOrder, S) \in Seq(Node)
    BY <2>1, FilterIs
  <2>3. NothingRead["actions"] = <<>>
    BY DEF NothingRead
  <2> QED BY <2>2, <2>3 DEF Selected, Answer
<1>2. CASE Read
  <2>1. pc \in {"owners", "nodes", "pins", "surfaces", "pinning"}
    BY <1>2 DEF Read
  <2>2. /\ got' = [got EXCEPT ![pc] = Answer(pc)] /\ pc' = After(pc)
        /\ UNCHANGED <<asked, targets, doc>>
    BY <1>2 DEF Read, Goto, Keep
  <2>3. got'.actions = got.actions /\ DOMAIN got' = DOMAIN NothingRead
    BY <2>1, <2>2 DEF ProcessInv
  <2>4. pc' \in Reading
    BY <2>1, <2>2 DEF After, Reading
  <2>5. asked.command = "report" /\ doc = NoDoc
    BY <2>1 DEF ProcessInv, Reading
  <2> QED BY <2>2, <2>3, <2>4, <2>5 DEF ProcessInv, Pcs, Reading
<1>3. CASE ActionTargets
  <2>1. /\ got' = [got EXCEPT !["actions"] = Answer("actions")]
        /\ pc' \in {"actions-check", "pinning"}
        /\ UNCHANGED <<asked, targets, doc>> /\ pc = "actions"
    BY <1>3 DEF ActionTargets, Goto, Keep
  <2>2. "actions" \in DOMAIN NothingRead
    BY DEF NothingRead
  <2>3. got'.actions = Answer("actions") /\ DOMAIN got' = DOMAIN NothingRead
    BY <2>1, <2>2 DEF ProcessInv
  <2> QED BY <1>1, <2>1, <2>3 DEF ProcessInv, Pcs, Reading
<1>4. CASE FindRun \/ CheckFails \/ DepsFail \/ ReadFails \/ AskOsv \/ AskDeps \/ Clean
  BY <1>4 DEF FindRun, CheckFails, DepsFail, ReadFails, AskOsv, AskDeps, Clean, Fail, Goto, Keep,
     processVars, ProcessInv, Pcs, Reading, Reads, Range
<1>5. CASE AuditTargets
  BY <1>1, <1>5 DEF AuditTargets, Goto, Keep, ProcessInv, Pcs, Reading
<1>6. CASE Checked \/ FactsDone \/ CheckedActions
  BY <1>6 DEF Checked, FactsDone, CheckedActions, Goto, Keep, ProcessInv, Pcs, Reading
<1>7. CASE RecordSupply
  BY <1>7 DEF RecordSupply, Observe, Fail, Goto, Keep, ProcessInv, Pcs, Reading
<1>8. CASE Build \/ CompareAdvisories
  BY <1>8 DEF Build, CompareAdvisories, Goto, Keep, ProcessInv, Pcs, Reading
<1> QED BY <1>2, <1>3, <1>4, <1>5, <1>6, <1>7, <1>8 DEF Next, AuditStep

(* Findings are of nodes, and of records.                                  *)
LEMMA FindingsAre ==
  ASSUME NEW nodes, Asked(nodes)
  PROVE  Findings(knownAt) \subseteq [node : Node, advisory : Records]
BY DEF Asked, Findings, Dedupe

(* CheckActions' rewrapping is of the same nodes and records.              *)
LEMMA RewrappedIsExact ==
  ASSUME NEW nodes, Attributed(nodes, Findings(knownAt))
  PROVE  Attributed(nodes, ActionAdvisories(knownAt))
<1> DEFINE wrap(f) == [node |-> f.node, action |-> ActionName(f.node), ref |-> f.node.version,
                       advisory |-> f.advisory]
<1>1. /\ \A f : wrap(f).node = f.node /\ wrap(f).advisory = f.advisory
      /\ ActionAdvisories(knownAt) = {wrap(f) : f \in Findings(knownAt)}
  BY DEF ActionAdvisories
<1> HIDE DEF wrap
<1> QED BY <1>1 DEF Attributed, SaysExactly

(* Whatever BeginCheck is given, that is what it asks about.               *)
LEMMA SelectedIsAsked ==
  ASSUME NEW s \in Seq(Node), BeginCheck(s), targets' = s
  PROVE  Asked(Range(targets))'
<1>1. Range(s) \subseteq Node /\ s \in Seq(Range(s)) /\ (s = <<>> => Range(s) = {})
  BY DEF Range
<1>2. Range(targets)' = Range(s)
  BY DEF Range
<1> QED BY <1>1, <1>2 DEF BeginCheck, Asked

LEMMA AdvisoryStep ==
  ASSUME AuditInv, Next
  PROVE  AdvisoryInv'
<1>0. /\ ProcessInv /\ AdvisoryInv /\ ProcessInv' /\ asked' = asked
      /\ ~(pc = "projects" /\ pc' = "cross") => knownAt' = knownAt
  <2>1. asked' = asked /\ (~(pc = "projects" /\ pc' = "cross") => knownAt' = knownAt)
    BY DEF Next, AuditStep, FindRun, AuditTargets, AskOsv, Checked, CheckFails, AskDeps, FactsDone,
       DepsFail, RecordSupply, Observe, Read, ActionTargets, CheckedActions, ReadFails, Build,
       CompareAdvisories, Clean, Fail, Goto, Keep, processVars
  <2> QED BY <2>1, ProcessStep DEF AuditInv
<1>1. ASSUME NEW nodes, NEW claims, ~(pc = "projects" /\ pc' = "cross")
      PROVE  Attributed(nodes, claims)' <=> Attributed(nodes, claims)
  BY <1>0, <1>1 DEF Attributed, SaysExactly, KnownAbout
<1>2. CASE Fail
  BY <1>0, <1>2 DEF Fail, Goto, AdvisoryInv, Reading
<1>3. CASE FindRun
  BY <1>0, <1>2, <1>3 DEF FindRun, Goto, AdvisoryInv, Reading
<1>4. CASE AuditTargets
  <2>1. /\ targets' = Selected /\ UNCHANGED <<found, actionsFound>> /\ pc = "targets"
        /\ \/ pc' = "failed"
           \/ pc' = "owners" /\ Selected = <<>>
           \/ pc' = "facts" /\ asked.command = "risk"
           \/ pc' = "check" /\ BeginCheck(Selected)
    BY <1>0, <1>4 DEF AuditTargets, Goto, ProcessInv
  <2>2. found = {} /\ actionsFound = {} /\ found' = {} /\ actionsFound' = {}
    BY <1>0, <2>1 DEF AdvisoryInv
  <2>3. CASE pc' = "failed"
    BY <2>2, <2>3 DEF AdvisoryInv, Reading
  <2>4. CASE pc' = "owners" /\ Selected = <<>>
    <3>1. Range(targets') = {}
      BY <2>1, <2>4 DEF Range
    <3>2. Attributed(Range(targets), found)'
      BY <2>2, <3>1 DEF Attributed, SaysExactly
    <3> QED BY <2>2, <2>4, <3>2 DEF AdvisoryInv, Reading
  <2>5. CASE pc' = "facts" /\ asked.command = "risk"
    BY <1>0, <2>2, <2>5 DEF AdvisoryInv, Reading
  <2>6. CASE pc' = "check" /\ BeginCheck(Selected)
    <3>1. Selected \in Seq(Node)
      BY <1>0, <2>1 DEF ProcessInv
    <3>2. Asked(Range(targets))'
      BY <2>1, <2>6, <3>1, SelectedIsAsked
    <3> QED BY <2>2, <2>6, <3>2 DEF AdvisoryInv, Reading
  <2> QED BY <2>1, <2>3, <2>4, <2>5, <2>6
<1>5. CASE AskOsv
  <2>1. UNCHANGED processVars /\ CheckStep
    BY <1>5 DEF AskOsv
  <2>2. ASSUME NEW nodes, Asked(nodes) PROVE Asked(nodes)'
    BY <2>1, <2>2, CheckStepKeeps
  <2>3. Range(targets)' = Range(targets) /\ ActionNodes' = ActionNodes
    BY <2>1 DEF processVars, ActionNodes
  <2>4. /\ pc \in {"check", "cross"} => Asked(Range(targets))'
        /\ pc = "actions-check" => Asked(ActionNodes)'
    BY <1>0, <2>2, <2>3 DEF AdvisoryInv
  <2> QED BY <1>0, <1>1, <2>1, <2>3, <2>4 DEF processVars, AdvisoryInv, Reading
<1>6. CASE Checked
  <2>1. /\ pc = "check" /\ Returned /\ osv = "ok" /\ found' = Findings(knownAt)
        /\ UNCHANGED <<targets, actionsFound>> /\ pc' \in {"facts", "owners"}
    BY <1>6 DEF Checked, Goto
  <2>2. Asked(Range(targets)) /\ actionsFound = {}
    BY <1>0, <2>1 DEF AdvisoryInv
  <2>3. Attributed(Range(targets), found') /\ found' \subseteq [node : Node, advisory : Records]
    BY <2>1, <2>2, CheckReturns, FindingsAre
  <2>4. Attributed(Range(targets), found)'
    BY <1>1, <2>1, <2>3 DEF Range
  <2> QED BY <2>1, <2>2, <2>3, <2>4 DEF AdvisoryInv, Reading
<1>7. CASE CheckFails \/ DepsFail \/ ReadFails
  BY <1>2, <1>7 DEF CheckFails, DepsFail, ReadFails
<1>8. CASE AskDeps \/ Clean
  <2>1. UNCHANGED <<osvVars, pc, targets, found, actionsFound, got, assessments, doc>>
    BY <1>8 DEF AskDeps, Clean, processVars
  <2>2. \A nodes : Asked(nodes)' <=> Asked(nodes)
    BY <2>1, OsvUntouched
  <2>3. Range(targets)' = Range(targets) /\ ActionNodes' = ActionNodes
    BY <2>1 DEF ActionNodes
  <2> QED BY <1>0, <1>1, <2>1, <2>2, <2>3 DEF AdvisoryInv, Reading
<1>9. CASE FactsDone
  <2>1. /\ UNCHANGED <<targets, found, actionsFound>> /\ pc = "facts" /\ pc' = "projects"
    BY <1>9 DEF FactsDone, Goto
  <2> QED BY <1>0, <1>1, <2>1 DEF AdvisoryInv, Reading
<1>10. CASE RecordSupply
  <2>1. CASE Fail
    BY <1>2, <2>1
  <2>2. CASE Observe(TRUE) \/ Observe(FALSE)
    <3>1. /\ UNCHANGED <<targets, found, actionsFound>> /\ pc = "projects"
          /\ \/ pc' = "cross" /\ BeginCheck(targets)
             \/ pc' = "owners" /\ asked.command = "report"
      BY <1>0, <1>10, <2>2 DEF RecordSupply, Observe, Goto, ProcessInv
    <3>2. CASE pc' = "cross" /\ BeginCheck(targets)
      <4>1. Asked(Range(targets))'
        BY <1>0, <3>1, <3>2, SelectedIsAsked DEF ProcessInv
      <4> QED BY <1>0, <3>1, <3>2, <4>1 DEF AdvisoryInv, Reading
    <3>3. CASE pc' = "owners" /\ asked.command = "report"
      BY <1>0, <1>1, <3>1, <3>3 DEF AdvisoryInv, Reading
    <3> QED BY <3>1, <3>2, <3>3
  <2> QED BY <1>10, <2>1, <2>2 DEF RecordSupply
<1>11. CASE Read
  <2>1. /\ pc \in {"owners", "nodes", "pins", "surfaces", "pinning"} /\ pc' = After(pc)
        /\ got' = [got EXCEPT ![pc] = Answer(pc)] /\ UNCHANGED <<targets, found, actionsFound>>
    BY <1>11 DEF Read, Goto
  <2>2. /\ pc' \in {"nodes", "pins", "surfaces", "actions", "build"}
        /\ pc' = "build" <=> pc = "pinning"
    BY <2>1 DEF After
  <2>3. got'.actions = got.actions
    BY <1>0, <2>1 DEF ProcessInv
  <2>4. ActionNodes' = ActionNodes
    BY <2>3 DEF ActionNodes
  <2> QED BY <1>0, <1>1, <2>1, <2>2, <2>4 DEF AdvisoryInv, Reading
<1>12. CASE ActionTargets
  <2> DEFINE named == Kept(Answer("actions"), {n \in Node : IsAction(n)})
  <2>1. /\ pc = "actions" /\ got' = [got EXCEPT !["actions"] = Answer("actions")]
        /\ UNCHANGED <<targets, found, actionsFound>>
        /\ \/ pc' = "actions-check" /\ BeginCheck(named)
           \/ pc' = "pinning" /\ named = <<>>
    BY <1>12 DEF ActionTargets, Goto
  <2>2. got'.actions = Answer("actions") /\ Answer("actions") \in Seq(Node)
    <3>1. "actions" \in DOMAIN NothingRead
      BY DEF NothingRead
    <3>2. got'.actions = Answer("actions")
      BY <1>0, <2>1, <3>1 DEF ProcessInv
    <3> QED BY <1>0, <3>2 DEF ProcessInv
  <2>3. named \in Seq(Node) /\ Range(named) = ActionNodes'
    <3>1. named \in Seq(Node)
          /\ Range(named) = Range(Answer("actions")) \cap {n \in Node : IsAction(n)}
      BY <2>2, FilterIs
    <3>2. Range(Answer("actions")) \subseteq Node
      BY <2>2 DEF Range
    <3> QED BY <2>2, <3>1, <3>2 DEF ActionNodes
  <2>4. actionsFound = {} /\ Attributed(Range(targets), found)
    BY <1>0, <2>1 DEF AdvisoryInv, Reading
  <2>5. CASE pc' = "actions-check" /\ BeginCheck(named)
    <3> HIDE DEF named
    <3>1. PICK s \in Seq(Node) : s = named
      BY <2>3
    <3>2. Asked(Range(s))' /\ ActionNodes' = Range(s)
      BY <2>3, <2>5, <3>1, CheckBegins
    <3>3. Asked(ActionNodes)'
      BY <3>2 DEF Asked
    <3> QED BY <1>0, <1>1, <2>1, <2>4, <2>5, <3>3 DEF AdvisoryInv, Reading
  <2>6. CASE pc' = "pinning" /\ named = <<>>
    <3>1. ActionNodes' = {} /\ actionsFound' = {}
      BY <2>1, <2>3, <2>4, <2>6 DEF Range
    <3>2. Attributed(ActionNodes, actionsFound)'
      BY <3>1 DEF Attributed, SaysExactly
    <3> QED BY <1>0, <1>1, <2>1, <2>4, <2>6, <3>2 DEF AdvisoryInv, Reading
  <2> QED BY <2>1, <2>5, <2>6
<1>13. CASE CheckedActions
  <2>1. /\ pc = "actions-check" /\ Returned /\ osv = "ok" /\ pc' = "pinning"
        /\ actionsFound' = ActionAdvisories(knownAt) /\ UNCHANGED <<targets, found, got>>
    BY <1>13 DEF CheckedActions, Goto
  <2>2. Attributed(ActionNodes, actionsFound')
    <3>1. Asked(ActionNodes)
      BY <1>0, <2>1 DEF AdvisoryInv
    <3> QED BY <2>1, <3>1, CheckReturns, RewrappedIsExact
  <2>3. Attributed(ActionNodes, actionsFound)'
    <3>1. ActionNodes' = ActionNodes
      BY <2>1 DEF ActionNodes
    <3>2. knownAt' = knownAt
      BY <1>0, <2>1
    <3> QED BY <2>2, <3>1, <3>2 DEF Attributed, SaysExactly, KnownAbout
  <2>4. Attributed(Range(targets), found)'
    <3>1. Attributed(Range(targets), found)
      BY <1>0, <2>1 DEF AdvisoryInv, Reading
    <3> QED BY <1>1, <2>1, <3>1
  <2> QED BY <1>0, <2>1, <2>3, <2>4 DEF AdvisoryInv, Reading
<1>14. CASE Build
  <2>1. /\ pc = "build" /\ pc' = "done" /\ UNCHANGED <<targets, found, assessments, actionsFound, got>>
        /\ doc' = BuildReport(Range(targets), found, assessments, got, Range(got.actions), actionsFound)
    BY <1>14 DEF Build, Goto
  <2>2. ActionNodes' = ActionNodes
    BY <2>1 DEF ActionNodes
  <2> QED BY <1>0, <1>1, <2>1, <2>2 DEF AdvisoryInv, Reading
<1>15. CASE CompareAdvisories
  <2>1. /\ pc = "cross" /\ Returned /\ osv = "ok" /\ found' = Findings(knownAt) /\ pc' = "done"
        /\ UNCHANGED <<targets, actionsFound>>
    BY <1>15 DEF CompareAdvisories, Goto
  <2>2. Asked(Range(targets)) /\ asked.command = "risk"
    BY <1>0, <2>1 DEF AdvisoryInv, ProcessInv
  <2>3. Attributed(Range(targets), found') /\ found' \subseteq [node : Node, advisory : Records]
    BY <2>1, <2>2, CheckReturns, FindingsAre
  <2>4. Attributed(Range(targets), found)'
    BY <1>1, <2>1, <2>3 DEF Range
  <2> QED BY <1>0, <2>1, <2>2, <2>3, <2>4 DEF AdvisoryInv, Reading
<1> QED BY <1>3, <1>4, <1>5, <1>6, <1>7, <1>8, <1>9, <1>10, <1>11, <1>12, <1>13, <1>14, <1>15
        DEF Next, AuditStep

LEMMA SupplyStep ==
  ASSUME AuditInv, Next
  PROVE  SupplyInv'
<1>0. ProcessInv /\ SupplyInv /\ ProcessInv'
  BY ProcessStep DEF AuditInv
<1>1. ASSUME UNCHANGED <<supplyVars, targets, assessments>>,
             \/ pc' = pc
             \/ pc = "run" /\ pc' = "targets"
             \/ pc' \notin {"run", "targets", "check", "facts", "projects"}
      PROVE  SupplyInv'
  <2>1. /\ FactsInv' <=> FactsInv
        /\ FactsSettled' <=> FactsSettled
        /\ ProjectsInv' <=> ProjectsInv
        /\ ProjectsReturned' <=> ProjectsReturned
        /\ Assess' = Assess
    BY <1>1, SupplyUntouched
  <2>2. projects' = projects
    BY <1>1 DEF supplyVars
  <2> QED BY <1>0, <1>1, <2>1, <2>2 DEF SupplyInv
<1>2. CASE Fail
  BY <1>1, <1>2 DEF Fail, Goto, Keep
<1>3. CASE FindRun \/ AskOsv \/ Clean
  BY <1>1, <1>2, <1>3 DEF FindRun, AskOsv, Clean, Goto, Keep, processVars
<1>4. CASE CheckFails \/ DepsFail \/ ReadFails
  BY <1>2, <1>4 DEF CheckFails, DepsFail, ReadFails
<1>5. CASE Read \/ ActionTargets \/ CheckedActions
  BY <1>1, <1>5 DEF Read, After, ActionTargets, CheckedActions, Goto, Keep
<1>6. CASE Build \/ CompareAdvisories
  BY <1>1, <1>6 DEF Build, CompareAdvisories, Goto, Keep
<1>7. CASE AuditTargets
  <2>1. /\ targets' = Selected /\ UNCHANGED assessments /\ pc = "targets"
        /\ \/ pc' \in {"failed", "owners", "check"} /\ UNCHANGED supplyVars
           \/ pc' = "facts" /\ BeginFacts(Selected)
    BY <1>0, <1>7 DEF AuditTargets, Goto, ProcessInv
  <2>2. projects = <<>> /\ assessments = <<>> /\ assessments' = <<>>
    BY <1>0, <2>1 DEF SupplyInv
  <2>3. CASE pc' \in {"failed", "owners", "check"} /\ UNCHANGED supplyVars
    BY <2>2, <2>3 DEF SupplyInv, supplyVars
  <2>4. CASE pc' = "facts" /\ BeginFacts(Selected)
    <3>1. targets' \in Seq(Node) /\ BeginFacts(targets')
      BY <1>0, <2>1, <2>4, Zenon DEF ProcessInv
    <3>2. FactsInv' /\ projects' = <<>>
      BY <2>2, <2>4, <3>1, FactsBegin DEF BeginFacts
    <3> QED BY <2>2, <2>4, <3>2 DEF SupplyInv
  <2> QED BY <2>1, <2>3, <2>4
<1>8. CASE Checked
  <2>1. /\ targets' = targets /\ UNCHANGED assessments /\ pc = "check"
        /\ \/ pc' = "owners" /\ UNCHANGED supplyVars
           \/ pc' = "facts" /\ BeginFacts(targets)
    BY <1>8 DEF Checked, Goto
  <2>2. projects = <<>> /\ assessments = <<>> /\ assessments' = <<>>
    BY <1>0, <2>1 DEF SupplyInv
  <2>3. CASE pc' = "owners" /\ UNCHANGED supplyVars
    BY <2>2, <2>3 DEF SupplyInv
  <2>4. CASE pc' = "facts" /\ BeginFacts(targets)
    <3>1. targets' \in Seq(Node) /\ BeginFacts(targets')
      BY <1>0, <2>1, <2>4, Zenon DEF ProcessInv
    <3>2. FactsInv' /\ projects' = <<>>
      BY <2>2, <2>4, <3>1, FactsBegin DEF BeginFacts
    <3> QED BY <2>2, <2>4, <3>2 DEF SupplyInv
  <2> QED BY <2>1, <2>3, <2>4
<1>9. CASE AskDeps
  <2>1. /\ UNCHANGED processVars /\ pc' = pc /\ targets' = targets /\ assessments' = assessments
        /\ \/ /\ pc = "facts"
              /\ \E k \in DOMAIN chunks : TakeChunk(k) \/ ChunkAnswered(k) \/ ChunkFails(k)
           \/ /\ pc = "projects"
              /\ \E r \in DOMAIN calls : \/ TakeCall(r) \/ CallAnswered(r) \/ CallFails(r)
                                         \/ Throttled(r) \/ AskAgain(r)
    BY <1>9 DEF AskDeps, processVars
  <2>2. assessments = <<>>
    BY <1>0, <2>1 DEF SupplyInv
  <2>3. CASE pc = "facts"
    <3>1. PICK k \in DOMAIN chunks : TakeChunk(k) \/ ChunkAnswered(k) \/ ChunkFails(k)
      BY <2>1, <2>3
    <3>2. FactsInv' /\ projects' = projects
      BY <1>0, <2>1, <2>3, <3>1, FactsStepKeeps DEF SupplyInv, TakeChunk, ChunkAnswered, ChunkFails
    <3> QED BY <1>0, <2>1, <2>2, <2>3, <3>2 DEF SupplyInv
  <2>4. CASE pc = "projects"
    <3>1. PICK r \in DOMAIN calls : \/ TakeCall(r) \/ CallAnswered(r) \/ CallFails(r)
                                    \/ Throttled(r) \/ AskAgain(r)
      BY <2>1, <2>4
    <3>2. ProjectsInv' /\ facts' = facts
      BY <1>0, <2>4, <3>1, ProjectsStepKeeps DEF SupplyInv
    <3>3. FactsSettled'
      BY <1>0, <2>1, <2>4, <3>2 DEF SupplyInv, FactsSettled
    <3> QED BY <2>1, <2>2, <2>4, <3>2, <3>3 DEF SupplyInv
  <2> QED BY <2>1, <2>3, <2>4
<1>10. CASE FactsDone
  <2>1. /\ pc = "facts" /\ FactsReturned /\ deps = "ok" /\ pc' = "projects" /\ BeginProjects
        /\ UNCHANGED <<targets, assessments>>
    BY <1>10 DEF FactsDone, Goto
  <2>2. FactsSettled /\ projects = <<>> /\ assessments = <<>>
    BY <1>0, <2>1, FactsReturn DEF SupplyInv
  <2>3. /\ facts' = facts /\ projects' = projects
        /\ calls' = [r \in Repos |-> [pc |-> "waiting", attempt |-> 0]]
    BY <2>1 DEF BeginProjects
  <2>4. FactsSettled' /\ Repos' = Repos
    BY <2>1, <2>2, <2>3 DEF FactsSettled, Repos
  <2>5. ProjectsInv'
    BY <2>2, <2>3, <2>4 DEF ProjectsInv
  <2> QED BY <2>1, <2>2, <2>4, <2>5 DEF SupplyInv
<1>11. CASE RecordSupply
  <2>1. CASE Fail
    BY <1>2, <2>1
  <2>2. CASE Observe(TRUE) \/ Observe(FALSE)
    <3>1. /\ pc = "projects" /\ ProjectsReturned /\ assessments' = Assess
          /\ pc' \in {"cross", "owners"} /\ UNCHANGED <<supplyVars, targets>>
      BY <1>11, <2>2 DEF RecordSupply, Observe, Goto
    <3>2. FactsSettled /\ ProjectsInv
      BY <1>0, <3>1 DEF SupplyInv
    <3>3. /\ FactsSettled' /\ ProjectsInv' /\ ProjectsReturned' /\ Assess' = Assess
      BY <3>1, <3>2, SupplyUntouched
    <3> QED BY <3>1, <3>3 DEF SupplyInv
  <2> QED BY <1>11, <2>1, <2>2 DEF RecordSupply
<1> QED BY <1>3, <1>4, <1>5, <1>6, <1>7, <1>8, <1>9, <1>10, <1>11 DEF Next, AuditStep

(* Whatever the store has, OSV and deps.dev answer and another process     *)
(* deletes: a command knows what it asked, and what it has is exact.       *)
THEOREM AuditInvariant == Spec => []AuditInv
<1>1. AuditInv /\ UNCHANGED vars => AuditInv'
  <2> SUFFICES ASSUME AuditInv, UNCHANGED vars PROVE AuditInv'
    OBVIOUS
  <2>1. UNCHANGED osvVars /\ UNCHANGED supplyVars /\ UNCHANGED processVars
    BY DEF vars
  <2>2. /\ UNCHANGED <<asked, knownAt, pc, targets, found, assessments, actionsFound, got, doc>>
        /\ Range(targets)' = Range(targets) /\ ActionNodes' = ActionNodes
        /\ projects' = projects
    BY <2>1 DEF processVars, supplyVars, ActionNodes
  <2>3. ProcessInv'
    BY <2>2 DEF AuditInv, ProcessInv, Pcs, Reading
  <2>4. /\ \A nodes : Asked(nodes)' <=> Asked(nodes)
        /\ \A nodes, claims : Attributed(nodes, claims)' <=> Attributed(nodes, claims)
    BY <2>1, <2>2, OsvUntouched DEF Attributed, SaysExactly, KnownAbout
  <2>5. AdvisoryInv'
    BY <2>2, <2>4 DEF AuditInv, AdvisoryInv, Reading
  <2>6. SupplyInv'
    BY <2>1, <2>2, SupplyUntouched DEF AuditInv, SupplyInv
  <2> QED BY <2>3, <2>5, <2>6 DEF AuditInv
<1>2. AuditInv /\ Next => AuditInv'
  BY ProcessStep, AdvisoryStep, SupplyStep DEF AuditInv
<1> QED BY <1>1, <1>2, InitAuditInv, PTL DEF Spec

-----------------------------------------------------------------------------
(* What it comes to.                                                       *)

(* A report has every advisory known of what it checked, on the package it *)
(* is about and in the line of every file that names it, and no other, and *)
(* of the actions likewise (osv.go, Check; report.go, computeExposure).    *)
THEOREM AuditAdvisories == Spec => []AdvisoriesAreExact
<1>1. AuditInv => AdvisoriesAreExact
  <2> SUFFICES ASSUME AuditInv PROVE AdvisoriesAreExact
    OBVIOUS
  <2>1. doc # NoDoc => pc = "done" /\ SaysExactly(Range(targets), found)
    BY DEF AuditInv, ProcessInv, AdvisoryInv, Attributed
  <2>2. ASSUME Reported
        PROVE  /\ SaysExactly({n \in Range(got.actions) : IsAction(n)}, doc.actionAdvisories)
               /\ \A n \in Flawed(Range(targets)) : Files(n) \subseteq DOMAIN doc.exposure
               /\ \A s \in DOMAIN doc.exposure :
                    doc.exposure[s].affected =
                      Cardinality({n \in Flawed(Range(targets)) : s \in Files(n)})
    <3>1. /\ SaysExactly(Range(targets), found) /\ SaysExactly(ActionNodes, actionsFound)
          /\ doc = BuildReport(Range(targets), found, assessments, got, Range(got.actions),
                               actionsFound)
      BY <2>1, <2>2 DEF Reported, AuditInv, AdvisoryInv, Attributed
    <3>2. /\ doc.actionAdvisories = actionsFound
          /\ doc.exposure = Exposure(Range(targets), found, got.surfaces)
      BY <3>1 DEF BuildReport
    <3>3. {f.node : f \in found} = Flawed(Range(targets))
      BY <3>1 DEF SaysExactly, Flawed
    <3>4. \A n : BucketsOf(got.surfaces, n) = Files(n)
      BY DEF BucketsOf, IsDirect, Files
    <3>5. /\ DOMAIN doc.exposure = UNION {Files(n) : n \in Range(targets)}
          /\ \A s \in DOMAIN doc.exposure :
               doc.exposure[s].affected = Cardinality({n \in Flawed(Range(targets)) : s \in Files(n)})
      <4> DEFINE e      == Exposure(Range(targets), found, got.surfaces)
                 hit(s) == {n \in {f.node : f \in found} : s \in BucketsOf(got.surfaces, n)}
      <4>1. /\ DOMAIN e = UNION {BucketsOf(got.surfaces, n) : n \in Range(targets)}
            /\ \A s \in DOMAIN e : e[s].affected = Cardinality(hit(s))
        BY DEF Exposure
      <4>2. \A s : hit(s) = {n \in Flawed(Range(targets)) : s \in Files(n)}
        BY <3>3, <3>4
      <4>3. UNION {BucketsOf(got.surfaces, n) : n \in Range(targets)}
              = UNION {Files(n) : n \in Range(targets)}
        BY <3>4
      <4> HIDE DEF e, hit
      <4>4. doc.exposure = e
        BY <3>2 DEF e
      <4> QED BY <4>1, <4>2, <4>3, <4>4
    <3>6. Flawed(Range(targets)) \subseteq Range(targets)
      BY DEF Flawed
    <3> QED BY <3>1, <3>2, <3>5, <3>6 DEF ActionNodes
  <2> QED BY <2>1, <2>2 DEF AdvisoriesAreExact
<1> QED BY <1>1, AuditInvariant, PTL

(* Facts and scorecards stay with their package: a signal is of the        *)
(* package's own record and of a repository the artifact vouches for when  *)
(* it vouches for one (depsdev.go, Facts; risk.go, Assess).                *)
THEOREM AuditPosture == Spec => []PostureIsItsOwn
<1>1. AuditInv => PostureIsItsOwn
  <2> SUFFICES ASSUME AuditInv, assessments # <<>>, NEW i \in DOMAIN targets
               PROVE  LET n       == targets[i]
                          a       == assessments[i]
                          links   == IF n \in DOMAIN Listed /\ Queryable(n)
                                     THEN Range(Listed[n].related) ELSE {}
                          sources == {l \in links : l.type = "SOURCE_REPO"}
                          vouched == {l \in sources : l.provenance = "SLSA_ATTESTATION"}
                      IN  /\ a.node = n
                          /\ "unlisted" \in a.signals <=> Queryable(n) /\ n \notin DOMAIN Listed
                          /\ a.repo \in {l.id : l \in IF vouched # {} THEN vouched ELSE sources}
                               \/ (sources = {} /\ a.repo = NoRepo)
                          /\ \A rule \in ScorecardRules :
                               LET bad == /\ a.repo \in DOMAIN Scorecards
                                          /\ rule[1] \in DOMAIN Scorecards[a.repo].checks
                                          /\ Scorecards[a.repo].checks[rule[1]] \in 0 .. rule[2]
                               IN  /\ rule[3] \in a.signals => bad
                                   /\ bad /\ a.repo \notin Unreachable => rule[3] \in a.signals
    BY DEF PostureIsItsOwn
  <2> DEFINE n == targets[i]
             a == assessments[i]
             f == facts[i]
             links   == IF n \in DOMAIN Listed /\ Queryable(n) THEN Range(Listed[n].related) ELSE {}
             sources == {l \in links : l.type = "SOURCE_REPO"}
             vouched == {l \in sources : l.provenance = "SLSA_ATTESTATION"}
  <2>1. FactsSettled /\ ProjectsInv /\ ProjectsReturned /\ assessments = Assess
    BY DEF AuditInv, SupplyInv
  <2>2. i \in DOMAIN facts /\ f = FactOf(n)
    BY <2>1 DEF FactsSettled
  <2>3. a.node = f.node /\ a.repo = f.sourceRepo /\ a.signals = SignalsOf(f)
    BY <2>1, <2>2 DEF Assess
  <2>4. f.sourceRepo # NoRepo => f.sourceRepo \in Repos
    BY <2>2 DEF Repos
  <2>5. a.node = n
    BY <2>2, <2>3, FactFields
  <2>6. a.repo \in {l.id : l \in IF vouched # {} THEN vouched ELSE sources}
          \/ (sources = {} /\ a.repo = NoRepo)
    <3>1. CASE n \in DOMAIN Listed /\ Queryable(n)
      <4>1. f.sourceRepo = Source(Listed[n]).id
        BY <2>2, <3>1 DEF FactOf, Looked, ApplyVersion
      <4>2. links = Range(Listed[n].related)
        BY <3>1
      <4> HIDE DEF n, a, f
      <4>3. \/ Source(Listed[n]).id \in {l.id : l \in IF vouched # {} THEN vouched ELSE sources}
            \/ sources = {} /\ Source(Listed[n]).id = NoRepo
        BY <3>1, <4>2, SourceIs, Zenon
      <4> QED BY <2>3, <4>1, <4>3
    <3>2. CASE ~(n \in DOMAIN Listed /\ Queryable(n))
      <4>1. f.sourceRepo = NoRepo
        <5> HIDE DEF n
        <5>1. FactOf(n) = Unasked(n)
          BY <3>2, Zenon DEF FactOf, Looked
        <5>2. Unasked(n).sourceRepo = NoRepo
          BY DEF Unasked
        <5> QED BY <2>2, <5>1, <5>2, Zenon
      <4>2. sources = {}
        BY <3>2
      <4> QED BY <2>3, <4>1, <4>2
    <3> QED BY <3>1, <3>2
  <2>7. /\ "unlisted" \in SignalsOf(f) <=> Queryable(n) /\ n \notin DOMAIN Listed
        /\ \A rule \in ScorecardRules :
             LET r   == f.sourceRepo
                 bad == /\ r \in DOMAIN Scorecards
                        /\ rule[1] \in DOMAIN Scorecards[r].checks
                        /\ Scorecards[r].checks[rule[1]] \in 0 .. rule[2]
             IN  /\ rule[3] \in SignalsOf(f) => bad
                 /\ bad /\ r \notin Unreachable => rule[3] \in SignalsOf(f)
    BY <2>1, <2>2, <2>4, SignalsAreOwn
  <2> HIDE DEF f, a, n
  <2> QED BY <2>3, <2>5, <2>6, <2>7 DEF n, a
<1> QED BY <1>1, AuditInvariant, PTL

(* There are finitely many findings.                                       *)
LEMMA RangeIsFinite ==
  ASSUME NEW T, NEW s \in Seq(T)
  PROVE  IsFiniteSet(Range(s))
<1>1. DOMAIN s = 1..Len(s) /\ Len(s) \in Int /\ 1 \in Int /\ s \in [1..Len(s) -> T]
  OBVIOUS
<1>2. IsFiniteSet(1..Len(s))
  BY <1>1, FS_Interval
<1>3. s \in Surjection(1..Len(s), Range(s))
  BY <1>1 DEF Surjection, Range
<1> QED BY <1>2, <1>3, FS_Surjection

LEMMA FindingsAreFinite ==
  ASSUME NEW fs, fs \subseteq [node : Node, advisory : Records]
  PROVE  IsFiniteSet(fs)
<1>1. IsFiniteSet(Node)
  BY FilingAssumption, RangeIsFinite DEF Node
<1>2. IsFiniteSet(Records)
  <2> DEFINE g == [id \in Id |-> Record[id]]
  <2>1. IsFiniteSet(Id)
    BY AdvisoryAssumption, RangeIsFinite DEF Id
  <2>2. g \in Surjection(Id, Records)
    BY DEF Surjection, Records
  <2> QED BY <2>1, <2>2, FS_Surjection
<1>3. IsFiniteSet(Node \X Records)
  BY <1>1, <1>2, FS_Product
<1> DEFINE R == [node : Node, advisory : Records]
           p == [f \in R |-> <<f.node, f.advisory>>]
<1>4. p \in Injection(R, Node \X Records)
  <2>1. p \in [R -> Node \X Records]
    OBVIOUS
  <2>2. \A f, g \in R : p[f] = p[g] => f = g
    OBVIOUS
  <2> HIDE DEF p, R
  <2> QED BY <2>1, <2>2 DEF Injection, IsInjective
<1>5. IsFiniteSet(R)
  BY <1>3, <1>4, FS_Injection
<1> QED BY <1>5, FS_Subset

(* A package that is known to be malicious leaves no grade but F, and the  *)
(* worst score, though its rated twin is what the report shows of it       *)
(* (score.go, Compute; osv.go, dedupe).                                    *)
THEOREM AuditMalice == Spec => []MaliceClampsTheGrade
<1>1. AuditInv => MaliceClampsTheGrade
  <2> SUFFICES ASSUME AuditInv, Reported, NEW n \in Range(targets), NEW a \in KnownAbout(n),
                      a.id \in Mal
               PROVE  /\ doc.score.score = 100
                      /\ doc.score.grade \in {"F", NoGrade}
                      /\ doc.score.grade = NoGrade =>
                           2 * doc.input.auditable < doc.input.surface \/ doc.input.surface = 0
    BY DEF MaliceClampsTheGrade
  <2>1. /\ Attributed(Range(targets), found) /\ found \subseteq [node : Node, advisory : Records]
        /\ doc = BuildReport(Range(targets), found, assessments, got, Range(got.actions),
                             actionsFound)
    BY DEF Reported, AuditInv, ProcessInv, AdvisoryInv
  <2>2. PICK f \in found : f.node = n /\ (f.advisory = a \/ a.id \in Range(f.advisory.aliases))
    BY <2>1 DEF Attributed
  <2>3. f \in Rows(found, "MALICIOUS")
    BY <2>2 DEF Rows, Label, SeverityLabel, Malicious
  <2>4. /\ IsFiniteSet(Rows(found, "MALICIOUS"))
        /\ Cardinality(Rows(found, "MALICIOUS")) \in Nat /\ Cardinality(Rows(found, "MALICIOUS")) # 0
    BY <2>1, <2>3, FindingsAreFinite, FS_Subset, FS_EmptySet, FS_CardinalityType DEF Rows
  <2> DEFINE in == ScoreInput(Range(targets), found, assessments, got.nodes, Range(got.actions),
                              actionsFound, got.pins)
  <2>5. doc.input = in /\ doc.score = Compute(in)
    BY <2>1 DEF BuildReport
  <2>6. in.malicious = Cardinality(Rows(found, "MALICIOUS"))
    BY DEF ScoreInput, Tally
  <2> HIDE DEF in
  <2>7. in.malicious > 0 /\ in.malicious # 0
    BY <2>4, <2>6
  <2>8. Points(in) = 100
    BY <2>7 DEF Points
  <2>9. Grade(in) = IF Suppressed(in) THEN NoGrade ELSE "F"
    BY <2>7 DEF Grade
  <2> QED BY <2>5, <2>8, <2>9 DEF Compute, Suppressed, NoGrade
<1> QED BY <1>1, AuditInvariant, PTL

==============================================================================
