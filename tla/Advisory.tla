------------------------------ MODULE Advisory ------------------------------
(***************************************************************************)
(* internal/advisory: which published advisories affect which nodes, asked *)
(* of OSV in two stages.  Batches of queries are answered with ids, by     *)
(* position; then each distinct id is fetched once, through a bounded pool.*)
(*                                                                         *)
(* A node is its PURL taken apart: a type, the parts of a name, and a      *)
(* version that is <<>>, <<n>> or <<"v", n>>.  Instants are numbers, 0 the *)
(* zero time.                                                              *)
(***************************************************************************)
EXTENDS Integers, FiniteSets, Lists

CONSTANTS
  IdOrder,    \* the ids of advisories, in byte order
  Mal, Cve,   \* those that start with MAL- and with CVE-
  Record,     \* what OSV has on each
  Filed,      \* what OSV files them under: [id, ecosystem, name, versions]
  OsvBatch,   \* 1000 in the code
  Fetchers    \* 12 in the code

Id == Range(IdOrder)

ASSUME AdvisoryAssumption ==
  /\ IdOrder \in Seq(Id) /\ IsInjective(IdOrder) /\ Mal \subseteq Id /\ Cve \subseteq Id
  /\ OsvBatch \in Nat \ {0} /\ Fetchers \in Nat \ {0}

VARIABLES
  pending,  \* nodes no batch has asked about yet
  idsFor,   \* the ids answered, by node
  todo,     \* ids fetchAll has not reached yet
  flight,   \* ids being fetched
  vulns,    \* the client's records
  osv       \* "ok", or "failed" once something was refused

osvVars == <<pending, idsFor, todo, flight, vulns, osv>>

Precedes(a, b) == \E i, j \in DOMAIN IdOrder : IdOrder[i] = a /\ IdOrder[j] = b /\ i < j

-----------------------------------------------------------------------------
(* One record.                                                             *)

NoCVE == "no CVE"

(* The first CVE among the aliases, or the record's own id.                *)
CVE(a) ==
  LET named == {i \in DOMAIN a.aliases : a.aliases[i] \in Cve}
  IN  CASE named # {}                    -> a.aliases[Min(named)]
        [] named = {} /\ a.id \in Cve    -> a.id
        [] named = {} /\ a.id \notin Cve -> NoCVE

(* OSV: a record is filed under its own id, and those that share a CVE are *)
(* aliases of one another.                                                 *)
ASSUME RecordAssumption ==
  /\ NoCVE \notin Id
  /\ \A id \in Id : /\ Record[id].id = id /\ Record[id].summary \in BOOLEAN
                    /\ Record[id].aliases \in Seq(Range(Record[id].aliases))
  /\ \A x, y \in Id : CVE(Record[x]) = CVE(Record[y]) /\ CVE(Record[x]) # NoCVE =>
                       x = y \/ y \in Range(Record[x].aliases)

(* Mutant: only the record's own id is looked at.                          *)
Malicious_OwnId(a) == a.id \in Mal

Malicious(a) == a.id \in Mal \/ Range(a.aliases) \cap Mal # {}

SeverityLabel(a) ==
  CASE Malicious(a) -> "MALICIOUS"
    [] ~Malicious(a) /\ a.severity = "" -> "UNKNOWN"
    [] OTHER -> a.severity

(* Published by the instant, and not withdrawn by then.                    *)
Known(a, knownAt) ==
  knownAt # 0 => a.published <= knownAt /\ (a.withdrawn = 0 \/ a.withdrawn > knownAt)

Rated(a) == a.severity # ""
Better(a, b) ==
  CASE Rated(a) # Rated(b)     -> Rated(a)
    [] Rated(a) = Rated(b) /\ a.summary # b.summary -> a.summary
    [] OTHER -> Precedes(a.id, b.id)

Key(f) == <<f.node, IF CVE(f.advisory) = NoCVE THEN f.advisory.id ELSE CVE(f.advisory)>>

(* Records of one flaw in one node collapse to the best of them.           *)
Dedupe(found) ==
  {f \in found : \A g \in found \ {f} : Key(g) = Key(f) => Better(f.advisory, g.advisory)}

-----------------------------------------------------------------------------
(* The query a node is asked about with.                                   *)

(* A ref of owner/repo; a path below it names the same repository.         *)
IsAction(n) == n.type = "github" /\ Len(n.name) > 1
ActionName(n) == n.name

WithV(version) ==
  IF version # <<>> /\ Head(version) # "v" THEN <<"v">> \o version ELSE version

GoModule(name, version) == [ecosystem |-> "golang", name |-> name, version |-> WithV(version)]

IsProvider(n) == n.type = "terraform" /\ Len(n.name) = 2
TerraformProviderPURL(n) ==
  GoModule(<<"github.com", n.name[1], "terraform-provider", n.name[2]>>, n.version)

TerraformCLIPURL(n) == GoModule(<<"github.com", "hashicorp", "terraform">>, n.version)

QueryFor(n) ==
  CASE IsAction(n) -> [ecosystem |-> "GitHub Actions", name |-> ActionName(n), version |-> <<>>]
    [] IsProvider(n) -> TerraformProviderPURL(n)
    [] n.type = "terraform-cli" -> TerraformCLIPURL(n)
    [] OTHER -> [ecosystem |-> n.type, name |-> n.name, version |-> n.version]

(* What OSV answers: a query with no version matches whatever is filed     *)
(* under the name, one with a version only what lists it.                  *)
Served(q) ==
  {f.id : f \in {f \in Filed : /\ f.ecosystem = q.ecosystem /\ f.name = q.name
                               /\ q.version = <<>> \/ q.version \in f.versions}}

-----------------------------------------------------------------------------
(* Check.                                                                  *)

CheckIdle ==
  /\ pending = <<>> /\ idsFor = <<>> /\ todo = <<>> /\ flight = {}
  /\ vulns = {} /\ osv = "ok"

(* A client of its own, as New gives: no record is kept from another call. *)
BeginCheck(nodes) ==
  /\ pending' = nodes /\ idsFor' = [n \in Range(nodes) |-> {}]
  /\ todo' = <<>> /\ flight' = {} /\ vulns' = {} /\ osv' = "ok"

(* results[i] belongs to query[i].                                         *)
Answered(chunk, results) ==
  [n \in DOMAIN idsFor |->
     idsFor[n] \cup UNION {results[i] : i \in {i \in DOMAIN chunk : chunk[i] = n}}]

Post ==
  /\ osv = "ok" /\ pending # <<>>
  /\ LET size    == IF Len(pending) < OsvBatch THEN Len(pending) ELSE OsvBatch
         chunk   == SubSeq(pending, 1, size)
         results == [i \in DOMAIN chunk |-> Served(QueryFor(chunk[i]))]
     IN  /\ pending' = SubSeq(pending, size + 1, Len(pending))
         /\ idsFor' = Answered(chunk, results)
         /\ todo' = IF pending' = <<>>
                    THEN Kept(IdOrder, UNION {idsFor'[n] : n \in DOMAIN idsFor})
                    ELSE <<>>
  /\ UNCHANGED <<flight, vulns, osv>>

PostFails ==
  /\ osv = "ok" /\ pending # <<>>
  /\ osv' = "failed" /\ pending' = <<>>
  /\ UNCHANGED <<idsFor, todo, flight, vulns>>

(* The loop waits for a slot, not the goroutine.                           *)
StartFetch ==
  /\ todo # <<>> /\ Cardinality(flight) < Fetchers
  /\ todo' = Tail(todo)
  /\ flight' = IF \E a \in vulns : a.id = Head(todo) THEN flight ELSE flight \cup {Head(todo)}
  /\ UNCHANGED <<pending, idsFor, vulns, osv>>

Fetched(id) ==
  /\ id \in flight /\ flight' = flight \ {id}
  /\ vulns' = vulns \cup {Record[id]}
  /\ UNCHANGED <<pending, idsFor, todo, osv>>

(* Mutant: the first error is not kept.                                    *)
FetchFails_Swallowed(id) ==
  /\ id \in flight /\ flight' = flight \ {id}
  /\ UNCHANGED <<pending, idsFor, todo, vulns, osv>>

(* The others go on: firstErr is looked at when all have returned.         *)
FetchFails(id) ==
  /\ id \in flight /\ flight' = flight \ {id}
  /\ osv' = "failed"
  /\ UNCHANGED <<pending, idsFor, todo, vulns>>

CheckStep ==
  \/ Post \/ PostFails \/ StartFetch
  \/ \E id \in flight : Fetched(id) \/ FetchFails(id)

Returned == pending = <<>> /\ todo = <<>> /\ flight = {}

Findings(knownAt) ==
  Dedupe({f \in [node : DOMAIN idsFor, advisory : vulns] :
            f.advisory.id \in idsFor[f.node] /\ Known(f.advisory, knownAt)})

(* CheckActions rewraps: the advisory is the action's, the ref unverified. *)
ActionAdvisories(knownAt) ==
  {[node |-> f.node, action |-> ActionName(f.node), ref |-> f.node.version,
    advisory |-> f.advisory] : f \in Findings(knownAt)}
==============================================================================
