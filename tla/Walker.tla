-------------------------------- MODULE Walker -------------------------------
(***************************************************************************)
(* internal/walk: the bounded, concurrent breadth-first walk that turns a  *)
(* repository into its dependency closure.                                 *)
(*                                                                         *)
(* A node id is a pair <<name, version>>; <<p, NoVersion>> is the          *)
(* versionless node a requirement on p is marked on when it is not         *)
(* expanded.  A requirement has the shape of the edge it becomes: its "to" *)
(* is versionless until a version is chosen.                               *)
(*                                                                         *)
(* Everything the goroutines of a level share is guarded by one mutex, and *)
(* no critical section blocks, so each critical section is one action.     *)
(***************************************************************************)
EXTENDS Graph, FiniteSets

CONSTANTS
  Package, Spec, Scope,   \* names, constraint texts, dependency scopes
  Version,                \* a set of numbers: their order is the scheme's
  Worker,                 \* the tokens of the level's semaphore
  Root, Unparsed,         \* names of the root and of unparsable files
  NoVersion, NoReq,
  (* the repository and the registry *)
  NumFiles, Manifest,     \* the claimed files, in the order they are read
  Resolvable, Schemed,    \* packages with a resolver, with a version scheme
  Listed, Published,      \* versions of a package, and when they appeared
  AllowedBy, BadSpec,     \* what a constraint admits; unparsable constraints
  ExactOf,                \* the version an exact constraint names
  Requires,               \* the requirements of a package version
  Pins,                   \* the lockfile's choice for a package
  (* bounds and environment *)
  Mode, MaxVersions, MaxDepth, MaxNodes, AsOf,
  Flaky,                  \* packages whose registry calls may fail
  Deadline                \* whether the context may expire

Ids == {<<Root, NoVersion>>} \cup (Package \X (Version \cup {NoVersion}))
         \cup ({Unparsed} \X (1..NumFiles))
RootId == <<Root, NoVersion>>

Reasons == {"", "bound:depth", "bound:nodes", "bound:timeout", "offline",
            "no-scheme", "unpinned-ref", "error:parse", "error:fetch",
            "error:pin-not-found", "error:badrange", "dev-not-installed",
            "extractor"}
Facts == [comp : Completeness, reason : Reasons]
Edges == [from : Ids, to : Ids, spec : Spec, scope : Scope]
Reqs  == [from : Ids, to : Package \X {NoVersion}, spec : Spec, scope : Scope]
Deps  == [name : Package, spec : Spec, scope : Scope]

ASSUME BoundsAssumption ==
  /\ MaxDepth \in Nat \ {0} /\ MaxNodes \in Nat \ {0} /\ MaxVersions \in Nat
  /\ AsOf \in Nat /\ Deadline \in BOOLEAN /\ Mode \in {"latest", "all"}
  /\ NumFiles \in Nat

ASSUME WorldAssumption ==
  /\ Version \subseteq Nat /\ NoVersion \notin Version
  /\ Root \notin Package /\ Unparsed \notin Package \cup {Root}
  /\ Resolvable \subseteq Package /\ Schemed \subseteq Package
  /\ NoReq \notin Reqs
  /\ BadSpec \subseteq Spec /\ "dev" \in Scope /\ "prod" \in Scope
  /\ "" \in Spec
  /\ Listed \in [Package -> SUBSET Version]
  /\ Published \in [Package -> [Version -> Nat]]
  /\ AllowedBy \in [Spec -> SUBSET Version]
  /\ ExactOf \in [Spec -> Version \cup {NoVersion}]
  /\ Pins \in [Package -> Version \cup {NoVersion}]
  /\ Requires \in [Package -> [Version -> SUBSET Deps]]

(* What an extractor returns for a file: nodes it has facts about and the  *)
(* edges it found, from the root or from the file's own node, which is of  *)
(* no ecosystem that the walk can choose a version in.                     *)
ASSUME ManifestAssumption ==
  \A f \in 1..NumFiles :
    /\ Manifest[f].broken \in BOOLEAN
    /\ DOMAIN Manifest[f].nodes \subseteq Ids
    /\ \A id \in DOMAIN Manifest[f].nodes : Manifest[f].nodes[id] \in Facts
    /\ Manifest[f].links \subseteq Edges
    /\ \A l \in Manifest[f].links :
         /\ l.from \in {RootId} \cup DOMAIN Manifest[f].nodes
         /\ l.from[1] \notin Resolvable \cap Schemed
         /\ l.to \in Package \X (Version \cup {NoVersion})
    /\ \A id \in DOMAIN Manifest[f].nodes : \E l \in Manifest[f].links : l.to = id

(* An extractor never names a bound of the walk, and gives no reason for   *)
(* what it resolved; "extractor" stands for the reasons of its own.        *)
ASSUME FactsAssumption ==
  \A f \in 1..NumFiles : \A id \in DOMAIN Manifest[f].nodes :
    /\ Manifest[f].nodes[id].reason \notin
         {"bound:depth", "bound:nodes", "bound:timeout"}
    /\ Manifest[f].nodes[id].comp = "resolved" =>
         Manifest[f].nodes[id].reason \in {"", "extractor"}

ASSUME FiniteAssumption == IsFiniteSet(Package) /\ IsFiniteSet(Version)

VARIABLES
  phase,     \* "seed", "walk", then "done" or "failed"
  nextFile,  \* the next file WalkIf hands to the extractors
  depth,     \* the level being expanded
  pending,   \* requirements of the level not yet handed to a goroutine
  next,      \* the frontier collected for the next level
  job,       \* the goroutine that holds each semaphore token
  firstErr,  \* an expansion returned an error
  expired,   \* ctx.Err() # nil
  node, edges, visited,
  fetched, lost, \* history: versions whose requirements were, or were not, read
  missed         \* history: versions were not listed, or one was cut unread

level == <<depth, pending, next>>
graph == <<node, edges, visited>>
hist  == <<fetched, lost, missed>>
vars  == <<phase, nextFile, level, job, firstErr, expired, graph, hist>>

Idle == [pc |-> "idle", req |-> NoReq, unseen |-> {}, kids |-> {},
         skipped |-> {}, err |-> FALSE]
Jobs == [pc : {"idle", "versions", "requirements"}, req : Reqs \cup {NoReq},
         unseen : SUBSET Version, kids : SUBSET Reqs,
         skipped : SUBSET Reqs, err : BOOLEAN]

Init ==
  /\ phase = "seed" /\ nextFile = 1
  /\ depth = 1 /\ pending = {} /\ next = {}
  /\ job = [w \in Worker |-> Idle]
  /\ firstErr = FALSE /\ expired = FALSE
  /\ node = [id \in Ids |-> IF id = RootId THEN Resolved ELSE Absent]
  /\ edges = {} /\ visited = {}
  /\ fetched = {} /\ lost = {} /\ missed = FALSE

-----------------------------------------------------------------------------
(* Choosing versions: filterAsOf, the lockfile pin, Enumerate.             *)

(* Mutant: --as-of recorded and ignored.                                   *)
Available_NoFilter(p) == Listed[p]

Available(p) ==
  IF AsOf = 0 THEN Listed[p] ELSE {v \in Listed[p] : Published[p][v] <= AsOf}
AsOfUnanswerable(p) ==
  AsOf # 0 /\ Listed[p] # {} /\ \A v \in Listed[p] : Published[p][v] = 0

Newest(S, n) == {v \in S : Cardinality({u \in S : u > v}) < n}
Enumerate(spec, avail) ==
  LET ok == avail \cap AllowedBy[spec]
  IN  CASE Mode = "latest"  -> Newest(ok, 1)
        [] MaxVersions = 0  -> ok
        [] OTHER            -> Newest(ok, MaxVersions)

Pinned(p) == Mode = "latest" /\ Pins[p] # NoVersion
PinMissing(p) == Pinned(p) /\ Pins[p] \notin Available(p)
(* An unparsable constraint is only noticed when there is a version to     *)
(* test against it.                                                        *)
BadRange(r) ==
  ~Pinned(r.to[1]) /\ r.spec \in BadSpec /\ Available(r.to[1]) # {}
Chosen(r) ==
  IF Pinned(r.to[1]) THEN {Pins[r.to[1]]}
                     ELSE Enumerate(r.spec, Available(r.to[1]))

Kids(p, v) ==
  {[from |-> <<p, v>>, to |-> <<d.name, NoVersion>>,
    spec |-> d.spec, scope |-> d.scope] : d \in Requires[p][v]}
SkipScope(r) == r.scope = "dev"

(* Mutant: the edge starts at the root instead of the requiring package.   *)
Link_FromRoot(r, v) == [r EXCEPT !.from = RootId, !.to = <<r.to[1], v>>]

(* The edge a requirement becomes once a version is chosen for it.         *)
Link(r, v) == [r EXCEPT !.to = <<r.to[1], v>>]

-----------------------------------------------------------------------------
(* Seeding: the files are read one after the other.                        *)

ReadBrokenFile ==
  /\ phase = "seed" /\ nextFile <= NumFiles /\ Manifest[nextFile].broken
  /\ LET id == <<Unparsed, nextFile>> IN
       /\ node' = AddAll(node, {id}, Declared("error:parse"))
       /\ edges' = edges \cup
            {[from |-> RootId, to |-> id, spec |-> "", scope |-> "prod"]}
  /\ nextFile' = nextFile + 1
  /\ UNCHANGED <<phase, level, job, firstErr, expired, visited, hist>>

ReadFile ==
  /\ phase = "seed" /\ nextFile <= NumFiles /\ ~Manifest[nextFile].broken
  /\ LET file     == Manifest[nextFile]
         supplied == AddEach(node, file.nodes)
         concrete == {l \in file.links : l.to[2] # NoVersion}
         unknown  == {l.to : l \in concrete} \ Present(supplied)
     IN  /\ node' = AddAll(supplied, unknown, Declared("unpinned-ref"))
         /\ edges' = edges \cup concrete
         /\ pending' = pending \cup (file.links \ concrete)
  /\ nextFile' = nextFile + 1
  /\ UNCHANGED <<phase, depth, next, job, firstErr, expired, visited, hist>>

SeedDone ==
  /\ phase = "seed" /\ nextFile > NumFiles
  /\ phase' = "walk"
  /\ UNCHANGED <<nextFile, level, job, firstErr, expired, graph, hist>>

(* The tree cannot be listed, a file cannot be read, or an edge's id cannot *)
(* be taken apart: Walk returns the error and no graph.                    *)
SeedFails ==
  /\ phase = "seed"
  /\ phase' = "failed"
  /\ UNCHANGED <<nextFile, level, job, firstErr, expired, graph, hist>>

-----------------------------------------------------------------------------
(* One level: a goroutine per requirement, as many at once as tokens.      *)

Spawn(w) ==
  /\ phase = "walk" /\ job[w].pc = "idle"
  /\ \E r \in pending :
       /\ pending' = pending \ {r}
       /\ job' = [job EXCEPT ![w].pc = "versions", ![w].req = r]
  /\ UNCHANGED <<phase, nextFile, depth, next, firstErr, expired, graph, hist>>

(* The requirement is settled without reading requirements: the goroutine  *)
(* has nothing left but to return.                                         *)
Settled(w) == job' = [job EXCEPT ![w].pc = "requirements"]
(* Mutant: the node is recorded and the edge to it is not.                 *)
MarkDeclared_NoLink(r, why) ==
  /\ node' = AddAll(node, {r.to}, Declared(why))
  /\ UNCHANGED <<edges, visited>>

MarkDeclared(r, why) ==
  /\ node' = AddAll(node, {r.to}, Declared(why))
  /\ edges' = edges \cup {r}
  /\ UNCHANGED visited

Unresolvable(w) ==
  LET r == job[w].req
      v == IF r.to[1] \in Schemed THEN ExactOf[r.spec] ELSE NoVersion IN
  /\ job[w].pc = "versions" /\ r.to[1] \notin Resolvable
  /\ IF v # NoVersion
       THEN /\ node' = AddAll(node, {Link(r, v).to}, Resolved)
            /\ edges' = edges \cup {Link(r, v)}
            /\ UNCHANGED visited
       ELSE MarkDeclared(r, "offline")
  /\ Settled(w)
  /\ UNCHANGED <<phase, nextFile, level, firstErr, expired, hist>>

NoScheme(w) ==
  LET r == job[w].req IN
  /\ job[w].pc = "versions" /\ r.to[1] \in Resolvable \ Schemed
  /\ MarkDeclared(r, "no-scheme")
  /\ Settled(w)
  /\ UNCHANGED <<phase, nextFile, level, firstErr, expired, hist>>

Asks(w) == job[w].pc = "versions" /\ job[w].req.to[1] \in Resolvable \cap Schemed
CallFails(p) == p \in Flaky \/ expired

VersionsFail(w) ==
  /\ Asks(w) /\ CallFails(job[w].req.to[1])
  /\ MarkDeclared(job[w].req,
                  IF expired THEN "bound:timeout" ELSE "error:fetch")
  /\ Settled(w)
  /\ missed' = TRUE
  /\ UNCHANGED <<phase, nextFile, level, firstErr, expired, fetched, lost>>

AsOfFails(w) ==
  /\ Asks(w) /\ AsOfUnanswerable(job[w].req.to[1])
  /\ job' = [job EXCEPT ![w].pc = "requirements", ![w].err = TRUE]
  /\ UNCHANGED <<phase, nextFile, level, firstErr, expired, graph, hist>>

Unchoosable(w) ==
  LET r == job[w].req IN
  /\ Asks(w) /\ ~AsOfUnanswerable(r.to[1])
  /\ PinMissing(r.to[1]) \/ BadRange(r)
  /\ MarkDeclared(r, IF PinMissing(r.to[1]) THEN "error:pin-not-found"
                                           ELSE "error:badrange")
  /\ Settled(w)
  /\ UNCHANGED <<phase, nextFile, level, firstErr, expired, hist>>

(* Mutant: the bound compared with > instead of >=.                        *)
Cut_OffByOne(r) ==
  {v \in Chosen(r) :
     Cardinality(Present(node) \cup
                 {<<r.to[1], u>> : u \in {u \in Chosen(r) : u > v}}) > MaxNodes}

(* The candidates are added newest first under one lock.  A candidate is   *)
(* cut when the graph, with the newer candidates, has reached MaxNodes.    *)
Cut(r) ==
  {v \in Chosen(r) :
     Cardinality(Present(node) \cup
                 {<<r.to[1], u>> : u \in {u \in Chosen(r) : u > v}}) >= MaxNodes}

(* Mutant: no visited check, a version reached again is read again.        *)
Unseen_NoMemo(r) == Chosen(r) \ Cut(r)

(* The candidates no goroutine has reached before.                         *)
Unseen(r) == {v \in Chosen(r) \ Cut(r) : <<r.to[1], v>> \notin visited}

RecordChosen(w) ==
  LET r    == job[w].req
      p    == r.to[1]
      kept == {<<p, v>> : v \in Chosen(r) \ Cut(r)}
      cut  == {<<p, v>> : v \in Cut(r)} IN
  /\ Asks(w) /\ ~AsOfUnanswerable(p) /\ ~PinMissing(p) /\ ~BadRange(r)
  /\ node' = AddAll(AddAll(node, kept, Resolved), cut, Declared("bound:nodes"))
  /\ edges' = edges \cup {Link(r, v) : v \in Chosen(r)}
  /\ visited' = visited \cup kept
  /\ job' = [job EXCEPT ![w].pc = "requirements",
               ![w].unseen = Unseen(r)]
  /\ missed' = (missed \/ ~(cut \subseteq visited))
  /\ UNCHANGED <<phase, nextFile, level, firstErr, expired, fetched, lost>>

(* The requirements of the versions this goroutine was first to reach.     *)
ReadRequirements(w) ==
  LET p == job[w].req.to[1] IN
  /\ job[w].pc = "requirements"
  /\ \E v \in job[w].unseen :
       /\ job' = [job EXCEPT
            ![w].unseen  = @ \ {v},
            ![w].kids    = @ \cup {k \in Kids(p, v) : ~SkipScope(k)},
            ![w].skipped = @ \cup {k \in Kids(p, v) : SkipScope(k)}]
       /\ fetched' = fetched \cup {<<p, v>>}
  /\ UNCHANGED <<phase, nextFile, level, firstErr, expired, graph, lost, missed>>

RequirementsFail(w) ==
  LET p == job[w].req.to[1] IN
  /\ job[w].pc = "requirements" /\ CallFails(p)
  /\ \E v \in job[w].unseen :
       /\ job' = [job EXCEPT ![w].unseen = @ \ {v}]
       /\ lost' = lost \cup {<<p, v>>}
  /\ UNCHANGED <<phase, nextFile, level, firstErr, expired, graph, fetched, missed>>

MarkSkipped(w) ==
  /\ job[w].pc = "requirements" /\ job[w].unseen = {} /\ job[w].skipped # {}
  /\ node' = AddAll(node, {r.to : r \in job[w].skipped},
                    Declared("dev-not-installed"))
  /\ edges' = edges \cup job[w].skipped
  /\ job' = [job EXCEPT ![w].skipped = {}]
  /\ UNCHANGED <<phase, nextFile, level, firstErr, expired, visited, hist>>

(* Mutant: the goroutine ends without giving its semaphore token back.     *)
Return_NoRelease(w) ==
  /\ job[w].pc = "requirements" /\ job[w].unseen = {} /\ job[w].skipped = {}
  /\ firstErr' = (firstErr \/ job[w].err)
  /\ next' = next \cup job[w].kids
  /\ UNCHANGED <<phase, nextFile, depth, pending, job, expired, graph, hist>>

Return(w) ==
  /\ job[w].pc = "requirements" /\ job[w].unseen = {} /\ job[w].skipped = {}
  /\ firstErr' = (firstErr \/ job[w].err)
  /\ next' = next \cup job[w].kids
  /\ job' = [job EXCEPT ![w] = Idle]
  /\ UNCHANGED <<phase, nextFile, depth, pending, expired, graph, hist>>

-----------------------------------------------------------------------------
(* Between levels, after wg.Wait().                                        *)

(* Mutant: the level is taken for done while goroutines still run.         *)
LevelDone_NoWait == phase = "walk" /\ pending = {}

LevelDone ==
  /\ phase = "walk" /\ pending = {} /\ \A w \in Worker : job[w].pc = "idle"

NextLevel ==
  /\ LevelDone /\ ~firstErr /\ ~expired
  /\ next # {} /\ depth < MaxDepth
  /\ depth' = depth + 1 /\ pending' = next /\ next' = {}
  /\ UNCHANGED <<phase, nextFile, job, firstErr, expired, graph, hist>>

(* Mutant: every frontier is blamed on the depth bound.                    *)
FrontierReason_Depth == "bound:depth"
FrontierReason == IF expired THEN "bound:timeout" ELSE "bound:depth"

(* Mutant: what was still queued is dropped.                               *)
MarkFrontier_Drop == UNCHANGED <<node, edges>>

(* Anything still queued was cut off by a bound, and is recorded as such.  *)
MarkFrontier ==
  /\ node' = AddAll(node, {r.to : r \in next}, Declared(FrontierReason))
  /\ edges' = edges \cup next

Finish ==
  /\ LevelDone /\ ~firstErr
  /\ expired \/ next = {} \/ depth = MaxDepth
  /\ phase' = "done"
  /\ MarkFrontier
  /\ next' = {}
  /\ UNCHANGED <<nextFile, depth, pending, job, firstErr, expired, visited, hist>>

Abort ==
  /\ LevelDone /\ firstErr
  /\ phase' = "failed"
  /\ UNCHANGED <<nextFile, level, job, firstErr, expired, graph, hist>>

(* The --timeout context expires, at any instant of the walk.              *)
Expire ==
  /\ Deadline /\ ~expired /\ phase \in {"seed", "walk"}
  /\ expired' = TRUE
  /\ UNCHANGED <<phase, nextFile, level, job, firstErr, graph, hist>>

Expand(w) ==
  \/ Spawn(w) \/ Unresolvable(w) \/ NoScheme(w) \/ VersionsFail(w)
  \/ AsOfFails(w) \/ Unchoosable(w) \/ RecordChosen(w)
  \/ ReadRequirements(w) \/ RequirementsFail(w) \/ MarkSkipped(w) \/ Return(w)

Progress ==
  \/ ReadBrokenFile \/ ReadFile \/ SeedDone \/ SeedFails
  \/ \E w \in Worker : Expand(w)
  \/ NextLevel \/ Finish \/ Abort

(* Walk has returned.                                                      *)
Ended == phase \in {"done", "failed"} /\ UNCHANGED vars

Next == Progress \/ Expire \/ Ended

(* Goroutines are scheduled and every registry call returns: the calls     *)
(* carry the walk's context, which has a deadline.                         *)
WalkSpec == Init /\ [][Next]_vars /\ WF_vars(Progress)

-----------------------------------------------------------------------------
(* Properties.                                                             *)

(* Every variable stays in its type; nothing outlives what reached it.     *)
TypeOK ==
  /\ phase \in {"seed", "walk", "done", "failed"}
  /\ nextFile \in 1..(NumFiles + 1) /\ depth \in 1..MaxDepth
  /\ pending \subseteq Reqs /\ next \subseteq Reqs
  /\ job \in [Worker -> Jobs]
  /\ \A w \in Worker : job[w].pc # "idle" => job[w].req # NoReq
  /\ firstErr \in BOOLEAN /\ expired \in BOOLEAN
  /\ node \in [Ids -> Facts \cup {Absent}] /\ edges \subseteq Edges
  /\ visited \subseteq Package \X Version
  /\ fetched \subseteq visited /\ lost \subseteq visited /\ missed \in BOOLEAN

SeedLinks ==
  UNION {Manifest[f].links : f \in {f \in 1..NumFiles : ~Manifest[f].broken}}
(* The versionless nodes extractors supply, which the walk may leave with  *)
(* no edge once it has chosen a version.                                   *)
SuppliedVersionless ==
  UNION {{id \in DOMAIN Manifest[f].nodes : id[2] = NoVersion} : f \in 1..NumFiles}

(* The graph holds together: both ends of every edge are nodes, and every  *)
(* node but the root, and versionless nodes an extractor supplied, has an  *)
(* edge leading to it.  PathsTo takes a node without one for a root, and   *)
(* the rollup takes the ends of every edge to be nodes.                    *)
GraphConnected ==
  /\ \A e \in edges : {e.from, e.to} \subseteq Present(node)
  /\ Present(node) \subseteq
       {RootId} \cup SuppliedVersionless \cup {e.to : e \in edges}

(* No dependency is invented: every edge is a link an extractor reported,  *)
(* or the root's edge to an unparsable file, or discharges a requirement   *)
(* that was read from the very version the edge starts at.                 *)
Reported(r) == r \in SeedLinks \/ (r.from \in fetched /\ r \in Kids(r.from[1], r.from[2]))
EdgesJustified ==
  \A e \in edges : \/ e.to[1] = Unparsed
                   \/ Reported(e)
                   \/ Reported([e EXCEPT !.to = <<e.to[1], NoVersion>>])

(* Each version reached is read once, by the goroutine that reached it     *)
(* first: visited is split into what was read, what failed to be read, and *)
(* what exactly one goroutine still holds.                                 *)
InHand(w) == {<<job[w].req.to[1], v>> : v \in job[w].unseen}
ReadOnce ==
  /\ visited = fetched \cup lost \cup UNION {InHand(w) : w \in Worker}
  /\ fetched \cap lost = {}
  /\ \A w \in Worker :
       /\ InHand(w) \cap (fetched \cup lost) = {}
       /\ \A u \in Worker \ {w} : InHand(w) \cap InHand(u) = {}

(* A requirement that was read is never forgotten: it is waiting to be     *)
(* expanded or marked, or it has left an edge -- unless no version at all  *)
(* satisfies it, when the code leaves no trace at all (npm.go:521-523).     *)
(* One whose --as-of answer is refused makes the whole walk fail.          *)
Waiting(r) ==
  \/ r \in pending \cup next
  \/ \E w \in Worker :
       \/ r \in job[w].kids \cup job[w].skipped
       \/ job[w].pc = "versions" /\ r = job[w].req
Traced(r) == r \in edges \/ \E v \in Version : Link(r, v) \in edges
Matchless(r) ==
  /\ r.to[1] \in Resolvable \cap Schemed
  /\ ~PinMissing(r.to[1]) /\ ~BadRange(r) /\ Chosen(r) = {}
LinksRead ==
  UNION {Manifest[f].links : f \in {f \in 1..(nextFile - 1) : ~Manifest[f].broken}}
Known(r) ==
  \/ r.from \in fetched /\ r \in Kids(r.from[1], r.from[2])
  \/ r \in LinksRead /\ r.to[2] = NoVersion
Refused(r) ==
  AsOfUnanswerable(r.to[1]) /\ (firstErr \/ \E w \in Worker : job[w].err)
Kept(r) == Waiting(r) \/ Traced(r) \/ Refused(r)
AllReqs == {r \in SeedLinks : r.to[2] = NoVersion}
             \cup UNION {Kids(id[1], id[2]) : id \in fetched}
NothingForgotten == \A r \in AllReqs : Known(r) => Kept(r) \/ Matchless(r)

(* The node bound: a version is expanded only while the graph, with every  *)
(* version expanded by the same goroutine in the same section, still fits  *)
(* MaxNodes, and a node is cut for the bound only once the graph is full.  *)
Within(n) == Cardinality(Present(n) \cup visited') <= MaxNodes
CutFor(n) == {id \in Ids : n[id].reason = "bound:nodes"}
NodeBound ==
  [][/\ visited' # visited => Within(node)
     /\ CutFor(node') \ CutFor(node) # {} =>
          Cardinality(Present(node')) >= MaxNodes]_graph

(* A bound is named only where it was hit, and a stale reason does not     *)
(* survive a node's upgrade to resolved.                                   *)
ReasonsTruthful ==
  \A id \in Ids :
    /\ node[id].comp = "resolved" => node[id].reason \in {"", "extractor"}
    /\ node[id].reason = "bound:timeout" => expired
    /\ node[id].reason = "bound:depth" =>
         phase = "done" /\ ~expired /\ depth = MaxDepth
    /\ id \in visited => node[id].comp = "resolved"

(* --as-of is honoured or refused: nothing published later is expanded,    *)
(* and no version of a package whose publish times are all unknown.        *)
AsOfHonest ==
  AsOf # 0 => \A id \in visited :
                /\ Published[id[1]][id[2]] <= AsOf
                /\ ~AsOfUnanswerable(id[1])

(* Completeness moves upward only, a reason changes only with an upgrade,  *)
(* and edges and visited versions are never taken back.                    *)
KnowledgeOnlyGrows ==
  [][/\ \A id \in Ids :
          node'[id] = node[id] \/ Rank(node'[id].comp) > Rank(node[id].comp)
     /\ edges \subseteq edges' /\ visited \subseteq visited']_graph

(* The walk ends, on cycles too, and whatever fails or expires.            *)
Terminates == <>(phase \in {"done", "failed"})
==============================================================================
