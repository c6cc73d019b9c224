-------------------------------- MODULE Supply -------------------------------
(***************************************************************************)
(* internal/supply: what deps.dev says of each package version, asked in   *)
(* batches that run at once, and of the source repository of each, one     *)
(* request each with retries; and the signals Assess makes of it.          *)
(***************************************************************************)
EXTENDS Integers, FiniteSets, Lists

CONSTANTS
  Supported,    \* the package types deps.dev indexes
  Listed,       \* node -> the version document deps.dev has
  Scorecards,   \* repository -> [has, checks]: whether it has a scorecard, its scores
  DepsBatch,    \* 100 in the code
  DepsWorkers,  \* 12 in the code
  MaxAttempts   \* depsDevMaxAttempts, 4 in the code

ASSUME SupplyAssumption ==
  {DepsBatch, DepsWorkers, MaxAttempts} \subseteq Nat \ {0}

(* deps.dev: the links of a document are a list, and only a scorecard has  *)
(* checks.                                                                 *)
NoRepo == "no repository"
ASSUME DocumentAssumption ==
  /\ \A n \in DOMAIN Listed : Listed[n].related \in Seq(Range(Listed[n].related))
  /\ NoRepo \notin DOMAIN Scorecards
  /\ \A r \in DOMAIN Scorecards :
       LET card == Scorecards[r] IN
       /\ card.has \in BOOLEAN /\ card.checks \in [DOMAIN card.checks -> Int]
       /\ DOMAIN card.checks # {} => card.has

VARIABLES
  facts,     \* Facts' answer, one per node asked about
  chunks,    \* "waiting", "asking" or "done", by batch
  calls,     \* the project lookups: [pc, attempt], by repository
  projects,  \* those that answered
  deps       \* "ok", or "failed" once a batch was refused

supplyVars == <<facts, chunks, calls, projects, deps>>

-----------------------------------------------------------------------------
(* Facts.                                                                  *)

Queryable(n) == n.type \in Supported

Unasked(n) ==
  [node |-> n, queried |-> Queryable(n), known |-> FALSE, deprecated |-> FALSE,
   licenses |-> {}, advisoryIds |-> {}, attested |-> FALSE, sourceRepo |-> NoRepo, provenance |-> ""]

(* The first source repository the artifact attests, or the first named.   *)
Source(doc) ==
  LET named    == {i \in DOMAIN doc.related : doc.related[i].type = "SOURCE_REPO"}
      attested == {i \in named : doc.related[i].provenance = "SLSA_ATTESTATION"}
      chosen   == IF attested # {} THEN attested ELSE named
  IN  IF named = {} THEN [id |-> NoRepo, provenance |-> ""] ELSE doc.related[Min(chosen)]

ApplyVersion(f, doc) ==
  [node |-> f.node, queried |-> f.queried, known |-> TRUE, deprecated |-> doc.deprecated,
   licenses |-> doc.licenses, advisoryIds |-> doc.advisoryKeys,
   attested |-> TRUE \in doc.attestations, sourceRepo |-> Source(doc).id,
   provenance |-> Source(doc).provenance]

(* The nodes sent, and where each belongs in the whole answer.             *)
AskIdx == Kept([i \in DOMAIN facts |-> i], {i \in DOMAIN facts : Queryable(facts[i].node)})

Part(k) == {j \in DOMAIN AskIdx : (j - 1) \div DepsBatch = k - 1}

(* Mutant: a batch's answers are written at their place among those sent.  *)
Written_AsSent(k) ==
  [i \in DOMAIN facts |->
     IF i \notin Part(k) THEN facts[i]
     ELSE LET n == facts[AskIdx[i]].node IN
          IF n \in DOMAIN Listed THEN ApplyVersion(Unasked(n), Listed[n]) ELSE Unasked(n)]

Written(k) ==
  [i \in DOMAIN facts |->
     IF i \notin {AskIdx[j] : j \in Part(k)} THEN facts[i]
     ELSE LET n == facts[i].node IN
          IF n \in DOMAIN Listed THEN ApplyVersion(Unasked(n), Listed[n]) ELSE Unasked(n)]

SupplyIdle ==
  /\ facts = <<>> /\ chunks = <<>> /\ calls = <<>> /\ projects = <<>> /\ deps = "ok"

BeginFacts(nodes) ==
  /\ facts' = [i \in DOMAIN nodes |-> Unasked(nodes[i])]
  /\ chunks' = [k \in 1 .. (Len(AskIdx') + DepsBatch - 1) \div DepsBatch |-> "waiting"]
  /\ UNCHANGED <<calls, projects, deps>>

Busy(state, tasks) == Cardinality({t \in DOMAIN tasks : tasks[t] = state})

TakeChunk(k) ==
  /\ chunks[k] = "waiting" /\ Busy("asking", chunks) < DepsWorkers
  /\ chunks' = [chunks EXCEPT ![k] = "asking"]
  /\ UNCHANGED <<facts, calls, projects, deps>>

ChunkAnswered(k) ==
  /\ chunks[k] = "asking"
  /\ chunks' = [chunks EXCEPT ![k] = "done"] /\ facts' = Written(k)
  /\ UNCHANGED <<calls, projects, deps>>

(* A refusal, or an answer that is shorter than the batch.                 *)
ChunkFails(k) ==
  /\ chunks[k] = "asking"
  /\ chunks' = [chunks EXCEPT ![k] = "done"] /\ deps' = "failed"
  /\ UNCHANGED <<facts, calls, projects>>

FactsReturned == \A k \in DOMAIN chunks : chunks[k] = "done"

-----------------------------------------------------------------------------
(* Projects.                                                               *)

Repos == {facts[i].sourceRepo : i \in DOMAIN facts} \ {NoRepo}

BeginProjects ==
  /\ calls' = [r \in Repos |-> [pc |-> "waiting", attempt |-> 0]]
  /\ UNCHANGED <<facts, chunks, projects, deps>>

(* A lookup that backs off keeps its slot.                                 *)
TakeCall(r) ==
  /\ calls[r].pc = "waiting"
  /\ Cardinality({q \in DOMAIN calls : calls[q].pc \in {"asking", "backoff"}}) < DepsWorkers
  /\ calls' = [calls EXCEPT ![r].pc = "asking"]
  /\ UNCHANGED <<facts, chunks, projects, deps>>

(* 200 with the document, or 404: a project deps.dev does not know.        *)
CallAnswered(r) ==
  /\ calls[r].pc = "asking"
  /\ calls' = [calls EXCEPT ![r].pc = "done"]
  /\ projects' = [q \in DOMAIN projects \cup {r} |->
                    IF q # r THEN projects[q]
                    ELSE IF r \in DOMAIN Scorecards THEN Scorecards[r]
                    ELSE [has |-> FALSE, checks |-> <<>>]]
  /\ UNCHANGED <<facts, chunks, deps>>

CallFails(r) ==
  /\ calls[r].pc \in {"asking", "backoff"}
  /\ calls' = [calls EXCEPT ![r].pc = "failed"]
  /\ UNCHANGED <<facts, chunks, projects, deps>>

(* Mutant: the attempts are not counted.                                   *)
Throttled_Forever(r) ==
  /\ calls[r].pc = "asking" /\ calls' = [calls EXCEPT ![r].pc = "backoff"]
  /\ UNCHANGED <<facts, chunks, projects, deps>>

(* 429 or 503: asked again after a wait, and given up at the last attempt. *)
Throttled(r) ==
  /\ calls[r].pc = "asking"
  /\ calls' = [calls EXCEPT ![r] = [pc |-> "backoff", attempt |-> @.attempt + 1]]
  /\ UNCHANGED <<facts, chunks, projects, deps>>

AskAgain(r) ==
  /\ calls[r].pc = "backoff"
  /\ calls' = [calls EXCEPT ![r].pc =
                 IF calls[r].attempt < MaxAttempts THEN "asking" ELSE "failed"]
  /\ UNCHANGED <<facts, chunks, projects, deps>>

ProjectsReturned == \A r \in DOMAIN calls : calls[r].pc \in {"done", "failed"}

Unreachable == {r \in DOMAIN calls : calls[r].pc = "failed"}

TotalOutage == DOMAIN calls # {} /\ Unreachable = DOMAIN calls

-----------------------------------------------------------------------------
(* Assess.                                                                 *)

(* Check -> the score at or below which it is a signal, and the signal.    *)
ScorecardRules ==
  {<<"Maintained", 0, "unmaintained">>, <<"Dangerous-Workflow", 0, "dangerous-workflow">>,
   <<"Code-Review", 0, "unreviewed-code">>, <<"Branch-Protection", 0, "no-branch-protection">>,
   <<"Token-Permissions", 0, "overprivileged-ci">>,
   <<"Pinned-Dependencies", 2, "unpinned-upstream-build">>,
   <<"Signed-Releases", 0, "unsigned-releases">>}

(* Of a scorecard, by check; -1 is a check that did not run.               *)
FromScorecard(card) ==
  {rule[3] : rule \in {rule \in ScorecardRules :
     rule[1] \in DOMAIN card /\ card[rule[1]] >= 0 /\ card[rule[1]] <= rule[2]}}

HasScorecard(r) == r \in DOMAIN projects /\ projects[r].has

OfLicenses(f) ==
  CASE f.licenses = {} -> {"no-license"}
    [] f.licenses # {} /\ "non-standard" \in f.licenses -> {"non-standard-license"}
    [] OTHER -> {}

OfSource(f) ==
  CASE f.sourceRepo = NoRepo -> {"no-source-repo"}
    [] f.sourceRepo # NoRepo /\ f.provenance # "SLSA_ATTESTATION" -> {"unattested-source"}
    [] OTHER -> {}

OfProject(f) ==
  CASE HasScorecard(f.sourceRepo) -> FromScorecard(projects[f.sourceRepo].checks)
    [] ~HasScorecard(f.sourceRepo) /\ f.sourceRepo # NoRepo -> {"no-scorecard"}
    [] OTHER -> {}

SignalsOf(f) ==
  CASE ~f.queried -> {}
    [] f.queried /\ ~f.known -> {"unlisted"}
    [] OTHER -> (IF f.deprecated THEN {"deprecated"} ELSE {})
                  \cup OfLicenses(f) \cup OfSource(f) \cup OfProject(f)

Assess ==
  [i \in DOMAIN facts |-> [node |-> facts[i].node, repo |-> facts[i].sourceRepo,
                           signals |-> SignalsOf(facts[i])]]
==============================================================================
