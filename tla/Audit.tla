-------------------------------- MODULE Audit --------------------------------
(***************************************************************************)
(* "deepdep report" and "deepdep risk" of one stored run.  The store is    *)
(* read one query at a time, outside of any transaction, with minutes of   *)
(* requests in between; another process may delete the run meanwhile.      *)
(* PackageEdges and the plan made of it are module Reach's.                *)
(***************************************************************************)
EXTENDS Report

CONSTANTS
  NodeOrder,  \* the node ids, in byte order
  Runs,       \* what the store may have of the run: see rows
  About       \* node -> the advisories that are about it, wherever filed

Node == Range(NodeOrder)

(* OSV files the advisories of an action under the repository, those of a  *)
(* Terraform provider or of Terraform itself under the Go module it is     *)
(* built from, with the version as Go writes it, and all others under the  *)
(* package.  Of a version that is unknown it may be any.                   *)
FiledFor(f, n) ==
  LET lists(version) == version = <<>> \/ version \in f.versions IN
  \/ IsAction(n) /\ f.ecosystem = "GitHub Actions" /\ f.name = n.name
  \/ /\ IsProvider(n) /\ f.ecosystem = "golang" /\ lists(WithV(n.version))
     /\ f.name = <<"github.com", n.name[1], "terraform-provider", n.name[2]>>
  \/ /\ n.type = "terraform-cli" /\ f.ecosystem = "golang" /\ lists(WithV(n.version))
     /\ f.name = <<"github.com", "hashicorp", "terraform">>
  \/ /\ ~IsAction(n) /\ ~IsProvider(n) /\ n.type # "terraform-cli"
     /\ f.ecosystem = n.type /\ f.name = n.name /\ lists(n.version)

ASSUME FilingAssumption ==
  /\ NodeOrder \in Seq(Node)
  /\ \A f \in Filed : f.id \in Id
  /\ \A n \in Node : About[n] = {f.id : f \in {f \in Filed : FiledFor(f, n)}}

VARIABLES
  rows,      \* [nodes, versions, surfaces, owners] as stored
  stored,    \* "kept", "old" when 200 newer runs hide it, or "deleted"
  asked,     \* the command line: [command, state, posture]
  knownAt,   \* now: when report began, and when risk begins its cross-check
  pc,
  targets, found, assessments, actionsFound,
  got,       \* what has been read of the store
  recorded,  \* whether the observations are in the store
  doc        \* the document, or NoDoc

processVars ==
  <<rows, stored, asked, knownAt, pc, targets, found, assessments, actionsFound, got,
    recorded, doc>>
vars == <<osvVars, supplyVars, processVars>>

NoDoc == [checked |-> 0]
NothingRead == [owners |-> <<>>, nodes |-> {}, pins |-> <<>>, surfaces |-> <<>>,
                actions |-> <<>>, pinning |-> <<>>]

Instants == {1, 2}
Commandlines == [command : {"report", "risk"}, state : {"installed", "all"}, posture : BOOLEAN]

Init ==
  /\ rows \in Runs /\ stored \in {"kept", "old"} /\ knownAt \in Instants
  /\ asked \in {a \in Commandlines : a.command = "risk" => a.posture}
  /\ pc = "run" /\ targets = <<>> /\ found = {} /\ assessments = <<>> /\ actionsFound = {}
  /\ got = NothingRead /\ recorded = FALSE /\ doc = NoDoc
  /\ CheckIdle /\ SupplyIdle

Goto(next) == pc' = next
Keep == UNCHANGED <<rows, stored, asked, knownAt>>

Fail ==
  /\ Goto("failed") /\ Keep
  /\ UNCHANGED <<osvVars, supplyVars, targets, found, assessments, actionsFound, got,
                 recorded, doc>>

-----------------------------------------------------------------------------
(* AuditTargets: the run among the newest, then its versions.              *)

FindRun ==
  /\ pc = "run"
  /\ IF stored = "kept"
     THEN /\ Goto("targets") /\ Keep
          /\ UNCHANGED <<osvVars, supplyVars, targets, found, assessments, actionsFound,
                         got, recorded, doc>>
     ELSE Fail

InState(n) == n \in DOMAIN rows.versions
                /\ (asked.state = "all" \/ rows.versions[n].state = asked.state)

Selected ==
  IF stored = "deleted" THEN <<>> ELSE Kept(NodeOrder, {n \in Node : InState(n)})

AuditTargets ==
  /\ pc = "targets"
  /\ targets' = Selected /\ Keep
  /\ CASE Selected = <<>> /\ asked.command = "risk" ->
            Goto("failed") /\ UNCHANGED <<osvVars, supplyVars>>
       [] Selected = <<>> /\ asked.command = "report" ->
            Goto("owners") /\ UNCHANGED <<osvVars, supplyVars>>
       [] Selected # <<>> /\ asked.command = "risk" ->
            Goto("facts") /\ BeginFacts(Selected) /\ UNCHANGED osvVars
       [] Selected # <<>> /\ asked.command = "report" ->
            Goto("check") /\ BeginCheck(Selected) /\ UNCHANGED supplyVars
  /\ UNCHANGED <<found, assessments, actionsFound, got, recorded, doc>>

-----------------------------------------------------------------------------
(* The network.                                                            *)

AskOsv ==
  /\ pc \in {"check", "actions-check", "cross"} /\ CheckStep
  /\ UNCHANGED <<supplyVars, processVars>>

Checked ==
  /\ pc = "check" /\ Returned /\ osv = "ok"
  /\ found' = Findings(knownAt) /\ Keep
  /\ IF asked.posture THEN Goto("facts") /\ BeginFacts(targets)
                      ELSE Goto("owners") /\ UNCHANGED supplyVars
  /\ UNCHANGED <<osvVars, targets, assessments, actionsFound, got, recorded, doc>>

CheckFails == pc \in {"check", "actions-check", "cross"} /\ Returned /\ osv = "failed" /\ Fail

AskDeps ==
  /\ \/ /\ pc = "facts"
        /\ \E k \in DOMAIN chunks : TakeChunk(k) \/ ChunkAnswered(k) \/ ChunkFails(k)
     \/ /\ pc = "projects"
        /\ \E r \in DOMAIN calls : \/ TakeCall(r) \/ CallAnswered(r) \/ CallFails(r)
                                   \/ Throttled(r) \/ AskAgain(r)
  /\ UNCHANGED <<osvVars, processVars>>

FactsDone ==
  /\ pc = "facts" /\ FactsReturned /\ deps = "ok"
  /\ BeginProjects /\ Goto("projects") /\ Keep
  /\ UNCHANGED <<osvVars, targets, found, assessments, actionsFound, got, recorded, doc>>

DepsFail ==
  \/ pc = "facts" /\ FactsReturned /\ deps = "failed" /\ Fail
  \/ pc = "projects" /\ ProjectsReturned /\ TotalOutage /\ Fail

(* RecordSupply, one transaction; risk goes on when it fails, and looks at *)
(* the clock for the advisories it compares, which by then may say more.   *)
Observe(ok) ==
  /\ recorded' = ok /\ assessments' = Assess
  /\ IF asked.command = "risk"
     THEN /\ Goto("cross") /\ BeginCheck(targets)
          /\ knownAt' \in {t \in Instants : t >= knownAt}
     ELSE Goto("owners") /\ UNCHANGED <<osvVars, knownAt>>
  /\ UNCHANGED <<supplyVars, rows, stored, asked, targets, found, actionsFound, got, doc>>

RecordSupply ==
  /\ pc = "projects" /\ ProjectsReturned /\ ~TotalOutage
  /\ \/ Observe(TRUE)
     \/ asked.command = "risk" /\ Observe(FALSE)
     \/ asked.command = "report" /\ Fail

-----------------------------------------------------------------------------
(* The rest of the store, and the actions' own query.                      *)

Reads == <<"owners", "nodes", "pins", "surfaces", "actions", "pinning">>
After(read) ==
  CASE read = "owners" -> "nodes" [] read = "nodes" -> "pins" [] read = "pins" -> "surfaces"
    [] read = "surfaces" -> "actions" [] OTHER -> "build"

Pinning == [n \in DOMAIN rows.versions |-> rows.versions[n].pinning]

Answer(read) ==
  IF stored = "deleted" THEN NothingRead[read]
  ELSE CASE read = "owners" -> rows.owners [] read = "nodes" -> rows.nodes
         [] read \in {"pins", "pinning"} -> Pinning
         [] read = "surfaces" -> rows.surfaces
         [] read = "actions" ->
              Kept(NodeOrder, {x.id : x \in {x \in rows.nodes : x.id.type = "github"}})

Read ==
  /\ pc \in {"owners", "nodes", "pins", "surfaces", "pinning"}
  /\ got' = [got EXCEPT ![pc] = Answer(pc)]
  /\ Goto(After(pc)) /\ Keep
  /\ UNCHANGED <<osvVars, supplyVars, targets, found, assessments, actionsFound, recorded, doc>>

(* CheckActions keeps those with an owner and a name.                      *)
ActionTargets ==
  /\ pc = "actions"
  /\ got' = [got EXCEPT !.actions = Answer("actions")]
  /\ LET named == Kept(Answer("actions"), {n \in Node : IsAction(n)})
     IN  IF named # <<>> THEN Goto("actions-check") /\ BeginCheck(named)
                         ELSE Goto("pinning") /\ UNCHANGED osvVars
  /\ Keep
  /\ UNCHANGED <<supplyVars, targets, found, assessments, actionsFound, recorded, doc>>

CheckedActions ==
  /\ pc = "actions-check" /\ Returned /\ osv = "ok"
  /\ actionsFound' = ActionAdvisories(knownAt) /\ Goto("pinning") /\ Keep
  /\ UNCHANGED <<osvVars, supplyVars, targets, found, assessments, got, recorded, doc>>

(* A query of the store fails, or the command's context has expired.       *)
ReadFails == pc \in Range(Reads) \cup {"targets"} /\ Fail

Build ==
  /\ pc = "build"
  /\ doc' = BuildReport(Range(targets), found, assessments, got, Range(got.actions), actionsFound)
  /\ Goto("done") /\ Keep
  /\ UNCHANGED <<osvVars, supplyVars, targets, found, assessments, actionsFound, got, recorded>>

-----------------------------------------------------------------------------
(* risk's comparison of the two matchers.                                  *)

CompareAdvisories ==
  /\ pc = "cross" /\ Returned /\ osv = "ok"
  /\ found' = Findings(knownAt)
  /\ LET ofOsv  == {<<f.node, f.advisory.id>> : f \in found'}
         ofDeps == UNION {{<<facts[i].node, id>> : id \in facts[i].advisoryIds} : i \in DOMAIN facts}
     IN  doc' = [checked |-> Len(targets), agreed |-> Cardinality(ofOsv \cap ofDeps),
                 osvOnly |-> ofOsv \ ofDeps, depsDevOnly |-> ofDeps \ ofOsv]
  /\ Goto("done") /\ Keep
  /\ UNCHANGED <<osvVars, supplyVars, targets, assessments, actionsFound, got, recorded>>

(* Another process: "deepdep clean" deletes the run.                       *)
Clean ==
  /\ stored # "deleted" /\ stored' = "deleted"
  /\ UNCHANGED <<osvVars, supplyVars, rows, asked, knownAt, pc, targets, found, assessments,
                 actionsFound, got, recorded, doc>>

AuditStep ==
  \/ FindRun \/ AuditTargets
  \/ AskOsv \/ Checked \/ CheckFails
  \/ AskDeps \/ FactsDone \/ DepsFail \/ RecordSupply
  \/ Read \/ ActionTargets \/ CheckedActions \/ ReadFails \/ Build
  \/ CompareAdvisories

Next == AuditStep \/ Clean
Spec == Init /\ [][Next]_vars

(* Every request has a timeout and the command has one: a step that can be *)
(* taken is taken, with whatever outcome.                                  *)
AuditSpec == Spec /\ WF_vars(AuditStep)
-----------------------------------------------------------------------------
(* What is asked of it.                                                    *)

SameFlaw(a, b) == a = b \/ b.id \in Range(a.aliases) \/ a.id \in Range(b.aliases)

KnownAbout(n) == {Record[id] : id \in {id \in About[n] : Known(Record[id], knownAt)}}

(* claims are of the nodes they name, and nothing known is left out.       *)
SaysExactly(nodes, claims) ==
  /\ \A f \in claims : f.node \in nodes /\ f.advisory \in KnownAbout(f.node)
  /\ \A n \in nodes : \A a \in KnownAbout(n) :
       \E f \in claims : f.node = n /\ SameFlaw(f.advisory, a) /\ (Rated(a) => Rated(f.advisory))

Reported == doc # NoDoc /\ asked.command = "report"

Flawed(nodes) == {n \in nodes : KnownAbout(n) # {}}

(* Whose lines name a package, as it was read.                             *)
Files(n) ==
  IF n \in DOMAIN got.surfaces /\ got.surfaces[n] # {} THEN got.surfaces[n] ELSE {Inherited}

(* A report that is made has every advisory known of what it checked, on   *)
(* the package it is about and in the line of every file that names it,    *)
(* and no other, whatever name OSV files it under, in whatever order the   *)
(* records come, and with any of them failing (osv.go, Check; report.go,   *)
(* computeExposure).                                                       *)
AdvisoriesAreExact ==
  /\ doc # NoDoc => SaysExactly(Range(targets), found)
  /\ Reported =>
       /\ SaysExactly({n \in Range(got.actions) : IsAction(n)}, doc.actionAdvisories)
       /\ \A n \in Flawed(Range(targets)) : Files(n) \subseteq DOMAIN doc.exposure
       /\ \A s \in DOMAIN doc.exposure :
            doc.exposure[s].affected =
              Cardinality({n \in Flawed(Range(targets)) : s \in Files(n)})

(* Facts and scorecards stay with their package: a signal is of the        *)
(* package's own record, of a repository the artifact vouches for when it  *)
(* vouches for one, and is missing only where that lookup failed; nothing  *)
(* is unlisted that was not asked (depsdev.go, Facts; risk.go, Assess).    *)
PostureIsItsOwn ==
  assessments # <<>> =>
    \A i \in DOMAIN targets :
      LET n       == targets[i]
          a       == assessments[i]
          links   == IF n \in DOMAIN Listed /\ Queryable(n) THEN Range(Listed[n].related) ELSE {}
          sources == {l \in links : l.type = "SOURCE_REPO"}
          vouched == {l \in sources : l.provenance = "SLSA_ATTESTATION"}
      IN  /\ a.node = n
          /\ "unlisted" \in a.signals <=> Queryable(n) /\ n \notin DOMAIN Listed
          /\ a.repo \in {l.id : l \in IF vouched # {} THEN vouched ELSE sources}
               \/ (sources = {} /\ a.repo = NoRepo)
          /\ \A rule \in ScorecardRules :
               LET bad == /\ a.repo \in DOMAIN Scorecards
                          /\ rule[1] \in DOMAIN Scorecards[a.repo].checks
                          /\ Scorecards[a.repo].checks[rule[1]] \in 0 .. rule[2]
               IN  /\ rule[3] \in a.signals => bad
                   /\ bad /\ a.repo \notin Unreachable => rule[3] \in a.signals

(* A package that is known to be malicious leaves no grade but F, and the  *)
(* worst score, though its rated twin is what the report shows of it and   *)
(* however clean the rest is (score.go, Compute; osv.go, dedupe).          *)
MaliceClampsTheGrade ==
  Reported /\ (\E n \in Range(targets) : \E a \in KnownAbout(n) : a.id \in Mal) =>
    /\ doc.score.score = 100
    /\ doc.score.grade \in {"F", NoGrade}
    /\ doc.score.grade = NoGrade => 2 * doc.input.auditable < doc.input.surface \/ doc.input.surface = 0

(* Throttled, refused or left alone, an audit ends: every slot is given    *)
(* back and every retry is counted (osv.go, fetchAll; depsdev.go).         *)
AuditEnds == <>(pc \in {"done", "failed"})

(* report.go says that the advisories of actions reach the score, at a     *)
(* discount: every action with one of moderate severity or worse counts.   *)
ActionAdvisoriesReachTheScore ==
  Reported =>
    doc.input.actionCritical + doc.input.actionHigh + doc.input.actionModerate =
      Cardinality({n \in Range(got.actions) :
        \E f \in doc.actionAdvisories : f.node = n /\ SeverityRank(Label(f)) >= 2})
==============================================================================
