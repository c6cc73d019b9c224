# deepdep, specified

TLA+ models of [deepdep](../src/README.md), the TLC runs that check them and the
TLAPS proofs of what matters most. deepdep turns a repository into its dependency
closure: it reads manifests and lockfiles, resolves every requirement against the
registries of npm, PyPI, Go and crates.io under explicit bounds, and keeps what it
found in a SQLite store that later commands report on.

## 1. The system

| part | state it keeps | operations | how it is used |
|---|---|---|---|
| `internal/walk` | a frontier, a `visited` set, a graph, all behind one mutex | `Walk`: `seed`, then `expandLevel`/`expandOne` per breadth-first level | the core: `scan` calls it once |
| `internal/graph` | nodes by id, edges, inbound index | `Add` (upgrade only), `Link` (dedupe), `Len`, `PathsTo` | shared by the walk's goroutines, then read by everything |
| `internal/resolve` | per resolver: memo, decoded documents, version lists, flights | `Versions`, `Requirements` | called concurrently by the walk's goroutines |
| `internal/cache` | content-addressed blobs on disk | `PutBlob`, `GetBlob` | outlives the process; shared by processes |
| `internal/store` | SQLite: projects, runs with their nodes and edges, append-only observations | `WriteRun`, `Record*`, `LastPackument`, `PlanPrune`, `ApplyPrune`, queries, `migrate` | shared by concurrent processes |
| `cmd/deepdep` | none of its own | `scan`, `clean`, `org`, `report`, `risk`, `projects`, ... | each process opens the store, and may be killed anywhere |
| `internal/effective` | none | lockfile parsers, `Merge` into the graph, `Pins` | before (pins) and after (merge) the walk |
| `internal/rollup` | none | installedness, pinning, path counts over the SCC condensation | after merge, written with the run |
| `internal/version` | none | parsing, ordering, `Satisfies`, `Enumerate` | by the walk, resolvers and rollup |
| `internal/extract` | none | one extractor per manifest format | by the walk's seed |
| `internal/source`, `project` | a clone on disk, shared by processes | open, clone, walk files, identity of a project | by `scan` |
| `internal/advisory` | a memo of fetched records | `Check`: batches, then one fetch per id through a pool; `dedupe` | by `report`, `risk` |
| `internal/supply` | none | `Facts`: concurrent batches; `Projects`: bounded slots, retries; `Assess` | by `report`, `risk` |
| `internal/forge` | none | `Org`: pages of repositories | by `org` |
| `internal/reach` | none | attribution of inherited findings to direct dependencies, plan of bumps | by `report`, over the stored edges |
| `internal/score`, `controls`, `history`, `emit`, `gomod` | none | grading, posture checks, git replay, document writers, parser | by `report` and friends |

**What is hard.** Six places hold nearly all of the concurrency and failure:

* *The walk*: goroutines of a level race on one graph and one `visited` set between
  network calls; a deadline may expire at any instant; bounds are tested while others
  add; every call may fail; requirement graphs are cyclic. It is correct when the
  result is the closure (neither less nor more), each version is read once, no
  requirement is forgotten, every reason recorded is true, and it ends.
* *The resolver*: callers share a memo, documents, downloads in flight, and a durable
  record that outlives the process, with the lock released around each I/O. It is
  correct when each answer is a body the registry served, in a sufficient form,
  concurrent callers share one download, and nobody waits for ever.
* *The store and its processes*: scans and cleans of several processes interleave at
  transaction granularity, each under one of several contexts, any of them killed
  between two calls; a clean deletes according to a plan it made earlier. It is
  correct when references hold, numbers never change meaning, and a clean deletes
  exactly what was asked.

* *The start of a scan*: processes share a cache of clones that nothing locks and a
  database that each of them may find in any older version; one may be killed in the
  middle of a clone or of a migration. It is correct when a scan starts from the revision
  and identity it was asked for and from a store that is wholly migrated, and when what
  stops it before that has a cause. The code does not keep all of this: section 5 lists
  where it falls short, and the properties name each exception.
* *The organisation scan*: pages shift while they are listed, a pool of workers scans into
  a store that other processes write and clean, and the whole is killed and resumed. It is
  correct when no repository is lost, none is scanned twice or given another's report, and
  it ends.
* *The audit*: batches answered by position and in any order, a fetch per record, retries
  through a bounded number of slots, records that were withdrawn or came later, and a run
  that may be deleted between two queries. It is correct when every advisory, fact and
  scorecard is on its own package, malice is never averaged away, and it ends.

Two parts are sequential and still hard to test. *Versions*: six dialects of constraints,
each with its own wildcards, prereleases and boundaries, asked again while a registry
publishes. They are correct when what is enumerated is what the dialect's operators promise.
And *the analysis* of a finished graph.
Requirement graphs are cyclic and dense, the algorithms on them are subtle (strongly
connected components, path counts, a greedy cover), several range over Go maps, and
what they mean depends on how manifest, lockfile and registry answers were joined. It
is correct when counts, attribution and plan are what reachability says, in any map
order, and when a lockfile's placements are never taken for declarations.

The remaining parts are stateless text processing and table look-ups.
`PROJECT.json` lists every component with what is modelled of it, and every hazard at
its line with the property that would catch it.

## 2. Modules

    Graph ------ Walker ---- WalkerReference ---- MCWalker, MCWalkBounds
                    \------- WalkerProofs
    RunStore --- Commands ------------------------ MCCommands
                    \------- CommandsProofs
    MetadataSource <-(refinement)- Resolver ------ RegistryProofs
    PathCount --\
    Lockfile ---- Rollup - Reach - Analysis - AnalysisReference -- MCAnalysis
    (Graph)                                         \------------ AnalysisProofs
    Forge ------- Fleet -------------------------- MCFleet
    FleetReport -/   \---------------------------- FleetProofs
    Processes --- Checkout -- Startup ------------ MCStartup
              \-- Schema ----/   \---------------- StartupProofs
    Semver - Pep440 - Versions - VersionsReference -- MCVersions
                                       \------------- RegistryProofs
    Advisory, Supply, Score, Controls - Report - Audit -- MCAudit
                                                  \------ AuditProofs

`Lists` is a list filtered in a loop (`Kept`), of which `Forge`, `Advisory`, `Supply` and `Audit` make use,
and a list sorted (`Sorted`), of which `FleetReport` and `Versions` do, with the lemmas about them.

### Walker (`internal/walk`), Graph (`internal/graph`)

State: the loop variables of `Walk` (`phase`, `depth`, `next`), the part of the level
not yet handed out (`pending`), the goroutine that holds each semaphore token (`job`),
`ctx.Err()` (`expired`), the graph (`node`, `edges`) and `visited`. `fetched`, `lost` and
`missed` are history variables: the versions whose requirements were, or could not be, read,
and whether a package's versions could not be listed or one was cut by the node bound unread.

Everything the goroutines share is guarded by one mutex and no critical section blocks,
so each critical section of `expandOne` is one action; the network calls lie between
them: `Spawn` (the token is taken), one of `Unresolvable`, `NoScheme`, `VersionsFail`,
`AsOfFails`, `Unchoosable` or `RecordChosen` (what is known after `Versions` returned),
`ReadRequirements`/`RequirementsFail` once per unseen version, `MarkSkipped`, `Return`.
`ReadFile`/`ReadBrokenFile` are one file each for one extractor, and `SeedFails` is the tree that
cannot be listed or the file that cannot be read, at which `Walk` returns an error and no graph;
`NextLevel`, `Finish` and `Abort` are the loop of `Walk` after `wg.Wait`; `Expire` is the deadline.

Abstractions: a node id is a pair `<<name, version>>`; a requirement is the edge it will
become with a versionless `to`; two identical requirements of one level are one (the
code would expand both, the second to no effect); versions are numbers; what a
constraint admits, what is published and required, and what the extractors return are
constants (`FactsAssumption`: a manifest says nothing of a bound of the walk, and nothing that is resolved
has a reason of its own, which holds of every reason in `internal/extract`; a link starts at the
root or at the file's own node, which no registry resolves: `dockerfile.go:86`, `ghactions.go:76`,
`gitlabci.go:153`); the registry does not change during a walk; a call under an expired context
may still succeed (memo or blob); 404, rate-limit and other fetch failures are one
reason. Errors of building a node id, which abort the walk, are left out: ids are pairs.

`WalkerReference` defines the closure level by level with no goroutine, lock or memo. An
undisturbed walk is one in which every call answered in time and nothing was cut. This cannot be
read from the graph: a node that already has a reason keeps it, so that a list of versions was not
to be had, or a version was cut, may leave no reason of its own. Hence `missed`.

### RunStore (`internal/store`), Commands (`cmd/deepdep`)

`RunStore` holds the tables as sets of rows; an operator that changes them is one
transaction. `Commands` holds the processes: a scan (`Scan`, `Observe`, `Stamp`,
`Persist`, `Refs`, `Emit`) and a clean (`Clean`, `PlanProject`, `PlanUnclaimed`,
`Apply`, `Recount`), with a kill possible between any two steps. `Expire` is the
context of `--timeout`, which `recordRefs` and `SupplyFacts` share with the walk while
`WriteRun` has its own.

Abstractions: a run id is its commit number, which is SQLite's `rowid` order;
`created_at` is read (`Stamp`) before the write lock is won, so commits may be out of
order; what is scanned and the output format are chosen where they first matter;
`PlanPrune` takes one step per project, resolving `--project` is one step;
`ObservationCounts` is taken with the last query of the plan. Several `--keep`,
`--older-than`, `--unclaimed`, `--purge` combinations are constants (`Query`).

### Resolver (`internal/resolve`), MetadataSource

`Resolver` is the npm resolver for one package: `Look` and `ReadBlob` are `cached`;
`Join`, `Settle`, `RemoveFlight` are `singleflight.Do`; `Get`, `PutBlob`, `DecodeFails`,
`Store`, `RecordPackument` are `download`; `Return`, `LookList`, `FileList` are what
`Versions` and `Requirements` do with the answer. `Publish`, `Tick` and `Exit` are the
registry, the clock and the end of the process (memo, documents, lists and flights are
lost; blobs and the durable record stay). A body is named by revision and form, which
stands for its hash.

`MetadataSource` is the promise: a call is asked, then answered with a body that was
served and suffices, or refused. `Resolver` implements it under the mapping at the end
of the module: `KeepsPromise` is checked as a step refinement, `EveryCallAnswered` as
the liveness half. PyPI's resolver runs the same protocol with a single form.

### PathCount, Rollup (`internal/rollup`), Lockfile (`internal/effective`), Reach (`internal/reach`), Analysis

`Analysis` takes the graph a walk leaves behind and the lockfiles of the checkout
(`Inputs`) through `scan`'s `Merge` and `ComputeWith` to `report`'s `computeReach`, phase
by phase; which versions the audit finds advisories for is any subset of the rows.

* `PathCount` is `tarjan` and `countPaths`, one action per turn of a loop:
  `StrongConnect`, `Descend`, `KnownKid` and `Finish` with the two explicit stacks, then
  `Dequeue` and `Relax` of Kahn's algorithm, where Go ranges over a map and `Relax` takes
  any element.
* `Lockfile` says which lockfiles are read (every one of the flat formats, the last
  `package-lock.json`), what an instance and its locators are, and what `Merge` adds.
* `Rollup` is the rows: state, pinning, instances and paths of a version, and the sums
  per name.
* `Reach` is `Surfaces`, `PackageEdges`, the walk beneath each direct dependency
  (`BeginWalk`, `WalkOn`, `EndWalk`) and the plan (`Consider` in any order, `Pick`).

Abstractions: a node is a number, in the order of ids, with a name and a kind; a spec is
none, exact or a range; identical edges are one; a breadth-first walk takes one level at
a time, since nothing depends on the order within a level; a lockfile is what parsing it
yields, and one that does not parse (which ends the scan or is skipped) is no input.
`DeclaredSpec`, the range shown next to a version, is left out: it depends on the order
of edges.

`AnalysisReference` states what the results are by reachability alone.

### Checkout (`internal/source`), Schema (`store.Open`, `migrate`), Startup

`Checkout` is the way of a target to a tree of files: `OpenLocal`, or `Stat` and `Reuse` of
the shared directory, `RemoveAll`, `BeginClone`/`CloneDone`/`CloneFails` with the fallbacks
from a shallow clone of a ref to a full one, and `ReadClone`, what `--at` resolves to in the
clone that is there. `--at` is a name (of a branch, a tag or neither), a commit or a date: a
commit and a date are cloned alike (`clone.go:183`), but `treeAt` resolves only the commit.
`dir` is the directory, which outlives the processes, and which a killed clone or removal
leaves half made: what git then makes of it is any of the `Readings` or a refusal. `stirred` is
history: a process was killed changing the directory, or two were in it. `Schema` is `migrate`: one action
per statement, each its own transaction, the adoption of old runs by the canonical form of
their targets, and last `user_version`. `Startup` composes them: every scan opens its source,
then its store, and may be killed anywhere.

Abstractions: a git repository has one branch, tag and commit besides its tip; a remote URL is
the parts that `Canonical` keeps or drops; SQLite serialises statements. The tokens of private
hosts are left out.

### Forge (`internal/forge`), FleetReport, Fleet (`cmd/deepdep org`)

`Forge` answers pages of a list sorted by push, which `PushWhileListing` reorders, and `ReadPage`/
`Refused` are the loop of `list` and the fallback of `Org`. `Fleet` is `orgCmd`: `LookUp`, `Spawn`
(the loop blocks on the token), per repository `ScanStores`/`ScanFails`, `Find`/`FindFails`,
`Report`/`ReportFails`, then `Finish`. `Die` and `Restart` lose the process and keep the store;
`OtherScan` and `Delete` are other processes. `FleetReport` adds up the rows.

Abstractions: the scan and the report of one repository are one step each (`Commands` and `Audit`
have their inside); the store is the sequence of its runs by time; what a report says of a
repository is a constant.

### Semver, Pep440, Versions (`internal/version`)

`Semver` and `Pep440` translate a term, as it was written, into comparators the way each scheme's
code does, and test them; `Versions` publishes in any order and enumerates for `pinned`, `latest`
and `all`. `VersionsReference` states what each operator promises as an interval, without
comparators. A version is numbers and prerelease identifiers; the text is not modelled, so neither
is what the parsers accept of it: `SemTerms`, `Specs440`, `PoetryTerms`, `SemVersions` and
`PythonVersions` are the structures they return, of any size. An unlimited policy
(`MaxVersionsPerRange` 0) is left out.

### Advisory, Supply, Score, Controls, Report, Audit (`report`, `risk`)

`Advisory` is `Check`: `Post` a batch and file the ids by position, `StartFetch` and `Fetched` for each id in a pool, then
`dedupe`. `Supply` is `Facts` (`TakeChunk`, `ChunkAnswered`, `ChunkFails`), `Projects` (`TakeCall`,
`CallAnswered`, `CallFails`, `Throttled`, `AskAgain`) and `Assess`. `Score` and `Controls` are
functions of a document, and `Report` builds it. `Audit` is the two commands: each query of the
store and each stretch of requests is a step, another process may delete the run (`Clean`) between
any two. The clock stands at the instant the command began while records are published and
withdrawn around it; `risk` looks at it again before it compares the advisories (risk.go:185), and
finds that instant or a later one (`Instants`).

Abstractions: a node is its PURL taken apart; a severity is its label; points are tenths, rounded
down; a shell line is given as words; OSV and deps.dev are constants (`Filed`, `Record`, `Listed`,
`Scorecards`), with any request failing. What is assumed of the services is named where it is
declared: a record is filed under its own id and records that share a CVE are aliases of one another
(`RecordAssumption`), what is about a package is filed under the name its ecosystem has in OSV
(`FilingAssumption`), and only a scorecard has checks (`DocumentAssumption`). The blast radius and
plan of the report are `Reach`'s.

## 3. Runs

| run | what it asks | bounds, and why they are enough | result |
|---|---|---|---|
| `walk_closure` | is the result the closure, read once, in any interleaving? does it end? | three goroutines, three packages on a cycle with two versions each, depth 3, a flaky package and a deadline: the same version is reached at two depths and twice in one level, a level outlives its first goroutines | holds |
| `walk_bounds` | are bounds, refusals and reasons truthful, does the graph hang together, is nothing forgotten? | two files (one broken), pins, an unavailable pin, unknown publish times, a bad constraint, no resolver, no scheme, `MaxDepth` 2 and `MaxNodes` 11, both reached | holds |
| `store` | do registry, runs and plans survive interleaving and kills? | two scanners, two cleaners, two projects and none, three runs, two instants two units apart (ties and ages), queries for keep, age with unclaimed, and purge; an answer that needs the store and one that does not | holds |
| `resolver` | does the resolver implement the promise? | two callers, three calls, one new revision, one tick (the age limit), one restart, any download or record failing | holds |
| `resolver_stale` | a comment about the version list's key | two calls, no failure | violated, see 5 |
| `analysis` | are components, counts, attribution and plan what reachability says, in any map order? does a lockfile only install? | every graph over the root and three packages in which all are reached, those over four with one or two declared and 11 possible edges (a self-loop, nested cycles, diamonds), and 40 checkouts: five walks, with a registry and without, times eight sets of lockfiles; any audit; `PathCap` 3 for 10000 and `PlanDepth` 2 for 5, so that both are hit and exceeded | holds |
| `startup` | does a scan start from what was asked, and from a whole schema? | two processes that come and go without bound, one kill, three kinds of target, every form of `--at`; files of version 0, 1, 2 and 4 with four runs whose targets are two spellings of one repository, another, and a bare name | holds, but for the exceptions named there and in 5 |
| `fleet` | is every repository counted, with its own report, once, and does the scan end? | three repositories on pages of two (one a fork), two workers, runs looked at two deep of three, two faults among push, kill and deletion; a user endpoint that shows less than the organisation's | holds |
| `versions` | is what is enumerated what the operator promises? does an installed version change only for news? | every operator of six dialects over bounds of one to three components, wildcards and prereleases; any three of 13 (or 10) versions published in any order; two per range | holds, where `Regular` (section 4) |
| `versions_nightly` | a comment on the bands of PEP 440 ranks | a dated nightly, a candidate and the release | violated, see 5 |
| `audit` | is every advisory, fact and scorecard on its own package, is malice decisive, does the audit end? | four packages of four ecosystems and an action, batches of three (so positions matter) and of one, two fetchers and two slots, two attempts; a malicious record that shares a CVE with a rated one, a withdrawn one, one from the future; a run deleted at any step | holds |
| `audit_actions` | a comment on the weight of action advisories | as `audit` | violated, see 5 |

`CHECK_DEADLOCK FALSE` stands where the system may stop: commands and analyses end, and
the number of calls, runs and ticks is bounded. The bounds of the model are named
constants (`PathCap`, `PlanDepth`, `MaxKills`, `MaxFaults`, `MaxReleases`, `MaxRuns`, `MaxCleans`, `MaxObs`, `Instant`, `Instants`, `MaxClock`, `MaxRev`, `MaxExits`,
`MaxCalls`). A walk that has returned stutters (`Ended`), so deadlock is checked there.

Each property of a passing run has a mutant in the module it is about, an operator
named `<definition>_<what is wrong>` just before the definition it stands for: a lost
guard, an off-by-one, a missing reset. The type invariants of `Walker`, `Commands`, `Resolver`,
`Analysis`, `Startup`, `Fleet`, `Audit` and `Versions` are not run but proved, for every instance, as
parts of the inductive invariants of section 4.

**Fairness.** `WalkSpec` assumes weak fairness of the walk's progress as a whole:
goroutines are scheduled, and every registry call returns since it carries the scan's
context, which always has a deadline (`--timeout`). Nothing is assumed of the deadline
itself, nor of any single goroutine. `ResolverSpec` assumes weak fairness of each
caller's own steps, for the same reason; a waiter has no step, so that it wakes is a
consequence. `Spec` of `Analysis` assumes weak fairness of its next-state relation: one
goroutine, no I/O between the steps. `FleetSpec` assumes weak fairness of `OrgStep`, the
organisation scan's own steps as a whole, and `AuditSpec` of `AuditStep`: every request has the
timeout of its HTTP client and every command its own, so a step that can be taken is taken,
with whatever outcome; a goroutine that waits for a token or a slot has no step. No kill, push,
deletion or other process is assumed. `StartupSpec`, `VersionsSpec` and `CommandsSpec` assume none and
state no liveness: processes may be killed at any time, and a registry need not publish.

## 4. Proofs

`WalkerProofs` proves, from the assumptions named in `Walker` (the
types of the constants, what extractors return, and that names and versions are
finitely many; nothing about sizes), for every repository, registry, number of
goroutines and bounds:

* `WalkTypeOK`: the inductive invariant is `TypeInv`, `TypeOK` with `HandsClean` (what
  a goroutine has in hand was reached and belongs to its own package), needed because
  the types of `fetched` and `lost` speak of `visited`.
* `WalkKnowledgeOnlyGrows`, from the type invariant alone: `Upgrade` never lowers a rank.
* `WalkReadOnce`, `WalkEdgesJustified`, `WalkGraphConnected`, `WalkAsOfHonest`. For the
  graph the inductive invariant is `GraphInv`: next to the two properties it says that
  every requirement under way starts at a node already present and was really reported
  (`Carried`), for a goroutine may be about to link any of them.
* `WalkReasonsTruthful`: each step is shown to leave a node alone or to say something true of it
  (`SaysTrue`), and what was true stays so: a context stays expired, and the end of a walk,
  where `bound:depth` is written, is its last step. Facts of extractors never name a bound
  (`FactsAssumption`).
* `WalkNothingForgotten`: a requirement known is `Awaited` (in the frontier, in the next
  level, or in some goroutine's hands) until it is traced, refused or matchless, and these
  three are never undone. `Known` grows by a file read or by the requirements of a version read;
  `KnownStep` shows that what is new is awaited, `ExpandKeeps` that each critical section keeps
  the rest.
* `WalkNodeBound`: a set of nodes grows by what `RecordChosen` keeps, and the argument is
  about cardinalities: the kept versions are the least of a finite set, so the last of them
  kept (`Oldest`) is the one at which the graph was tested (`ChosenFit`), and one is cut only
  when as many were kept as fit (`CutIsFull`).
* `WalkClosureExact`: the walk implements the reference closure, for any graph, cycles included,
  and any interleaving. While nothing has gone wrong (`Calm`), `LevelInv` says that what earlier
  levels required is `Met` (its edges are made, its versions visited); that what this level
  requires is pending, at work or met; that what the goroutines and the next level carry was read
  from a version first reached at this level (`Fresh`); and that each version read has its
  requirements met, carried, or in a level up to this one. Each critical section changes this in
  one of a few ways, summed up as `Advance`. Two facts make the ends meet: a version in nobody's
  hands when the level is over was read (`ReadOnce`), and a frontier that starts at a fresh version
  cannot be a requirement of an earlier level, nor a file's, so the depth bound marks exactly what
  the closure leaves out (`FinishExact`). A walk that runs out of requirements before the bound
  holds a set closed under `NextReqs`, hence all levels (`Closed`).

`CommandsProofs` proves all five invariants and the action property of `Commands`, for
any number of processes, runs and queries, in layers that each cite the one below:

* `TablesInv`: what transactions keep true of the tables, whoever runs them. Ids count up
  (`RowsNumbered`), so a new row is in no plan made before; `TablesMove` sums up what any
  transaction can look like to the others.
* `PlansKnow`: a plan names only numbers given out before, and each still means the
  project it meant. It holds because a fresh number is above `lastNum`, the sequence that
  no deletion lowers.
* `PlansSelect`: what a plan names by id is selected by its query, and stays so, because
  more rows never move a run forward (`PlaceGrows`).
* `PlansKeep`: of the runs a plan looked at it spares at most N per project. Two runs never
  have the same place (`FewInFront`), so the spared ones inject into `0..N-1`.

`RegistryProofs` proves, of the resolver, the types, `DurableIsBacked`, `FlightHasOneLeader` and the step
refinement `KeepsPromise` for any number of callers, restarts and revisions. The
invariant `ResolverInv` says of each place a body can be in that the blob cache has it and
that its form suffices for whoever may be given it from there; `LeadersAgree` ties the
callers to the flights. `ListMatchesBody` is false, but the weaker `ListOK` (a list under a
wrong key still comes from a served body of a sufficient form) is part of the invariant,
and enough for the refinement.

Of versions it proves `CandidatesAreRight` and `WillMovesOnlyToNews`, for any requests over the terms
the parsers return, any releases, and any number of them published in any order. The only
assumption, `VersionsAssumption`, is that these are what the parsers return and that the bound of
the policy is not 0. The state has little to say (`VersionsInv`: an answer is what `Enumerate` gives
for what was published when it was made, `Then`); the rest is about operators:

* `VersionsAreOrdered`: `Compare` and `ComparePEP440` are antisymmetric, and what is after what is
  after a third is after it (`Chains`). A comparison goes through parts until one decides;
  `SemChains` and `PythonChains` chain the parts, prereleases of different lengths and releases of
  different lengths included. Hence `BeforeIs`: equal versions kept in the order given, the sort is by
  a strict total order, and `Sorted` (`NewestFirstIs`) loses and repeats nothing.
* `PythonOrderIsPep440`: the rank orders versions as PEP 440 does while each has one suffix, and one that
  fits its band (`OneSuffix`). Without it the statement is false: that is `SuffixesKeepTheirBand`.
* `AdmittedAsPromised`: `Satisfies` lies between what a constraint must and may admit. Each scheme
  has its lemma, operator by operator (`NpmIs`, `CargoIs`, `TerraformIs`, `GoIs`,
  `AdmittedByPep440`, `PoetryIs`), and they meet in a few facts about an upper bound: a component
  increased and the rest filled with zeros is the least release that does not share the components
  before (`BumpIs` for three components, `ReleaseBump` for any number), and with the prerelease `0`
  it excludes that release's own prereleases too (`UptoIs`), which is why npm's `<2.0.0-0` admits no
  `2.0.0-alpha` where Cargo's `<2.0.0` does. For npm it must also be shown that a comparator with a
  prerelease is either the one written or such a bound (`NpmPre`), whose prereleases no version can
  be below: a range admits only the prereleases it names.
* `ExactIs`: what `IsExact` calls exact admits versions that compare as equal only.
* `LatestMovesOnlyToNews`: the newest of more is the newest of before or new (`LatestMoves`); for Python
  the prereleases passed over come back only while nothing stable was there to be installed.

`CandidatesAreRight` has two hypotheses. `Readable`: a term that the code reports as an error has no
candidates (Poetry's `^1.1.1alpha`, where `^1.1.1-alpha` is read). `Regular`, which has three parts. The
first is `OneSuffix` of the Python versions in question, so a dev of a prerelease is outside what is
proved. The second is that a star written without an operator follows at most two components: Cargo's
and Poetry's code reads `1.2.3.*` as `~1.2.3`, which shares two components and not three. The third
is that no bare version of Cargo has an `x` in its prerelease or build metadata: the code takes it
for a wildcard (`cargo.go:215`), so `0.0.3-next` is a tilde, and not a caret, and admits `0.0.9`.

`AnalysisProofs` proves, for every graph, lockfile family and audit:

* `AnalysisMergeDeclaresNothing`, from the invariant that lockfiles name package versions
  only: an edge of `Merge` leaves a package, or the root without a spec.
* `AnalysisTypeOK`: a component has a node (`NumbersFit`), and an in-degree is what is owed, so the
  arrays of the count are never indexed past the nodes nor an in-degree taken below zero.
* `AnalysisPickIsCanonical`: the invariant `ScanInv` says of a scan under way what the
  property says of a complete one, that `best` is the least of the largest gains among
  the dependencies looked at so far; `LeftIsNat` needs `Node` finite.
* `AnalysisBumpAloneClears`: the walk from a direct dependency `d` ends with `Below(d)`, the least
  set that holds `d` and is closed under the edges the walk follows (`BelowIsLeast`,
  `AttributeInv`). The property is about other paths than the walk's: without `d`, of which the walk
  knows nothing. `BelowWithout` equates the two: a set closed under the edges away from `d` is still
  closed for the walk of another dependency when the direct ones are taken out of it, and the
  unions of what lies below the others are closed under the edges away from `d`.
* `AnalysisPlanHonest`: `PicksInv` says that what is done is what lies under the picks, and that a
  running total of the entries ends at its size, as a pick's gain is what was not done before it.
  A scan that is over with no gain (`ScanInv`) leaves nothing under a dependency not picked.
  Both need `Root` among the nodes of the input, as the walk adds it first (`walker.go:55`).
* `AnalysisComponentsExact`: `TarjanInv` describes the search by its two stacks. A node is stacked
  while its component is open and gray while its frame is (`PathInv`): a stacked node leads to all
  that was stacked after it, and back to a gray one stacked before it. `LowInv` says what `low` is
  while frames are open, since a child's is handed to its parent only when its frame is popped: it is
  the number of a stacked node that is led to, and no edge looked at from under that frame leads
  lower. Hence at a node whose `low` is its own number nothing above it on the stack leads below it
  (`FinishGives`), and what is popped is one component, from which edges lead only to itself and to
  those popped before (`EdgeInv`, `DoneInv`).
* `AnalysisCountsExact`: by `EdgeInv` a component's neighbours have smaller numbers, so the chains of
  the property are sets of numbers in which each has the next as a neighbour (`Descents`,
  `ChainsAreDescents`), and those down to `c` are those down to its callers, each with `c` added
  (`DescentsThroughCallers`). `KahnInv` names the components already taken from the queue: what
  `indeg` still owes and what `count` has added speak of those, whichever neighbour came first
  (`Added`, `Owed`). Saturating sums are the saturated sum (`CappedIs`), and the greatest component
  not taken would be owed nothing (`AllCounted`), so the pass ends with all of them counted.
* `AnalysisInstalledIsReached`: a copy hangs off the root or off one at a shorter path
  (`InstancesAreNested`), so the root leads to every copy; along its edges chains are never lost
  (`ReachedHasChain`), and a count that is not zero is not zero when capped. The assumption on paths
  is `npmlock.go:72` and `:105`, which skip the entry with none.

`StartupProofs` proves all three invariants of `Startup`, for any number of processes, kills,
refs, versions of the file and old runs, from the typing assumptions of `Checkout` and `Schema`:

* `StartupInvariant` is `CheckoutInv` and `SchemaInv` and that a store is opened only for an
  opened source. `CheckoutInv` says of every source that was opened that it is what was asked,
  whatever was killed (`OpenedOK`: what a directory holds settles what can be read in it,
  `WhatIsRead`); and until the directory was `stirred`, what each place of
  `openRemote` may believe of the clone (`Undisturbed`): at most one process is in it, and the
  one that reads finds what it cloned or judged reusable. `StartsAsAsked` needs both, because the
  decision to reuse and the reading of the clone are separate steps. The exceptions are part
  of the property (`SourceIsAsked`): half a clone once something was killed or doubled, and the
  cached branch or tag that a scan without `--at` finds.
* `SchemaInv` says of every connection, wherever another process is, which statements the
  file must show by now (`ConnOK`): a statement is never undone, and the version is stamped
  only by one that ran them all. That is why `OpenStoreIsMigrated` holds even where two
  processes migrate at once; that each migrates alone (`OneMigrates`) is needed only for
  `StopsOnlyForCause`, which is about errors. What it lets pass as a cause is more than the
  documents do: any date, a branch in a full clone, and for `Open` of the store a migration
  that was once killed or doubled.

`FleetProofs` proves the three invariants of `Fleet`, for any number of repositories, workers,
faults, kills and restarts and any page size. `FleetInvariant` is inductive by parts:

* `ListingInv`: the pages that were read hold no repository that is still owed (`Missing`:
  wanted, not pushed to meanwhile, not yet listed). A push takes a repository from wherever it
  is to the front, so it moves every other one only further down, never back to a page already
  read; hence `NothingIsDropped`. The filter of a page is a recursive function (`Lists.Kept`),
  whose elements are found by an induction on its length (`KeptIs`).
* `StoreInv` and `OwnInv`: ids rise along the store, and a run that a goroutine knows by id is
  of its own repository for as long as it is stored; hence `RowsReportTheirOwn`, although
  goroutines and other processes write between the scan and the look.
* `ResumeInv`: a repository scanned has a run in the store, is in the set of those found done,
  or is past its scan in this process; hence `ResumeScansOnce` across kills.
* `NothingIsDropped` needs also that the document's rows and failures are permutations of the
  outcomes: `Sorted` enumerates any finite set under any strict total order.

`AuditProofs` proves the three invariants of `Audit`, for any advisories, documents, rows, batch
sizes, pools and numbers of attempts, whichever requests fail and whenever the run is deleted, from
the assumptions about OSV and deps.dev named in section 2. `AuditInvariant` says what a command has
in hand at each place, in three parts:

* `AdvisoryInv` rests on `Asked(nodes)`: a node that is in no batch still to be sent has all ids that
  are about it, and of each of those ids the record is there, in flight or still to be fetched, unless
  something failed. So when `Check` returns, its findings are `Attributed`: of each node every
  advisory known, itself or by a record that names it as an alias, and no other. That needs
  `DedupeKeepsBest` (of the records under one key one is better than all others, and is rated if any
  is) and `KeyIsFlaw` (records under one key are one flaw). The alias direction in `Attributed` is what
  `AuditMalice` needs: the record that is kept still names the malicious one.
* `SupplyInv`: `FactsInv` says of the batches under way that what was answered stands at the places
  of the nodes it was asked for. Every node asked about is in one batch (`BatchOf`, the only division
  in the model), so when all have returned each fact is its node's own (`FactsSettled`).
  `ProjectsInv` says the same of scorecards by repository, which makes `AuditPosture` a matter of
  `Assess`, one signal at a time (`SignalsAreOwn`).
* `ProcessInv`: what is known of the command's place, and that nothing is read or written before
  its turn. `AuditAdvisories` follows a finished document from there through `BuildReport`.

An induction over numbers is made without the library's induction theorems (they take an
operator as a parameter): the least number, or a minimal element of a well-founded order, at
which the claim fails is chosen (`NatMin`, `WFMin`) and refuted.

Model-checked only:

* liveness (`Terminates` of the walk and of the analysis, `EveryCallAnswered`, `OrgEnds`,
  `AuditEnds`), which is beyond this prover. Every safety invariant and action property of a
  passing run is proved.

## 5. What the violations show, and what else was seen

Each of the three is a sentence of the repository the code does not keep; `findings` in
`PROJECT.json` quotes them.

1. `ListMatchesBody`: `Versions` keys its list by the hash the memo has by then, not by
   the document it was made from (`npmregistry.go:256`).
2. `SuffixesKeepTheirBand`: a dated development release outranks the candidate and the
   release it leads to: `>=2.0` matches it, `<2.0` does not, and where prereleases are
   admitted it is the newest (`pep440.go:170`).
3. `ActionAdvisoriesReachTheScore`: an action whose worst record is `MALICIOUS` is counted
   under no severity, and its `HIGH` record with it (`report.go:1104`).

Disagreements that the models reproduce and no run is spent on:

* *Walk.* The requirements of a chosen version cannot be read, and the node stays resolved
  with no reason (`walker.go:310`; README.md:105 promises one). No version satisfies a
  requirement, and nothing is recorded of it (`walker.go:284`; README.md:103).
* *Scan.* After a timeout the run is stored and the observations of its mutable references
  are not (`main.go:581`), and `--format cyclonedx` returns an error instead of the partial
  closure (`main.go:592`): both are asked under the walk's context.
* *Analysis.* Nested copies of a `package-lock.json` in a subdirectory hang off the root, not
  off the copy that encloses them (`npmlock.go:90`). Offline, the installed version of a
  declared dependency has no surface and its findings are reported as inherited
  (`direct.go:68`).
* *Source.* No date given to `--at` is ever resolved: `treeAt` asks go-git for a revision of that
  name (`local.go:101`), against `main.go:63`, `source.go:56` and README.md:133. A branch that
  exists is refused in a full clone, be it from the cache or cloned after the narrow fetch
  failed, since it is filed under its remote there (`local.go:101`, against `main.go:63` and
  README.md:128). After a scan of a branch or tag of a URL, a plain scan of the URL walks the cached
  clone of that branch or tag, not the tip (`clone.go:32`, against `clone.go:83`). After a kill in
  the middle of a clone or of its removal, or with two processes at once, a scan may read half a
  clone and say nothing (`clone.go:32` takes any `.git` for a clone). A directory without git ignores `--at`.
* *Store open.* A process that is killed between a statement of the migration and its version, or two
  that migrate at once, may leave a column that the next `Open` adds again: then that `Open` and
  every later one fail, and nothing in the code repairs the file (`store.go:122`).
* *Org.* An organisation without repositories falls back to the user endpoint (`github.go:114`);
  the introducers of a fleet are counted by entries, not by packages (`org.go:366`).
* *Audit.* `RecordSupply` is documented best-effort ("The caller logs and continues",
  `supply.go:28`); `risk` does go on, `report` returns its error (`report.go:124`). A project
  that cannot be reached is signalled `no-scorecard`. The store is read in separate queries: a
  `clean` between the first and the second yields "nothing to grade" next to findings, and one
  before the query of actions counts actions as audited that were not asked. OSV's
  `next_page_token` and a short list of results are ignored (`osv.go:424`). `dedupe` keys on the
  first CVE, so an unrated malicious record loses to a rated one of the same CVE; malice survives
  because OSV's aliases are symmetric.
* *Versions.* Cargo's `^1.2.3-alpha` admits `2.0.0-alpha`; `>1.2` and `=1.2` are filled with zeros;
  `1.2.3.*` is read as `~1.2.3` (`cargo.go:215`), and a bare version with an `x` anywhere in it as a tilde:
  `0.0.3-next` admits `0.0.9`, against `cargo.go:227`. Poetry's `=1.2` becomes `===1.2`; its
  `^1.1.1alpha` is an error, though PEP 440 spells a prerelease so (`poetry.go:116`,
  `release.go:43`). A dev of a prerelease ranks one below it, whatever its number,
  so it ties with the prerelease before it and may leave the band (`pep440.go:174`): the model
  does the same, and no property is about it.
* *Store.* Runs are ordered by the text of their instants, in which `...00.1Z` follows
  `...00.12Z` (`store.go:484`). The models order them by instant.

## 6. Not modelled, and what could follow

Not modelled: the text of manifests, lockfiles, versions and documents (`extract`, `gomod`,
`emit`, the parsers of `effective`), the replay of git history (`history`), the printing
commands, and the registries other than npm. See `components`.

What could follow, most important first:

1. *The other resolvers* as instances of `Resolver`'s structure, and what extractors hand to the
   walk for each kind of file.
2. *Pure functions*: local version labels and the dialects of version text.

Each module keeps its parameters as CONSTANTS with named assumptions, one action per operation,
invariants as conjunctions of named parts, and no RECURSIVE operator.
