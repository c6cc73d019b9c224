------------------------------- MODULE Schema --------------------------------
(***************************************************************************)
(* store.Open and migrate: the schema of one SQLite file, brought to       *)
(* version 5 statement by statement, each its own transaction, by any of   *)
(* the processes that open it; and the registry that version 5 brought,    *)
(* into which the runs of older versions are adopted.                      *)
(***************************************************************************)
EXTENDS Integers, Sequences, FiniteSets, SequencesExt, Processes

CONSTANTS
  Version,  \* the version the file may have at first; 0 is a file just made
  OldRuns,  \* the rows of runs in a file older than version 5: [id, target]
  NoKey

(* A target as it was recorded: the parts of a remote URL, or, without a   *)
(* host, the bare name of a directory.                                     *)
Remotes == [host : {"", "github.com"}, path : {"", "o/one", "o/two"},
            upper : BOOLEAN, dotgit : BOOLEAN, scp : BOOLEAN]

ASSUME SchemaAssumption ==
  /\ Version \subseteq 0 .. 5
  /\ \A r \in OldRuns : r.target \in Remotes /\ r.id \in Nat

VARIABLES
  version,   \* PRAGMA user_version
  columns,   \* what the schema has
  rows,      \* runs: [id, target, num]; 0 is NULL
  registry,  \* projects: [num, key]
  conn,      \* the processes in Open
  disturbed  \* history: two were in migrate at once, or one was killed there

schemaVars == <<version, columns, rows, registry, conn, disturbed>>

schemaVersion == 5

(* Canonical: userinfo, port, the .git suffix and the case are dropped.    *)
Canonical(t) == IF t.host = "" \/ t.path = "" THEN NoKey ELSE <<t.host, t.path>>

(* Of: the remote wins over the path.                                      *)
Of(o) == CASE Canonical(o.remote) # NoKey -> Canonical(o.remote)
           [] o.path # "" -> <<"", o.path>>
           [] OTHER -> NoKey

(* A statement adds parts to the schema; unless it says IF NOT EXISTS it   *)
(* fails when they are there.                                              *)
Creates(parts) == [adds |-> parts, unless |-> FALSE]
CreatesIfNone(parts) == [adds |-> parts, unless |-> TRUE]

schemaSQL == <<Creates({"runs", "project_num"}), Creates({"registry"}),
               Creates({"version_rollup", "pinning", "declared_spec"}),
               Creates({"packument_obs", "full"}), Creates({"supply"})>>
migrateProjects == <<CreatesIfNone({"registry"}), Creates({"project_num"})>>

(* Mutant: the columns of version 3 are added for version 1 only.          *)
Statements_SkipsTwo(v) ==
  (IF v = 0 THEN schemaSQL ELSE <<>>)
  \o (IF v = 1 THEN <<Creates({"full"}), Creates({"pinning"}), Creates({"declared_spec"})>>
      ELSE <<>>)
  \o (IF v \in 1 .. 3 THEN <<CreatesIfNone({"supply"})>> ELSE <<>>)
  \o (IF v \in 1 .. 4 THEN migrateProjects ELSE <<>>)

(* migrate: the statements for a file found at version v, before adoption. *)
Statements(v) ==
  (IF v = 0 THEN schemaSQL ELSE <<>>)
  \o (IF v = 1 THEN <<Creates({"full"})>> ELSE <<>>)
  \o (IF v \in 1 .. 2 THEN <<Creates({"pinning"}), Creates({"declared_spec"})>> ELSE <<>>)
  \o (IF v \in 1 .. 3 THEN <<CreatesIfNone({"supply"})>> ELSE <<>>)
  \o (IF v \in 1 .. 4 THEN migrateProjects ELSE <<>>)

Whole == UNION {schemaSQL[i].adds : i \in DOMAIN schemaSQL}
(* The schema as each version's program left it.                           *)
Columns(v) ==
  CASE v = 0 -> {}
    [] v = 1 -> Whole \ {"full", "pinning", "declared_spec", "supply", "registry", "project_num"}
    [] v = 2 -> Whole \ {"pinning", "declared_spec", "supply", "registry", "project_num"}
    [] v = 3 -> Whole \ {"supply", "registry", "project_num"}
    [] v = 4 -> Whole \ {"registry", "project_num"}
    [] OTHER -> Whole

Closed == [pc |-> "closed", v |-> 0, todo |-> <<>>, targets |-> {}]

SchemaInit ==
  /\ version \in Version /\ columns = Columns(version)
  /\ rows = IF version \notin 1 .. 4 THEN {}
            ELSE {[id |-> r.id, target |-> r.target, num |-> 0] : r \in OldRuns}
  /\ registry = {} /\ disturbed = FALSE
  /\ conn = [p \in Process |-> Closed]

Migrating == {p \in Process : conn[p].pc \in {"exec", "select", "adopt", "stamp"}}

(* Ping, then PRAGMA user_version.                                         *)
ReadVersion(p) ==
  /\ conn[p].pc = "closed"
  /\ conn' = [conn EXCEPT ![p] = [Closed EXCEPT !.v = version,
       !.todo = Statements(version),
       !.pc = IF version >= schemaVersion THEN "open" ELSE "exec"]]
  /\ disturbed' = (disturbed \/ (version < schemaVersion /\ Migrating # {}))
  /\ UNCHANGED <<version, columns, rows, registry>>

Exec(p) ==
  LET stmt == Head(conn[p].todo) IN
  /\ conn[p].pc = "exec" /\ conn[p].todo # <<>>
  /\ IF ~stmt.unless /\ stmt.adds \cap columns # {}
       THEN /\ conn' = [conn EXCEPT ![p].pc = "failed"]
            /\ UNCHANGED columns
       ELSE /\ columns' = columns \cup stmt.adds
            /\ conn' = [conn EXCEPT ![p].todo = Tail(@)]
  /\ UNCHANGED <<version, rows, registry, disturbed>>

(* SELECT DISTINCT target: for a file that had no registry.                *)
SelectTargets(p) ==
  /\ conn[p].pc = "exec" /\ conn[p].todo = <<>>
  /\ conn' = [conn EXCEPT ![p].pc = IF conn[p].v = 0 THEN "stamp" ELSE "adopt",
                          ![p].targets = {r.target : r \in rows}]
  /\ UNCHANGED <<version, columns, rows, registry, disturbed>>

KeysOf(targets) == {Canonical(t) : t \in targets} \ {NoKey}

(* The registry after an upsert of each key, numbers given in some order.  *)
Upserted(keys) ==
  LET new == keys \ {q.key : q \in registry} IN
  {registry \cup {[num |-> Cardinality(registry) + i, key |-> order[i]] : i \in DOMAIN order}
     : order \in SetToSeqs(new)}

(* migrateProjects: one transaction claims the runs whose target is a URL. *)
Adopt(p) ==
  /\ conn[p].pc = "adopt"
  /\ \E reg \in Upserted(KeysOf(conn[p].targets)) :
       /\ registry' = reg
       /\ rows' = {[r EXCEPT !.num =
                      IF r.target \in conn[p].targets /\ Canonical(r.target) # NoKey
                        THEN (CHOOSE q \in reg : q.key = Canonical(r.target)).num
                        ELSE @] : r \in rows}
  /\ conn' = [conn EXCEPT ![p].pc = "stamp"]
  /\ UNCHANGED <<version, columns, disturbed>>

(* PRAGMA user_version = 5, last.                                          *)
Stamp(p) ==
  /\ conn[p].pc = "stamp"
  /\ version' = schemaVersion
  /\ conn' = [conn EXCEPT ![p].pc = "open"]
  /\ UNCHANGED <<columns, rows, registry, disturbed>>

KillConn(p) ==
  /\ disturbed' = (disturbed \/ p \in Migrating)
  /\ conn' = [conn EXCEPT ![p] = Closed]
  /\ UNCHANGED <<version, columns, rows, registry>>

OpenStore(p) == ReadVersion(p) \/ Exec(p) \/ SelectTargets(p) \/ Adopt(p) \/ Stamp(p)

-----------------------------------------------------------------------------
(* A store that Open returned has the whole schema, whoever else opened it *)
(* or died doing so; its projects are one per remote, and the runs that    *)
(* name a remote, and no others, are claimed by the project of that remote.*)
StoreIsMigrated ==
  (\E p \in Process : conn[p].pc = "open") =>
    /\ version = schemaVersion /\ columns = Whole
    /\ \A q, s \in registry : q.num = s.num <=> q.key = s.key
    /\ \A r \in rows :
         IF Canonical(r.target) = NoKey THEN r.num = 0
         ELSE [num |-> r.num, key |-> Canonical(r.target)] \in registry

(* An Open fails only where two migrated at once or one died migrating.    *)
OpenFailsForCause == (\E p \in Process : conn[p].pc = "failed") => disturbed
==============================================================================
