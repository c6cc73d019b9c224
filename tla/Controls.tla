------------------------------- MODULE Controls ------------------------------
(***************************************************************************)
(* internal/controls: the security tooling a repository's own CI runs,     *)
(* read off the nodes of its closure.  A shell line is a sequence of       *)
(* commands, a command a sequence of words in lower case.                  *)
(***************************************************************************)
EXTENDS Naturals, SequencesExt

CONSTANTS
  ActionTools,   \* action name -> control
  CommandTools,  \* binary -> control
  Subcommands,   \* <<binary, word>> -> control
  Bots           \* config file -> control

Kinds ==
  {"dependency-scanning", "container-scanning", "sbom", "static-analysis", "secret-scanning",
   "iac-scanning", "signing", "dependency-updates", "ci-hardening"}

ASSUME ControlsAssumption ==
  \A c \in UNION {Range(ActionTools), Range(CommandTools), Range(Subcommands), Range(Bots)} :
    c.kind \in Kinds

(* What stands before the command: sudo and environment assignments.       *)
Skipped == {"sudo", "VAR=value"}

(* The command a line's words start, past the prefixes.                    *)
Invoked(words) ==
  LET heads == {i \in DOMAIN words : words[i] \notin Skipped}
      from  == CHOOSE i \in heads : \A j \in heads : i <= j
  IN  IF heads = {} THEN <<>> ELSE SubSeq(words, from, Len(words))

FromWords(words) ==
  LET fields == Invoked(words) IN
  CASE fields # <<>> /\ fields[1] \in DOMAIN CommandTools -> {CommandTools[fields[1]]}
    [] /\ Len(fields) >= 2 /\ fields[1] \notin DOMAIN CommandTools
       /\ SubSeq(fields, 1, 2) \in DOMAIN Subcommands -> {Subcommands[SubSeq(fields, 1, 2)]}
    [] OTHER -> {}

FromCommand(line) == UNION {FromWords(line[i]) : i \in DOMAIN line}

(* What one row of the run's nodes is evidence of.                         *)
Evidence(row) ==
  CASE row.id.type \in {"github", "gitlab"} ->
         {ActionTools[x] : x \in {row.id.name} \cap DOMAIN ActionTools}
    [] row.id.type = "unanalysed" -> {Bots[x] : x \in {row.id.name} \cap DOMAIN Bots}
    [] /\ row.id.type \notin {"github", "gitlab", "unanalysed"}
       /\ row.completeness = "opaque" -> FromCommand(row.note)
    [] OTHER -> {}

Detect(rows) == UNION {Evidence(row) : row \in rows}

Missing(found) == Kinds \ {c.kind : c \in found}

(* Whether there is a CI definition that was read at all.                  *)
Assessable(rows) ==
  \E row \in rows :
    row.id.type = "buildfile" /\ row.id.name \in {<<"workflow">>, <<"gitlab-ci">>}
==============================================================================
