------------------------------ MODULE Checkout -------------------------------
(***************************************************************************)
(* internal/source: a target becomes a tree of files.  A remote is cloned  *)
(* into a directory named after its URL, which every process given that    *)
(* URL shares and which outlives them all; nothing locks it, and nothing   *)
(* fetches again what is there.                                            *)
(*                                                                         *)
(* Where the code does less than main.go:63 and README.md:128-133 promise  *)
(* of --at, the model follows the code: no date is resolved (treeAt knows  *)
(* names and commits), and a branch is refused in a full clone.            *)
(***************************************************************************)
EXTENDS Integers, FiniteSets, Processes

CONSTANT
  Targets   \* subset of {"remote", "checkout", "directory"}: a URL, a git
            \* checkout of the user's, a directory without git

(* --at: nothing; a name (of a branch other than the default, of a tag, of *)
(* neither); a commit; a date, which with a commit nobody has is fetched   *)
(* in full and resolved by nothing.                                        *)
Revisions == {"none", "branch", "tag", "unknown", "commit", "date"}
LooksLikeRefName(at) == at \in {"branch", "tag", "unknown"}

VARIABLES
  dir,     \* the cache directory: its .git, what it has checked out, and who
           \* is cloning; "making" is a clone under way, or what is left when
           \* one, or its removal, is killed
  opener,  \* the processes
  stirred  \* history: a process was killed changing the directory, or two
           \* were in openRemote

checkoutVars == <<dir, opener, stirred>>

NoDir == [git |-> "none", head |-> "nothing", by |-> "nobody"]
NoSource == [reads |-> "nothing", of |-> "nothing"]
Waiting == [pc |-> "waiting", target |-> "remote", at |-> "none",
            try |-> "full", source |-> NoSource, why |-> "none"]

CheckoutInit ==
  /\ dir = NoDir /\ stirred = FALSE
  /\ opener = [p \in Process |-> Waiting]

InRemote == {p \in Process : opener[p].pc \in {"stat", "remove", "clone", "fetch", "read"}}
NeedHistory(p) == opener[p].at # "none"
Goto(p, pc)  == opener' = [opener EXCEPT ![p].pc = pc]
Clone(p, kind) == opener' = [opener EXCEPT ![p].pc = "clone", ![p].try = kind]
Refuse(p, why) == opener' = [opener EXCEPT ![p].pc = "refused", ![p].why = why]
Opened(p, of, reads) ==
  opener' = [opener EXCEPT ![p].pc = "opened", ![p].source = [of |-> of, reads |-> reads]]

(* Open: a directory is read where it is, anything else is a remote.       *)
Open(p) ==
  /\ opener[p].pc = "waiting"
  /\ \E t \in Targets, at \in Revisions :
       opener' = [opener EXCEPT ![p] = [Waiting EXCEPT !.target = t, !.at = at,
                    !.pc = IF t = "remote" THEN "stat" ELSE "local"]]
  /\ UNCHANGED <<dir, stirred>>

(* openLocal on the user's own directory: what is not a git repository is  *)
(* walked as it is, whatever --at says.                                    *)
OpenLocal(p) ==
  /\ opener[p].pc = "local"
  /\ CASE opener[p].target = "checkout" /\ opener[p].at \in {"unknown", "date"} ->
            Refuse(p, "no such revision")
       [] opener[p].target = "checkout" /\ opener[p].at \in {"branch", "tag", "commit"} ->
            Opened(p, "path", opener[p].at)
       [] OTHER -> Opened(p, "path", "worktree")
  /\ UNCHANGED <<dir, stirred>>

(* Mutant: a clone is reused whatever its depth.                           *)
Reuse_Shallow(p) == {TRUE}

(* A clone that is there is reused unless it is shallow and this run needs *)
(* history; a half-made one may or may not say that it is shallow.         *)
Reuse(p) ==
  CASE ~NeedHistory(p) \/ dir.git = "full" -> {TRUE}
    [] dir.git = "shallow" -> {FALSE}
    [] OTHER -> BOOLEAN

(* A name may be a branch, or else a tag; the rest is fetched in full.     *)
FirstTry(p) == IF LooksLikeRefName(opener[p].at) THEN "branch" ELSE "full"

Stat(p) ==
  /\ opener[p].pc = "stat"
  /\ IF dir.git = "none" THEN Clone(p, FirstTry(p))
     ELSE \E reuse \in Reuse(p) :
            IF reuse THEN opener' = [opener EXCEPT ![p].pc = "read", ![p].try = "cached"]
            ELSE Goto(p, "remove")
  /\ stirred' = (stirred \/ InRemote # {p})
  /\ UNCHANGED dir

RemoveAll(p) ==
  /\ opener[p].pc = "remove"
  /\ dir' = NoDir /\ Clone(p, FirstTry(p))
  /\ UNCHANGED stirred

(* What follows a failed attempt: the directory is cleared and the next    *)
(* form tried; after the full clone there is none.                         *)
AfterFailure(p) ==
  CASE opener[p].try = "branch" -> dir' = NoDir /\ Clone(p, "tag")
    [] opener[p].try = "tag" -> dir' = NoDir /\ Clone(p, "full")
    [] OTHER -> Refuse(p, "clone")

(* PlainCloneContext does not clone over a repository that is there.       *)
BeginClone(p) ==
  /\ opener[p].pc = "clone"
  /\ IF dir.git = "none"
       THEN /\ dir' = [git |-> "making", head |-> "nothing", by |-> p]
            /\ Goto(p, "fetch")
       ELSE /\ opener[p].try = "full" => UNCHANGED dir
            /\ AfterFailure(p)
  /\ stirred' = (stirred \/ dir.git # "none")

(* Depth 1 but for a full clone of a run that needs history.               *)
CloneDone(p) ==
  LET try == opener[p].try IN
  /\ opener[p].pc = "fetch" /\ dir.by = p
  /\ try # "full" => opener[p].at = try
  /\ dir' = [git  |-> IF try = "full" /\ NeedHistory(p) THEN "full" ELSE "shallow",
             head |-> IF try = "full" THEN "tip" ELSE try, by |-> "nobody"]
  /\ Goto(p, "read")
  /\ UNCHANGED stirred

(* No such ref, no network, the deadline: what was fetched is removed.     *)
CloneFails(p) ==
  /\ opener[p].pc = "fetch"
  /\ dir' = NoDir /\ AfterFailure(p)
  /\ UNCHANGED stirred

(* Mutant: a clone from the cache is named after its directory.            *)
Identity_OnHit(p) == IF opener[p].try = "cached" THEN "hash" ELSE "url"

(* openCloned restores the URL, on every path out of openRemote.           *)
Identity(p) == "url"

(* treeAt: the revisions that resolve, by what a clone holds.  go-git files *)
(* the other branches of a full clone under its remote, where the bare name *)
(* of one is not found; of a half-made clone anything may be there.        *)
Resolves(d) ==
  CASE d.git = "shallow" -> {d.head}
    [] d.git = "full" -> {"tag", "commit"}
    [] d.git = "making" -> {"branch", "tag", "commit"}
    [] OTHER -> {}

(* openLocal on the clone: the files that lie there, without --at, and with *)
(* it where git does not open the directory; a revision that resolves.     *)
Readings(d, at) ==
  CASE d.git = "none" -> {"nothing"}
    [] d.git = "making" -> {"part"} \cup (Resolves(d) \cap {at})
    [] OTHER -> IF at = "none" THEN {d.head} ELSE Resolves(d) \cap {at}

(* Whether treeAt can refuse: it does when the revision is not there.      *)
MayRefuse(d, at) ==
  at # "none" /\ (d.git = "making" \/ (d.git # "none" /\ at \notin Resolves(d)))

(* openCloned; what a narrow clone does not resolve is cloned in full.     *)
ReadClone(p) ==
  LET at == opener[p].at IN
  /\ opener[p].pc = "read"
  /\ \/ \E reads \in Readings(dir, at) : Opened(p, Identity(p), reads) /\ UNCHANGED dir
     \/ /\ MayRefuse(dir, at)
        /\ IF opener[p].try \in {"branch", "tag"}
             THEN dir' = NoDir /\ Clone(p, "full")
             ELSE Refuse(p, "no such revision") /\ UNCHANGED dir
  /\ UNCHANGED stirred

(* A removal that is killed leaves anything between the clone and nothing. *)
KillOpener(p) ==
  /\ stirred' = (stirred \/ dir.by = p \/ opener[p].pc = "remove")
  /\ opener' = [opener EXCEPT ![p] = Waiting]
  /\ \/ UNCHANGED dir
     \/ /\ opener[p].pc = "remove" /\ dir.git \in {"shallow", "full"}
        /\ dir' = [git |-> "making", head |-> "nothing", by |-> "nobody"]

OpenSource(p) ==
  \/ OpenLocal(p) \/ Stat(p) \/ RemoveAll(p) \/ BeginClone(p) \/ CloneDone(p)
  \/ CloneFails(p) \/ ReadClone(p)

-----------------------------------------------------------------------------
(* A source carries the identity it was asked for, and with --at it reads  *)
(* that revision and no other.  Two things may become of it, and they are  *)
(* the exceptions below:                                                   *)
(*   - after a process was killed changing the clone, or with two at once, *)
(*     the files of half a clone may be read, or none (and a scan without  *)
(*     --at may read any);                                                 *)
(*   - a scan without --at that finds a clone reads what that clone has    *)
(*     checked out: the branch or the tag an earlier --at left there, not  *)
(*     "the tip it was given" of clone.go:83.                              *)
(* The tree of a directory without git has no revisions.                   *)
SourceIsAsked(p) ==
  LET s == opener[p].source at == opener[p].at IN
  CASE opener[p].target = "remote" /\ at = "none" ->
         /\ s.of = "url"
         /\ \/ stirred \/ s.reads = "tip"
            \/ opener[p].try = "cached" /\ s.reads \in {"branch", "tag"}
    [] opener[p].target = "remote" /\ at # "none" ->
         s.of = "url" /\ s.reads \in {at} \cup (IF stirred THEN {"part", "nothing"} ELSE {})
    [] opener[p].target = "checkout" ->
         s.of = "path" /\ s.reads = (IF at = "none" THEN "worktree" ELSE at)
    [] OTHER -> s.of = "path" /\ s.reads = "worktree"

(* A revision is refused when nobody knows it; or it is a date, which      *)
(* main.go:63, source.go:56 and README.md:133 promise; or it is a branch   *)
(* that main.go:63 and README.md:128 promise, and the clone is a full one: *)
(* from the cache, or because the narrow fetch failed.                     *)
RefusalHasCause(p) ==
  opener[p].why = "no such revision" =>
    \/ opener[p].at \in {"unknown", "date"}
    \/ opener[p].at = "branch" /\ opener[p].try \in {"cached", "full"} /\ dir.git = "full"

==============================================================================
