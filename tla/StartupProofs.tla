--------------------------- MODULE StartupProofs -----------------------------
(***************************************************************************)
(* What the start of a scan promises, for any number of processes over one *)
(* cached clone and one database, killed any number of times.              *)
(*                                                                         *)
(* Of the clone, the invariant says what the directory holds at each place *)
(* of openRemote a process can be in, as long as nobody disturbed it; of   *)
(* the store, that what a process found and what it has still to execute   *)
(* make up the whole schema, however many others execute the same.         *)
(***************************************************************************)
EXTENDS Startup, FiniteSetTheorems, TLAPS

Tries == {"full", "branch", "tag", "cached"}
OpenPcs == {"waiting", "local", "stat", "remove", "clone", "fetch", "read", "opened", "refused"}
WhatIsRead == {"nothing", "part", "worktree", "tip", "branch", "tag", "commit"}
Causes == {"none", "clone", "no such revision"}
Opener == [pc : OpenPcs, target : Targets \cup {"remote"}, at : Revisions, try : Tries,
           source : [reads : WhatIsRead, of : {"nothing", "path", "url"}], why : Causes]
Directory == [git : {"none", "making", "shallow", "full"},
              head : {"nothing", "tip", "branch", "tag"}, by : Process \cup {"nobody"}]

(* The places of openRemote where the directory is what its process thinks *)
(* it is; in "stat" it has not looked yet.                                 *)
Inside == {"remove", "clone", "fetch", "read"}

(* What a process has decided, wherever it is.                             *)
DecidedOK(o) ==
  /\ o.pc = "local" => o.target # "remote"
  /\ o.pc \in Inside \cup {"stat"} => o.target = "remote"
  /\ o.pc \in {"clone", "fetch"} => o.try # "cached"
  /\ o.pc \in {"clone", "fetch"} /\ o.try \in {"branch", "tag"} => LooksLikeRefName(o.at)
  /\ o.pc = "read" /\ o.try \in {"branch", "tag"} => o.at = o.try

(* What the directory is to a process that is alone in it.                 *)
AloneOK(p, o, d) ==
  /\ o.pc = "remove" => d.git = "shallow"
  /\ o.pc = "clone" => d.git = "none"
  /\ o.pc = "fetch" => d.git = "making" /\ d.by = p
  /\ o.pc = "read" =>
       CASE o.try \in {"branch", "tag"} -> d.git = "shallow" /\ d.head = o.try
         [] o.try = "full" -> /\ d.git = IF o.at = "none" THEN "shallow" ELSE "full"
                              /\ d.head = "tip"
         [] OTHER -> d.git \in {"shallow", "full"} /\ (o.at # "none" => d.git = "full")

(* A clone that is there and not being made has a revision checked out.    *)
CloneWhole(d) == d.git \in {"shallow", "full"} => d.head # "nothing"

CheckoutTypeOK ==
  /\ opener \in [Process -> Opener] /\ dir \in Directory /\ stirred \in BOOLEAN
  /\ \A p \in Process : DecidedOK(opener[p])
Undisturbed ==
  /\ \A p, q \in Process : opener[p].pc \in Inside /\ opener[q].pc \in Inside => p = q
  /\ dir.git = "making" => \E p \in Process : opener[p].pc = "fetch"
  /\ CloneWhole(dir)
  /\ \A p \in Process : AloneOK(p, opener[p], dir)
OpenedOK == \A p \in Process : opener[p].pc = "opened" => SourceIsAsked(p)
RefusedOK == \A p \in Process : opener[p].pc = "refused" => RefusalHasCause(p)

(* A process is in the store only with a source in hand.                   *)
StoreAfterSource == \A p \in Process : conn[p].pc # "closed" => opener[p].pc = "opened"

CheckoutInv ==
  CheckoutTypeOK /\ OpenedOK /\ (~stirred => Undisturbed /\ RefusedOK)

-----------------------------------------------------------------------------
(* Of a step of p on the clone: p alone changes its place, and this is how.*)
Moves(p, pc, try, source, why) ==
  /\ opener' \in [Process -> Opener]
  /\ opener'[p].pc = pc /\ opener'[p].try = try
  /\ opener'[p].source = source /\ opener'[p].why = why
  /\ opener'[p].target = opener[p].target /\ opener'[p].at = opener[p].at
  /\ \A q \in Process \ {p} : opener'[q] = opener[q]

LEMMA MovesByHelper ==
  ASSUME CheckoutTypeOK, NEW p \in Process
  PROVE  /\ \A pc \in OpenPcs : Goto(p, pc) =>
              Moves(p, pc, opener[p].try, opener[p].source, opener[p].why)
         /\ \A kind \in Tries : Clone(p, kind) =>
              Moves(p, "clone", kind, opener[p].source, opener[p].why)
         /\ \A why \in Causes : Refuse(p, why) =>
              Moves(p, "refused", opener[p].try, opener[p].source, why)
         /\ \A of \in {"path", "url"}, reads \in WhatIsRead : Opened(p, of, reads) =>
              Moves(p, "opened", opener[p].try, [of |-> of, reads |-> reads], opener[p].why)
<1>1. opener \in [Process -> Opener] BY DEF CheckoutTypeOK
<1>2. ASSUME NEW pc \in OpenPcs, Goto(p, pc)
      PROVE  Moves(p, pc, opener[p].try, opener[p].source, opener[p].why)
  BY <1>1, <1>2 DEF Goto, Opener, Moves
<1>3. ASSUME NEW kind \in Tries, Clone(p, kind)
      PROVE  Moves(p, "clone", kind, opener[p].source, opener[p].why)
  BY <1>1, <1>3 DEF Clone, Opener, OpenPcs, Moves
<1>4. ASSUME NEW why \in Causes, Refuse(p, why)
      PROVE  Moves(p, "refused", opener[p].try, opener[p].source, why)
  BY <1>1, <1>4 DEF Refuse, Opener, OpenPcs, Moves
<1>5. ASSUME NEW of \in {"path", "url"}, NEW reads \in WhatIsRead, Opened(p, of, reads)
      PROVE  Moves(p, "opened", opener[p].try, [of |-> of, reads |-> reads], opener[p].why)
  BY <1>1, <1>5 DEF Opened, Opener, OpenPcs, Moves
<1> QED BY <1>2, <1>3, <1>4, <1>5

LEMMA WaitingOK ==
  Waiting \in Opener /\ Waiting.pc = "waiting" /\ Waiting.why = "none" /\ Waiting.try = "full"
BY DEF Waiting, NoSource, Opener, OpenPcs, Tries, Revisions, WhatIsRead, Causes

LEMMA CheckoutInit_Inv == CheckoutInit => CheckoutInv
<1> SUFFICES ASSUME CheckoutInit PROVE CheckoutInv OBVIOUS
<1>1. Waiting \in Opener BY WaitingOK
<1>2. NoDir \in Directory BY DEF NoDir, Directory
<1>3. Waiting.pc = "waiting" /\ NoDir.git = "none" BY DEF Waiting, NoDir
<1>4. CheckoutTypeOK
  BY <1>1, <1>2, <1>3 DEF CheckoutInit, CheckoutTypeOK, DecidedOK, Inside
<1> QED
  BY <1>3, <1>4 DEF CheckoutInit, CheckoutInv, Undisturbed, OpenedOK, RefusedOK, AloneOK, CloneWhole, Inside

(* A step of p leaves the rest of the invariant alone when it changes the  *)
(* directory only from inside, does not undo a full clone, and enters only *)
(* where nobody is.                                                        *)
LEMMA TypeKept ==
  ASSUME CheckoutTypeOK, NEW p \in Process, NEW pc, NEW try, NEW source, NEW why,
         Moves(p, pc, try, source, why), DecidedOK(opener'[p]),
         dir' \in Directory, stirred' \in BOOLEAN
  PROVE  CheckoutTypeOK'
BY DEF CheckoutTypeOK, Moves

LEMMA CalmKept ==
  ASSUME Undisturbed, RefusedOK,
         NEW p \in Process, NEW pc, NEW try, NEW source, NEW why,
         Moves(p, pc, try, source, why),
         dir' # dir => opener[p].pc \in Inside,
         dir.git = "full" => dir'.git = "full",
         pc \in Inside => opener[p].pc \in Inside \/ InRemote = {p},
         dir'.git = "making" => pc = "fetch" \/ (dir' = dir /\ opener[p].pc # "fetch"),
         CloneWhole(dir'), AloneOK(p, opener'[p], dir'),
         pc = "refused" => RefusalHasCause(p)'
  PROVE  Undisturbed' /\ RefusedOK'
<1>1. opener'[p].pc = pc /\ \A q \in Process \ {p} : opener'[q] = opener[q] BY DEF Moves
<1>2. \A q \in Process \ {p} : pc \in Inside \/ opener[p].pc \in Inside => opener[q].pc \notin Inside
  BY DEF Undisturbed, InRemote, Inside
<1>3. (\A q, r \in Process : opener[q].pc \in Inside /\ opener[r].pc \in Inside => q = r)'
  BY <1>1, <1>2 DEF Undisturbed
<1>4. (dir.git = "making" => \E q \in Process : opener[q].pc = "fetch")'
  BY <1>1 DEF Undisturbed
<1>5. ASSUME NEW q \in Process PROVE AloneOK(q, opener[q], dir)'
  <2>1. CASE q = p BY <2>1
  <2>2. CASE q # p /\ dir' = dir BY <1>1, <2>2 DEF Undisturbed
  <2>3. CASE q # p /\ dir' # dir BY <1>1, <1>2, <2>3 DEF AloneOK, Inside
  <2> QED BY <2>1, <2>2, <2>3
<1>6. RefusedOK'
  <2> SUFFICES ASSUME NEW q \in Process, q # p
               PROVE  (opener[q].pc = "refused" => RefusalHasCause(q))'
    BY <1>1 DEF RefusedOK
  <2> QED BY <1>1 DEF RefusedOK, RefusalHasCause
<1> QED BY <1>3, <1>4, <1>5, <1>6 DEF Undisturbed

(* The source of another stays what it was: an exception once made stands. *)
LEMMA OpenedKept ==
  ASSUME OpenedOK, NEW p \in Process, stirred => stirred',
         \A q \in Process \ {p} : opener'[q] = opener[q],
         opener'[p].pc = "opened" => SourceIsAsked(p)'
  PROVE  OpenedOK'
<1> SUFFICES ASSUME NEW q \in Process, q # p, opener'[q].pc = "opened"
             PROVE  SourceIsAsked(q)'
  BY DEF OpenedOK
<1>1. SourceIsAsked(q) /\ opener'[q] = opener[q] BY DEF OpenedOK
<1> QED BY <1>1 DEF SourceIsAsked

(* A process that comes, or goes without an answer, from outside.          *)
LEMMA OnlyOutside ==
  ASSUME Undisturbed, RefusedOK, NEW p \in Process, dir' = dir,
         opener[p].pc # "fetch", opener'[p].pc \in {"waiting", "stat", "local"},
         \A q \in Process \ {p} : opener'[q] = opener[q]
  PROVE  Undisturbed' /\ RefusedOK'
<1>1. (\A q, r \in Process : opener[q].pc \in Inside /\ opener[r].pc \in Inside => q = r)'
  BY DEF Undisturbed, Inside
<1>2. (dir.git = "making" => \E q \in Process : opener[q].pc = "fetch")'
  BY DEF Undisturbed
<1>3. ASSUME NEW q \in Process PROVE AloneOK(q, opener[q], dir)'
  <2>1. CASE q = p BY <2>1 DEF AloneOK
  <2>2. CASE q # p BY <2>2 DEF Undisturbed
  <2> QED BY <2>1, <2>2
<1>4. RefusedOK'
  BY DEF RefusedOK, RefusalHasCause
<1> QED BY <1>1, <1>2, <1>3, <1>4 DEF Undisturbed

(* What stands where the step began.                                       *)
LEMMA Facts ==
  ASSUME CheckoutInv, NEW p \in Process
  PROVE  /\ opener[p] \in Opener /\ dir \in Directory /\ DecidedOK(opener[p])
         /\ stirred \in BOOLEAN
         /\ ~stirred => CloneWhole(dir) /\ AloneOK(p, opener[p], dir)
BY DEF CheckoutInv, CheckoutTypeOK, Undisturbed

(* What has to be looked at, of each step that moves one process.          *)
LEMMA StepKept ==
  ASSUME CheckoutInv, NEW p \in Process, NEW pc, NEW try, NEW source, NEW why,
         Moves(p, pc, try, source, why), DecidedOK(opener'[p]),
         dir' \in Directory, stirred' \in BOOLEAN, stirred => stirred',
         pc = "opened" => SourceIsAsked(p)',
         ASSUME ~stirred', Undisturbed, RefusedOK
         PROVE  /\ dir' # dir => opener[p].pc \in Inside
                /\ dir.git = "full" => dir'.git = "full"
                /\ pc \in Inside => opener[p].pc \in Inside \/ InRemote = {p}
                /\ dir'.git = "making" =>
                     pc = "fetch" \/ (dir' = dir /\ opener[p].pc # "fetch")
                /\ CloneWhole(dir') /\ AloneOK(p, opener'[p], dir')
                /\ pc = "refused" => RefusalHasCause(p)'
  PROVE  CheckoutInv'
<1>1. CheckoutTypeOK' BY TypeKept DEF CheckoutInv
<1>2. ASSUME ~stirred' PROVE Undisturbed' /\ RefusedOK'
  <2>1. Undisturbed /\ RefusedOK BY <1>2, Facts DEF CheckoutInv
  <2> QED BY <1>2, <2>1, CalmKept
<1>3. OpenedOK' BY OpenedKept DEF CheckoutInv, Moves
<1> QED BY <1>1, <1>2, <1>3 DEF CheckoutInv

LEMMA Open_Inv ==
  ASSUME CheckoutInv, NEW p \in Process, Open(p)
  PROVE  CheckoutInv'
<1>1. PICK t \in Targets, at \in Revisions :
        opener' = [opener EXCEPT ![p] = [Waiting EXCEPT !.target = t, !.at = at,
                    !.pc = IF t = "remote" THEN "stat" ELSE "local"]]
  BY DEF Open
<1> DEFINE o == [Waiting EXCEPT !.target = t, !.at = at,
                   !.pc = IF t = "remote" THEN "stat" ELSE "local"]
<1>2. dir' = dir /\ stirred' = stirred /\ opener[p].pc = "waiting" BY DEF Open
<1>3. o \in Opener BY WaitingOK DEF Opener, OpenPcs
<1>4. o.target = t /\ o.pc = (IF t = "remote" THEN "stat" ELSE "local") /\ o.try = "full"
  BY WaitingOK DEF Opener
<1>5. opener' = [opener EXCEPT ![p] = o] BY <1>1
<1> HIDE DEF o
<1>6. DecidedOK(o) BY <1>4 DEF DecidedOK, Inside
<1>7. opener' \in [Process -> Opener] /\ opener'[p] = o
      /\ \A q \in Process \ {p} : opener'[q] = opener[q]
  BY <1>3, <1>5 DEF CheckoutInv, CheckoutTypeOK
<1>8. CheckoutTypeOK' BY <1>2, <1>6, <1>7 DEF CheckoutInv, CheckoutTypeOK
<1>9. ASSUME ~stirred PROVE Undisturbed' /\ RefusedOK'
  BY <1>2, <1>4, <1>7, <1>9, OnlyOutside DEF CheckoutInv, Inside
<1>10. OpenedOK' BY <1>2, <1>4, <1>7, OpenedKept DEF CheckoutInv
<1> QED BY <1>2, <1>8, <1>9, <1>10 DEF CheckoutInv

LEMMA OpenLocal_Inv ==
  ASSUME CheckoutInv, NEW p \in Process, OpenLocal(p)
  PROVE  CheckoutInv'
<1>1. dir' = dir /\ stirred' = stirred /\ opener[p].pc = "local" BY DEF OpenLocal
<1>2. opener[p].target # "remote" /\ opener[p].at \in Revisions
  BY <1>1, Facts DEF DecidedOK, Opener
<1>3. CASE opener[p].target = "checkout" /\ opener[p].at \in {"unknown", "date"}
  <2>1. Moves(p, "refused", opener[p].try, opener[p].source, "no such revision")
    BY <1>3, MovesByHelper DEF OpenLocal, Causes, CheckoutInv
  <2>2. opener'[p].pc = "refused" /\ opener'[p].at \in {"unknown", "date"}
    BY <1>3, <2>1 DEF Moves
  <2>3. DecidedOK(opener'[p]) /\ AloneOK(p, opener'[p], dir') /\ RefusalHasCause(p)'
    BY <2>2 DEF DecidedOK, AloneOK, Inside, RefusalHasCause
  <2>4. CheckoutTypeOK' BY <1>1, <2>1, <2>3, TypeKept, Facts DEF CheckoutInv
  <2>5. ASSUME ~stirred PROVE Undisturbed' /\ RefusedOK'
    <3>1. Undisturbed /\ RefusedOK /\ CloneWhole(dir') BY <1>1, <2>5, Facts DEF CheckoutInv
    <3>2. "refused" \notin Inside /\ "refused" # "opened" /\ "local" # "fetch" BY DEF Inside
    <3> QED BY <1>1, <2>1, <2>3, <3>1, <3>2, CalmKept
  <2>6. OpenedOK' BY <1>1, <2>1, OpenedKept DEF CheckoutInv, Moves
  <2> QED BY <1>1, <2>4, <2>5, <2>6 DEF CheckoutInv
<1>4. CASE ~(opener[p].target = "checkout" /\ opener[p].at \in {"unknown", "date"})
  <2>1. PICK reads \in WhatIsRead :
          /\ Opened(p, "path", reads)
          /\ reads = IF opener[p].target = "checkout" /\ opener[p].at # "none"
                     THEN opener[p].at ELSE "worktree"
    BY <1>2, <1>4 DEF OpenLocal, WhatIsRead, Revisions
  <2>2. Moves(p, "opened", opener[p].try, [of |-> "path", reads |-> reads], opener[p].why)
    BY <2>1, MovesByHelper DEF CheckoutInv
  <2>3. /\ opener'[p].pc = "opened" /\ opener'[p].target = opener[p].target
        /\ opener'[p].at = opener[p].at
        /\ opener'[p].source.of = "path" /\ opener'[p].source.reads = reads
    BY <2>2 DEF Moves
  <2>4. DecidedOK(opener'[p]) /\ AloneOK(p, opener'[p], dir') /\ SourceIsAsked(p)'
    BY <1>2, <2>1, <2>3 DEF DecidedOK, AloneOK, Inside, SourceIsAsked
  <2>5. CheckoutTypeOK' BY <1>1, <2>2, <2>4, TypeKept, Facts DEF CheckoutInv
  <2>6. ASSUME ~stirred PROVE Undisturbed' /\ RefusedOK'
    <3>1. Undisturbed /\ RefusedOK /\ CloneWhole(dir') BY <1>1, <2>6, Facts DEF CheckoutInv
    <3> QED BY <1>1, <2>2, <2>4, <3>1, CalmKept DEF Inside
  <2>7. OpenedOK' BY <1>1, <2>2, <2>4, OpenedKept DEF CheckoutInv, Moves
  <2> QED BY <1>1, <2>5, <2>6, <2>7 DEF CheckoutInv
<1> QED BY <1>3, <1>4

LEMMA Stat_Inv ==
  ASSUME CheckoutInv, NEW p \in Process, Stat(p)
  PROVE  CheckoutInv'
<1>1. /\ opener[p].pc = "stat" /\ dir' = dir
      /\ stirred' = (stirred \/ InRemote # {p})
  BY DEF Stat
<1>2. dir \in Directory /\ opener[p] \in Opener /\ opener[p].target = "remote"
      /\ stirred \in BOOLEAN /\ dir' \in Directory /\ stirred' \in BOOLEAN
  BY <1>1, Facts DEF DecidedOK
<1>3. CASE dir.git = "none"
  <2> DEFINE kind == FirstTry(p)
  <2>1. kind \in {"branch", "full"} /\ (kind = "branch" => LooksLikeRefName(opener[p].at))
    BY DEF FirstTry
  <2>2. Clone(p, kind) BY <1>3 DEF Stat
  <2> HIDE DEF kind
  <2>3. Moves(p, "clone", kind, opener[p].source, opener[p].why)
    BY <2>1, <2>2, MovesByHelper DEF CheckoutInv, Tries
  <2>4. DecidedOK(opener'[p])
    BY <1>2, <2>1, <2>3 DEF Moves, DecidedOK
  <2>5. AloneOK(p, opener'[p], dir')
    BY <1>1, <1>3, <2>3 DEF Moves, AloneOK
  <2>6. ASSUME ~stirred', Undisturbed
        PROVE  InRemote = {p} /\ CloneWhole(dir') /\ dir'.git = "none"
    BY <1>1, <1>2, <1>3, <2>6 DEF Undisturbed
  <2>7. "clone" \notin {"opened", "refused"} /\ (stirred => stirred') BY <1>1
  <2> QED BY <1>1, <1>2, <1>3, <2>3, <2>4, <2>5, <2>6, <2>7, StepKept
<1>4. CASE dir.git # "none"
  <2>1. PICK reuse \in Reuse(p) :
          IF reuse THEN opener' = [opener EXCEPT ![p].pc = "read", ![p].try = "cached"]
          ELSE Goto(p, "remove")
    BY <1>4 DEF Stat
  <2>2. dir.git \in {"shallow", "full"} =>
          IF reuse THEN opener[p].at # "none" => dir.git = "full" ELSE dir.git = "shallow"
    BY <1>2 DEF Reuse, NeedHistory
  <2>3. ASSUME ~stirred', Undisturbed
        PROVE  InRemote = {p} /\ dir.git \in {"shallow", "full"} /\ CloneWhole(dir')
    BY <1>1, <1>2, <1>4, <2>3 DEF Undisturbed, Directory, InRemote
  <2>4. CASE reuse
    <3>1. opener' = [opener EXCEPT ![p].pc = "read", ![p].try = "cached"] BY <2>1, <2>4
    <3>2. Moves(p, "read", "cached", opener[p].source, opener[p].why)
      BY <1>2, <3>1 DEF CheckoutInv, CheckoutTypeOK, Moves, Opener, OpenPcs, Tries
    <3>3. DecidedOK(opener'[p]) BY <1>2, <3>2 DEF Moves, DecidedOK
    <3>4. ASSUME ~stirred', Undisturbed PROVE AloneOK(p, opener'[p], dir')
      BY <1>1, <2>2, <2>3, <2>4, <3>2, <3>4 DEF Moves, AloneOK
    <3>5. "read" \notin {"opened", "refused", "fetch"} /\ (stirred => stirred') BY <1>1
    <3> QED BY <1>1, <1>2, <2>3, <3>2, <3>3, <3>4, <3>5, StepKept
  <2>5. CASE ~reuse
    <3>1. Moves(p, "remove", opener[p].try, opener[p].source, opener[p].why)
      BY <2>1, <2>5, MovesByHelper DEF CheckoutInv, OpenPcs
    <3>2. DecidedOK(opener'[p]) BY <1>2, <3>1 DEF Moves, DecidedOK
    <3>3. ASSUME ~stirred', Undisturbed PROVE AloneOK(p, opener'[p], dir')
      BY <1>1, <2>2, <2>3, <2>5, <3>1, <3>3 DEF Moves, AloneOK
    <3>4. "remove" \notin {"opened", "refused", "fetch"} /\ (stirred => stirred') BY <1>1
    <3> QED BY <1>1, <1>2, <2>3, <3>1, <3>2, <3>3, <3>4, StepKept
  <2> QED BY <2>4, <2>5
<1> QED BY <1>3, <1>4

(* The directory is cleared and a clone is tried, from inside.             *)
LEMMA ClearAndClone ==
  ASSUME CheckoutInv, NEW p \in Process, NEW kind \in {"full", "branch", "tag"},
         opener[p].pc \in Inside, kind # "full" => LooksLikeRefName(opener[p].at),
         ~stirred' => dir.git # "full",
         Clone(p, kind), dir' = NoDir, stirred' = stirred
  PROVE  CheckoutInv'
<1>1. opener[p].target = "remote" /\ stirred' \in BOOLEAN BY Facts DEF DecidedOK
<1>2. Moves(p, "clone", kind, opener[p].source, opener[p].why)
  BY MovesByHelper DEF CheckoutInv, Tries
<1>3. DecidedOK(opener'[p]) BY <1>1, <1>2 DEF Moves, DecidedOK
<1>4. dir' \in Directory /\ dir'.git = "none" BY DEF NoDir, Directory
<1>5. AloneOK(p, opener'[p], dir') /\ CloneWhole(dir')
  BY <1>2, <1>4 DEF Moves, AloneOK, CloneWhole
<1>6. "clone" \notin {"opened", "refused"} /\ (stirred => stirred') OBVIOUS
<1> QED BY <1>1, <1>2, <1>3, <1>4, <1>5, <1>6, StepKept

LEMMA RemoveAll_Inv ==
  ASSUME CheckoutInv, NEW p \in Process, RemoveAll(p)
  PROVE  CheckoutInv'
<1>1. /\ opener[p].pc = "remove" /\ dir' = NoDir /\ stirred' = stirred
      /\ Clone(p, FirstTry(p))
  BY DEF RemoveAll
<1>2. FirstTry(p) \in {"branch", "full"}
      /\ (FirstTry(p) = "branch" => LooksLikeRefName(opener[p].at))
  BY DEF FirstTry
<1>3. ~stirred' => dir.git # "full" BY <1>1 DEF CheckoutInv, Undisturbed, AloneOK
<1> QED BY <1>1, <1>2, <1>3, ClearAndClone DEF Inside

LEMMA AfterFailure_Inv ==
  ASSUME CheckoutInv, NEW p \in Process, opener[p].pc \in {"clone", "fetch"},
         AfterFailure(p), dir' \in {dir, NoDir}, stirred' \in BOOLEAN, stirred => stirred',
         ~stirred' => dir' = NoDir /\ stirred' = stirred
  PROVE  CheckoutInv'
<1>1. /\ opener[p] \in Opener /\ dir \in Directory /\ DecidedOK(opener[p]) BY Facts
<1>2. NoDir \in Directory /\ NoDir.git = "none" BY DEF NoDir, Directory
<1>3. ASSUME ~stirred', Undisturbed PROVE dir.git # "full"
  BY <1>3 DEF Undisturbed, AloneOK
<1>4. CASE opener[p].try \in {"branch", "tag"}
  <2>1. PICK kind \in {"tag", "full"} : Clone(p, kind) BY <1>4 DEF AfterFailure
  <2>2. Moves(p, "clone", kind, opener[p].source, opener[p].why)
    BY <2>1, MovesByHelper DEF CheckoutInv, Tries
  <2>3. DecidedOK(opener'[p]) BY <1>1, <1>4, <2>2 DEF Moves, DecidedOK, Inside
  <2>4. ASSUME ~stirred' PROVE AloneOK(p, opener'[p], dir') /\ CloneWhole(dir') /\ dir'.git = "none"
    BY <1>2, <2>2, <2>4 DEF Moves, AloneOK, CloneWhole
  <2>5. "clone" \notin {"opened", "refused"} /\ "clone" \in Inside /\ "fetch" \in Inside BY DEF Inside
  <2> QED BY <1>1, <1>2, <1>3, <2>2, <2>3, <2>4, <2>5, StepKept
<1>5. CASE opener[p].try \notin {"branch", "tag"}
  <2>1. Moves(p, "refused", opener[p].try, opener[p].source, "clone")
    BY <1>5, MovesByHelper DEF CheckoutInv, Causes, AfterFailure
  <2>2. DecidedOK(opener'[p]) /\ RefusalHasCause(p)'
    BY <2>1 DEF Moves, DecidedOK, Inside, RefusalHasCause
  <2>3. ASSUME ~stirred' PROVE AloneOK(p, opener'[p], dir') /\ CloneWhole(dir') /\ dir'.git = "none"
    BY <1>2, <2>1, <2>3 DEF Moves, AloneOK, CloneWhole
  <2>4. "refused" # "opened" /\ "refused" \notin Inside /\ "clone" \in Inside /\ "fetch" \in Inside
    BY DEF Inside
  <2> QED BY <1>1, <1>2, <1>3, <2>1, <2>2, <2>3, <2>4, StepKept
<1> QED BY <1>4, <1>5

LEMMA BeginClone_Inv ==
  ASSUME CheckoutInv, NEW p \in Process, BeginClone(p)
  PROVE  CheckoutInv'
<1>1. opener[p].pc = "clone" /\ stirred' = (stirred \/ dir.git # "none") BY DEF BeginClone
<1>2. opener[p].target = "remote" /\ stirred \in BOOLEAN /\ stirred' \in BOOLEAN
      /\ DecidedOK(opener[p])
  BY <1>1, Facts DEF DecidedOK, Inside
<1>3. CASE dir.git = "none"
  <2>1. Moves(p, "fetch", opener[p].try, opener[p].source, opener[p].why)
    BY <1>3, MovesByHelper DEF BeginClone, CheckoutInv, OpenPcs
  <2>2. dir' = [git |-> "making", head |-> "nothing", by |-> p] BY <1>3 DEF BeginClone
  <2>3. dir' \in Directory /\ CloneWhole(dir') BY <2>2 DEF Directory, CloneWhole
  <2>4. DecidedOK(opener'[p]) /\ AloneOK(p, opener'[p], dir')
    BY <1>1, <1>2, <2>1, <2>2 DEF Moves, DecidedOK, AloneOK, Inside
  <2>5. "fetch" \notin {"opened", "refused"} /\ "clone" \in Inside /\ (stirred => stirred')
    BY <1>1 DEF Inside
  <2> QED BY <1>1, <1>2, <1>3, <2>1, <2>3, <2>4, <2>5, StepKept
<1>4. CASE dir.git # "none"
  <2>1. AfterFailure(p) /\ (opener[p].try = "full" => dir' = dir) BY <1>4 DEF BeginClone
  <2>2. dir' \in {dir, NoDir}
    BY <1>1, <1>2, <2>1 DEF AfterFailure, DecidedOK, CheckoutInv, CheckoutTypeOK, Opener, Tries
  <2>3. stirred' BY <1>1, <1>4
  <2> QED BY <1>1, <1>2, <2>1, <2>2, <2>3, AfterFailure_Inv
<1> QED BY <1>3, <1>4

LEMMA CloneFails_Inv ==
  ASSUME CheckoutInv, NEW p \in Process, CloneFails(p)
  PROVE  CheckoutInv'
BY AfterFailure_Inv, Facts DEF CloneFails

LEMMA CloneDone_Inv ==
  ASSUME CheckoutInv, NEW p \in Process, CloneDone(p)
  PROVE  CheckoutInv'
<1> DEFINE try == opener[p].try
<1>1. /\ opener[p].pc = "fetch" /\ stirred' = stirred
      /\ try # "full" => opener[p].at = try
      /\ dir' = [git  |-> IF try = "full" /\ NeedHistory(p) THEN "full" ELSE "shallow",
                 head |-> IF try = "full" THEN "tip" ELSE try, by |-> "nobody"]
      /\ Goto(p, "read")
  BY DEF CloneDone
<1>2. opener[p].target = "remote" /\ stirred' \in BOOLEAN /\ try \in {"full", "branch", "tag"}
  BY <1>1, Facts DEF DecidedOK, Inside, Opener, Tries
<1>3. Moves(p, "read", try, opener[p].source, opener[p].why)
  BY <1>1, MovesByHelper DEF CheckoutInv, OpenPcs
<1>4. dir' \in Directory /\ CloneWhole(dir') /\ dir'.git # "making"
  BY <1>1, <1>2 DEF Directory, CloneWhole
<1>5. DecidedOK(opener'[p]) /\ AloneOK(p, opener'[p], dir')
  BY <1>1, <1>2, <1>3 DEF Moves, DecidedOK, AloneOK, NeedHistory
<1>6. ASSUME ~stirred', Undisturbed PROVE dir.git # "full"
  BY <1>1, <1>6 DEF Undisturbed, AloneOK
<1>7. "read" \notin {"opened", "refused"} /\ "fetch" \in Inside /\ (stirred => stirred')
  BY <1>1 DEF Inside
<1> QED BY <1>1, <1>2, <1>3, <1>4, <1>5, <1>6, <1>7, StepKept

LEMMA ReadClone_Inv ==
  ASSUME CheckoutInv, NEW p \in Process, ReadClone(p)
  PROVE  CheckoutInv'
<1> DEFINE at == opener[p].at
<1>1. opener[p].pc = "read" /\ stirred' = stirred BY DEF ReadClone
<1>2. /\ opener[p] \in Opener /\ opener[p].target = "remote" /\ stirred' \in BOOLEAN
      /\ dir \in Directory /\ DecidedOK(opener[p])
  BY <1>1, Facts DEF DecidedOK, Inside
<1>3. ASSUME ~stirred', Undisturbed PROVE AloneOK(p, opener[p], dir) /\ CloneWhole(dir)
  BY <1>3 DEF Undisturbed
<1>4. ASSUME NEW reads \in Readings(dir, at), Opened(p, "url", reads), dir' = dir
      PROVE  CheckoutInv'
  <2>1. reads \in WhatIsRead
    BY <1>2, <1>4 DEF Readings, Resolves, Directory, WhatIsRead
  <2>2. Moves(p, "opened", opener[p].try, [of |-> "url", reads |-> reads], opener[p].why)
    BY <1>4, <2>1, MovesByHelper DEF CheckoutInv
  <2>3. DecidedOK(opener'[p]) BY <2>2 DEF Moves, DecidedOK, Inside
  <2>4. /\ opener'[p].source.of = "url" /\ opener'[p].source.reads = reads
        /\ opener'[p].pc = "opened" /\ opener'[p].target = "remote" /\ opener'[p].at = at
        /\ opener'[p].try = opener[p].try
    BY <1>2, <2>2 DEF Moves
  <2>5. SourceIsAsked(p)'
    <3>1. CASE stirred /\ at = "none" BY <1>1, <2>4, <3>1 DEF SourceIsAsked
    <3>2. CASE stirred /\ at # "none"
      <4>1. reads \in {at, "part", "nothing"} BY <1>2, <1>4, <3>2 DEF Readings, Directory
      <4> QED BY <1>1, <2>4, <3>2, <4>1 DEF SourceIsAsked
    <3>3. CASE ~stirred
      <4>1. dir.git \in {"shallow", "full"} /\ AloneOK(p, opener[p], dir) /\ CloneWhole(dir)
        BY <1>1, <1>2, <3>3, Facts DEF AloneOK, Opener, Tries
      <4>2. CASE at # "none"
        <5>1. reads = at BY <1>4, <4>1, <4>2 DEF Readings
        <5> QED BY <2>4, <4>2, <5>1 DEF SourceIsAsked
      <4>3. CASE at = "none"
        <5>1. reads = dir.head BY <1>4, <4>1, <4>3 DEF Readings
        <5>2. dir.head \in {"tip", "branch", "tag"} BY <1>2, <4>1 DEF CloneWhole, Directory
        <5>3. opener[p].try \in {"full", "cached"} BY <1>1, <1>2, <4>3 DEF DecidedOK, Opener, Tries
        <5>4. opener[p].try = "full" => dir.head = "tip" BY <1>1, <4>1 DEF AloneOK
        <5> QED BY <2>4, <4>3, <5>1, <5>2, <5>3, <5>4 DEF SourceIsAsked
      <4> QED BY <4>2, <4>3
    <3> QED BY <3>1, <3>2, <3>3
  <2>6. AloneOK(p, opener'[p], dir') BY <2>4 DEF AloneOK
  <2>7. "opened" # "refused" /\ "opened" \notin Inside /\ "read" # "fetch"
        /\ (stirred => stirred')
    BY <1>1 DEF Inside
  <2> HIDE DEF at
  <2> QED BY <1>1, <1>2, <1>3, <1>4, <2>2, <2>3, <2>5, <2>6, <2>7, StepKept
<1>5. ASSUME MayRefuse(dir, at), opener[p].try \in {"branch", "tag"},
             dir' = NoDir, Clone(p, "full")
      PROVE  CheckoutInv'
  <2>1. ~stirred' => dir.git # "full"
    BY <1>1, <1>5 DEF CheckoutInv, Undisturbed, AloneOK
  <2> QED BY <1>1, <1>5, <2>1, ClearAndClone DEF Inside
<1>6. ASSUME MayRefuse(dir, at), opener[p].try \notin {"branch", "tag"},
             dir' = dir, Refuse(p, "no such revision")
      PROVE  CheckoutInv'
  <2>1. Moves(p, "refused", opener[p].try, opener[p].source, "no such revision")
    BY <1>6, MovesByHelper DEF CheckoutInv, Causes
  <2>2. DecidedOK(opener'[p]) /\ AloneOK(p, opener'[p], dir')
    BY <2>1 DEF Moves, DecidedOK, AloneOK, Inside
  <2>3. ASSUME ~stirred', Undisturbed PROVE RefusalHasCause(p)'
    <3>1. at # "none" BY <1>6 DEF MayRefuse
    <3>2. opener[p].try \in {"full", "cached"} BY <1>2, <1>6 DEF Opener, Tries
    <3>3. dir.git = "full" BY <1>1, <1>3, <2>3, <3>1, <3>2 DEF AloneOK
    <3>4. at \in {"branch", "unknown", "date"}
      BY <1>2, <1>6, <3>1, <3>3 DEF MayRefuse, Resolves, Opener, Revisions
    <3> QED BY <1>6, <2>1, <3>2, <3>3, <3>4 DEF Moves, RefusalHasCause
  <2>4. "refused" # "opened" /\ "refused" \notin Inside /\ "read" # "fetch"
        /\ (stirred => stirred')
    BY <1>1 DEF Inside
  <2> QED BY <1>1, <1>2, <1>3, <1>6, <2>1, <2>2, <2>3, <2>4, StepKept
<1> QED BY <1>4, <1>5, <1>6 DEF ReadClone, Identity

-----------------------------------------------------------------------------
(* The statements of a migration.                                          *)
Statement == [adds : SUBSET Whole, unless : BOOLEAN]
(* What a list of statements adds, and that none of them fails on a schema *)
(* that has cols: each adds something new, or says IF NOT EXISTS.          *)
Adds(s) == UNION {s[i].adds : i \in DOMAIN s}
Fits(s, cols) ==
  \A j \in DOMAIN s : ~s[j].unless =>
    s[j].adds \cap cols = {} /\ \A i \in 1 .. j - 1 : s[j].adds \cap s[i].adds = {}

(* The parts a statement list is put together of.                          *)
LEMMA WholeIs ==
  Whole = {"runs", "project_num", "registry", "version_rollup", "pinning", "declared_spec",
           "packument_obs", "full", "supply"}
BY DEF Whole, schemaSQL, Creates

LEMMA Joined ==
  ASSUME NEW s \in Seq(Statement), NEW t \in Seq(Statement)
  PROVE  /\ s \o t \in Seq(Statement) /\ Adds(s \o t) = Adds(s) \cup Adds(t)
         /\ \A cols : Fits(s, cols) /\ Fits(t, cols \cup Adds(s)) => Fits(s \o t, cols)
<1> DEFINE u == s \o t
<1>1. u \in Seq(Statement) /\ Len(u) = Len(s) + Len(t) OBVIOUS
<1>2. \A i \in 1 .. Len(s) : u[i] = s[i] OBVIOUS
<1>3. \A i \in 1 .. Len(t) : u[i + Len(s)] = t[i] OBVIOUS
<1>4. \A i \in 1 .. Len(u) : i \in 1 .. Len(s) \/ (i > Len(s) /\ i - Len(s) \in 1 .. Len(t) /\ u[i] = t[i - Len(s)])
  BY <1>1, <1>3
<1>5. DOMAIN u = 1 .. Len(u) /\ DOMAIN s = 1 .. Len(s) /\ DOMAIN t = 1 .. Len(t) BY <1>1
<1>6. Len(s) \in Nat /\ Len(t) \in Nat OBVIOUS
<1> HIDE DEF u
<1>7. Adds(u) = Adds(s) \cup Adds(t)
  <2>1. Adds(u) \subseteq Adds(s) \cup Adds(t) BY <1>2, <1>4, <1>5 DEF Adds
  <2>2. Adds(s) \subseteq Adds(u) BY <1>1, <1>2, <1>5, <1>6 DEF Adds
  <2>3. Adds(t) \subseteq Adds(u)
    <3>1. \A i \in 1 .. Len(t) : i + Len(s) \in 1 .. Len(u) BY <1>1, <1>6
    <3> QED BY <1>3, <1>5, <3>1 DEF Adds
  <2> QED BY <2>1, <2>2, <2>3
<1>8. ASSUME NEW cols, Fits(s, cols), Fits(t, cols \cup Adds(s)) PROVE Fits(u, cols)
  <2> SUFFICES ASSUME NEW j \in 1 .. Len(u), ~u[j].unless
               PROVE  u[j].adds \cap cols = {} /\ \A i \in 1 .. j - 1 : u[j].adds \cap u[i].adds = {}
    BY <1>5 DEF Fits
  <2>1. CASE j \in 1 .. Len(s)
    <3>1. \A i \in 1 .. j - 1 : i \in 1 .. Len(s) BY <1>6, <2>1
    <3> QED BY <1>2, <1>5, <1>8, <2>1, <3>1 DEF Fits
  <2>2. CASE j \notin 1 .. Len(s)
    <3>1. j > Len(s) /\ j - Len(s) \in 1 .. Len(t) /\ u[j] = t[j - Len(s)] BY <1>4, <2>2
    <3>2. u[j].adds \cap (cols \cup Adds(s)) = {} BY <1>5, <1>8, <3>1 DEF Fits
    <3>3. ASSUME NEW i \in 1 .. j - 1 PROVE u[j].adds \cap u[i].adds = {}
      <4>1. i \in 1 .. Len(u) BY <1>1, <1>6
      <4>2. CASE i \in 1 .. Len(s)
        <5>1. u[i].adds \subseteq Adds(s) BY <1>2, <1>5, <4>2 DEF Adds
        <5> QED BY <3>2, <5>1
      <4>3. CASE i > Len(s) /\ i - Len(s) \in 1 .. Len(t) /\ u[i] = t[i - Len(s)]
        <5>1. i - Len(s) \in 1 .. (j - Len(s)) - 1 BY <1>6, <3>1, <4>3
        <5>2. ~t[j - Len(s)].unless /\ j - Len(s) \in DOMAIN t BY <1>5, <3>1
        <5> QED BY <1>8, <3>1, <4>3, <5>1, <5>2 DEF Fits
      <4> QED BY <1>4, <4>1, <4>2, <4>3
    <3> QED BY <3>2, <3>3
  <2> QED BY <2>1, <2>2
<1> QED BY <1>1, <1>7, <1>8 DEF u

LEMMA StatementParts ==
  /\ \A parts \in SUBSET Whole : Creates(parts) \in Statement /\ CreatesIfNone(parts) \in Statement
  /\ \A parts \in SUBSET Whole : Creates(parts).adds = parts /\ CreatesIfNone(parts).adds = parts
       /\ ~Creates(parts).unless /\ CreatesIfNone(parts).unless
BY DEF Creates, CreatesIfNone, Statement

LEMMA OneStatement ==
  ASSUME NEW a \in Statement
  PROVE <<a>> \in Seq(Statement) /\ Adds(<<a>>) = a.adds
        /\ \A cols : (a.unless \/ a.adds \cap cols = {}) => Fits(<<a>>, cols)
<1>1. DOMAIN <<a>> = {1} /\ <<a>>[1] = a OBVIOUS
<1>2. \A i \in 1 .. 1 - 1 : FALSE OBVIOUS
<1> QED BY <1>1, <1>2 DEF Adds, Fits
LEMMA NoStatement ==
  <<>> \in Seq(Statement) /\ Adds(<<>>) = {} /\ \A cols : Fits(<<>>, cols)
BY DEF Adds, Fits
LEMMA TwoStatements ==
  ASSUME NEW a \in Statement, NEW b \in Statement
  PROVE <<a, b>> \in Seq(Statement) /\ Adds(<<a, b>>) = a.adds \cup b.adds
        /\ \A cols : (a.unless \/ a.adds \cap cols = {}) /\ (b.unless \/ b.adds \cap (cols \cup a.adds) = {}) => Fits(<<a, b>>, cols)
<1>1. DOMAIN <<a, b>> = {1, 2} /\ <<a, b>>[1] = a /\ <<a, b>>[2] = b OBVIOUS
<1>2. (\A i \in 1 .. 1 - 1 : FALSE) /\ (\A i \in 1 .. 2 - 1 : i = 1) OBVIOUS
<1> HIDE DEF Adds
<1>3. Adds(<<a, b>>) = a.adds \cup b.adds BY <1>1 DEF Adds
<1>4. <<a, b>> \in Seq(Statement) OBVIOUS
<1> QED BY <1>1, <1>2, <1>3, <1>4 DEF Fits
LEMMA WholeSchema ==
   /\ schemaSQL \in Seq(Statement) /\ Adds(schemaSQL) = Whole /\ Fits(schemaSQL, {})
<1>1. Adds(schemaSQL) = Whole BY DEF Adds, Whole
<1>2. schemaSQL \in Seq(Statement)
  <2>1. \A i \in DOMAIN schemaSQL : schemaSQL[i] \in Statement BY WholeIs, StatementParts DEF schemaSQL
  <2>2. schemaSQL \in Seq({Creates({"runs", "project_num"}), Creates({"registry"}),
               Creates({"version_rollup", "pinning", "declared_spec"}),
               Creates({"packument_obs", "full"}), Creates({"supply"})}) BY DEF schemaSQL
  <2> QED BY <2>1, <2>2
<1>3. Fits(schemaSQL, {})
  <2>1. DOMAIN schemaSQL = 1 .. 5 BY DEF schemaSQL
  <2>2. schemaSQL[1].adds = {"runs", "project_num"} /\ schemaSQL[2].adds = {"registry"}
        /\ schemaSQL[3].adds = {"version_rollup", "pinning", "declared_spec"}
        /\ schemaSQL[4].adds = {"packument_obs", "full"} /\ schemaSQL[5].adds = {"supply"}
     BY DEF schemaSQL, Creates
  <2>3. \A j \in 1 .. 5 : \A i \in 1 .. j - 1 : schemaSQL[j].adds \cap schemaSQL[i].adds = {}
     <3> SUFFICES ASSUME NEW j \in 1 .. 5, NEW i \in 1 .. j - 1 PROVE schemaSQL[j].adds \cap schemaSQL[i].adds = {} OBVIOUS
     <3>1. j \in {1, 2, 3, 4, 5} /\ i \in {1, 2, 3, 4} /\ i < j OBVIOUS
     <3> QED BY <2>2, <3>1
  <2> QED BY <2>1, <2>3 DEF Fits
<1> QED BY <1>1, <1>2, <1>3

(* A file of any older version is missing just what its statements add.    *)
LEMMA StatementsOK ==
  ASSUME NEW v \in 0 .. 4
  PROVE  /\ Statements(v) \in Seq(Statement)
         /\ Columns(v) \cup Adds(Statements(v)) = Whole
         /\ Fits(Statements(v), Columns(v))
<1> DEFINE a == IF v = 0 THEN schemaSQL ELSE <<>>
           b == IF v = 1 THEN <<Creates({"full"})>> ELSE <<>>
           c == IF v \in 1 .. 2 THEN <<Creates({"pinning"}), Creates({"declared_spec"})>> ELSE <<>>
           d == IF v \in 1 .. 3 THEN <<CreatesIfNone({"supply"})>> ELSE <<>>
           e == IF v \in 1 .. 4 THEN migrateProjects ELSE <<>>
           had == Columns(v)
<1>1. /\ v = 0 => had = {}
      /\ v = 4 => had = Whole \ {"registry", "project_num"}
      /\ v = 1 => had = Whole \ {"full", "pinning", "declared_spec", "supply", "registry", "project_num"}
      /\ v = 2 => had = Whole \ {"pinning", "declared_spec", "supply", "registry", "project_num"}
      /\ v = 3 => had = Whole \ {"supply", "registry", "project_num"}
  BY DEF Columns
<1>2. a \in Seq(Statement) /\ Adds(a) = (IF v = 0 THEN Whole ELSE {}) /\ Fits(a, had)
  <2>1. CASE v = 0 BY <1>1, <2>1, WholeSchema
  <2>2. CASE v # 0 BY <2>2, NoStatement
  <2> QED BY <2>1, <2>2
<1> HIDE DEF a, had
<1>3. b \in Seq(Statement) /\ Adds(b) = (IF v = 1 THEN {"full"} ELSE {})
      /\ Fits(b, had \cup Adds(a))
  <2>1. CASE v = 1
    <3>1. Creates({"full"}) \in Statement /\ Creates({"full"}).adds = {"full"}
      BY StatementParts, WholeIs
    <3>2. {"full"} \cap (had \cup Adds(a)) = {} BY <1>1, <1>2, <2>1
    <3> QED BY <2>1, <3>1, <3>2, OneStatement
  <2>2. CASE v # 1 BY <2>2, NoStatement
  <2> QED BY <2>1, <2>2
<1> HIDE DEF b
<1>4. c \in Seq(Statement) /\ Adds(c) = (IF v \in 1 .. 2 THEN {"pinning", "declared_spec"} ELSE {})
      /\ Fits(c, had \cup Adds(a) \cup Adds(b))
  <2>1. CASE v \in 1 .. 2
    <3>1. /\ Creates({"pinning"}) \in Statement /\ Creates({"pinning"}).adds = {"pinning"}
          /\ Creates({"declared_spec"}) \in Statement
          /\ Creates({"declared_spec"}).adds = {"declared_spec"}
      BY StatementParts, WholeIs
    <3>2. /\ {"pinning"} \cap (had \cup Adds(a) \cup Adds(b)) = {}
          /\ {"declared_spec"} \cap (had \cup Adds(a) \cup Adds(b) \cup {"pinning"}) = {}
      BY <1>1, <1>2, <1>3, <2>1
    <3>3. {"pinning", "declared_spec"} = {"pinning"} \cup {"declared_spec"} OBVIOUS
    <3>4. c = <<Creates({"pinning"}), Creates({"declared_spec"})>> BY <2>1
    <3>5. c \in Seq(Statement) /\ Adds(c) = {"pinning"} \cup {"declared_spec"}
          /\ Fits(c, had \cup Adds(a) \cup Adds(b))
      BY <3>1, <3>2, <3>4, TwoStatements
    <3> QED BY <2>1, <3>3, <3>5
  <2>2. CASE v \notin 1 .. 2 BY <2>2, NoStatement
  <2> QED BY <2>1, <2>2
<1> HIDE DEF c
<1>5. d \in Seq(Statement) /\ Adds(d) = (IF v \in 1 .. 3 THEN {"supply"} ELSE {})
      /\ Fits(d, had \cup Adds(a) \cup Adds(b) \cup Adds(c))
  <2>1. CASE v \in 1 .. 3
    <3>1. /\ CreatesIfNone({"supply"}) \in Statement
          /\ CreatesIfNone({"supply"}).adds = {"supply"} /\ CreatesIfNone({"supply"}).unless
      BY StatementParts, WholeIs
    <3> QED BY <2>1, <3>1, OneStatement
  <2>2. CASE v \notin 1 .. 3 BY <2>2, NoStatement
  <2> QED BY <2>1, <2>2
<1> HIDE DEF d
<1>6. e \in Seq(Statement) /\ Adds(e) = (IF v \in 1 .. 4 THEN {"registry", "project_num"} ELSE {})
      /\ Fits(e, had \cup Adds(a) \cup Adds(b) \cup Adds(c) \cup Adds(d))
  <2>1. CASE v \in 1 .. 4
    <3>1. /\ CreatesIfNone({"registry"}) \in Statement
          /\ CreatesIfNone({"registry"}).adds = {"registry"}
          /\ CreatesIfNone({"registry"}).unless
          /\ Creates({"project_num"}) \in Statement
          /\ Creates({"project_num"}).adds = {"project_num"}
      BY StatementParts, WholeIs
    <3>2. {"project_num"} \cap
            (had \cup Adds(a) \cup Adds(b) \cup Adds(c) \cup Adds(d) \cup {"registry"}) = {}
      BY <1>1, <1>2, <1>3, <1>4, <1>5, <2>1
    <3>3. {"registry", "project_num"} = {"registry"} \cup {"project_num"} OBVIOUS
    <3>4. e = <<CreatesIfNone({"registry"}), Creates({"project_num"})>>
      BY <2>1 DEF migrateProjects
    <3> DEFINE now == had \cup Adds(a) \cup Adds(b) \cup Adds(c) \cup Adds(d)
    <3> HIDE DEF e, now
    <3>5. e \in Seq(Statement) /\ Adds(e) = {"registry"} \cup {"project_num"} /\ Fits(e, now)
      <4>1. {"project_num"} \cap (now \cup {"registry"}) = {} BY <3>2 DEF now
      <4> QED BY <3>1, <3>4, <4>1, TwoStatements
    <3> USE DEF now
    <3> QED BY <2>1, <3>3, <3>5
  <2>2. CASE v \notin 1 .. 4 BY <2>2, NoStatement
  <2> QED BY <2>1, <2>2
<1>7. Statements(v) = a \o b \o c \o d \o e BY DEF Statements, a, b, c, d, e
<1> HIDE DEF e
<1>8. had \cup Adds(a) \cup Adds(b) \cup Adds(c) \cup Adds(d) \cup Adds(e) = Whole
  <2>1. v \in {0, 1, 2, 3, 4} OBVIOUS
  <2>2. \A x : x \in had => x \in Whole BY <1>1, <2>1
  <2> QED BY <1>1, <1>2, <1>3, <1>4, <1>5, <1>6, <2>1, <2>2, WholeIs
<1> DEFINE ab == a \o b
           abc == ab \o c
           abcd == abc \o d
           all == abcd \o e
<1>9. ab \in Seq(Statement) /\ Adds(ab) = Adds(a) \cup Adds(b) /\ Fits(ab, had)
  BY <1>2, <1>3, Joined
<1> HIDE DEF ab
<1>10. abc \in Seq(Statement) /\ Adds(abc) = Adds(ab) \cup Adds(c) /\ Fits(abc, had)
  <2>1. had \cup Adds(ab) = had \cup Adds(a) \cup Adds(b) BY <1>9
  <2> QED BY <1>4, <1>9, <2>1, Joined
<1> HIDE DEF abc
<1>11. abcd \in Seq(Statement) /\ Adds(abcd) = Adds(abc) \cup Adds(d) /\ Fits(abcd, had)
  <2>1. had \cup Adds(abc) = had \cup Adds(a) \cup Adds(b) \cup Adds(c) BY <1>9, <1>10
  <2> QED BY <1>5, <1>10, <2>1, Joined
<1> HIDE DEF abcd
<1>12. all \in Seq(Statement) /\ Adds(all) = Adds(abcd) \cup Adds(e) /\ Fits(all, had)
  <2>1. had \cup Adds(abcd) = had \cup Adds(a) \cup Adds(b) \cup Adds(c) \cup Adds(d)
    BY <1>9, <1>10, <1>11
  <2> QED BY <1>6, <1>11, <2>1, Joined
<1>13. had \cup Adds(all) = Whole
  BY <1>8, <1>9, <1>10, <1>11, <1>12
<1>14. Statements(v) = all BY <1>7 DEF ab, abc, abcd
<1> QED BY <1>12, <1>13, <1>14 DEF had

(* One statement is executed.                                              *)
LEMMA RestOfStatements ==
  ASSUME NEW s \in Seq(Statement), s # <<>>
  PROVE  /\ Head(s) \in Statement /\ Tail(s) \in Seq(Statement)
         /\ Adds(s) = Head(s).adds \cup Adds(Tail(s))
         /\ \A cols : Fits(s, cols) =>
              /\ Head(s).unless \/ Head(s).adds \cap cols = {}
              /\ Fits(Tail(s), cols \cup Head(s).adds)
<1>1. Len(s) \in Nat \ {0} /\ DOMAIN s = 1 .. Len(s) /\ Head(s) = s[1] /\ Tail(s) \in Seq(Statement)
      /\ DOMAIN Tail(s) = 1 .. Len(s) - 1
  OBVIOUS
<1>2. \A i \in 1 .. Len(s) - 1 : Tail(s)[i] = s[i + 1] OBVIOUS
<1>3. 1 \in DOMAIN s BY <1>1
<1>4. Adds(s) = Head(s).adds \cup Adds(Tail(s))
  <2>1. \A i \in 1 .. Len(s) : i = 1 \/ (i - 1 \in 1 .. Len(s) - 1 /\ s[i] = Tail(s)[i - 1])
    BY <1>1, <1>2
  <2>2. \A i \in 1 .. Len(s) - 1 : i + 1 \in 1 .. Len(s) BY <1>1
  <2>3. Adds(s) \subseteq Head(s).adds \cup Adds(Tail(s)) BY <1>1, <2>1 DEF Adds
  <2>4. Adds(Tail(s)) \subseteq Adds(s) BY <1>1, <1>2, <2>2 DEF Adds
  <2>5. Head(s).adds \subseteq Adds(s) BY <1>1, <1>3 DEF Adds
  <2> QED BY <2>3, <2>4, <2>5
<1>5. ASSUME NEW cols, Fits(s, cols)
      PROVE  /\ Head(s).unless \/ Head(s).adds \cap cols = {}
             /\ Fits(Tail(s), cols \cup Head(s).adds)
  <2>1. Head(s).unless \/ Head(s).adds \cap cols = {} BY <1>1, <1>3, <1>5 DEF Fits
  <2>2. ASSUME NEW j \in 1 .. Len(s) - 1, ~Tail(s)[j].unless
        PROVE  /\ Tail(s)[j].adds \cap (cols \cup Head(s).adds) = {}
               /\ \A i \in 1 .. j - 1 : Tail(s)[j].adds \cap Tail(s)[i].adds = {}
    <3>1. /\ j + 1 \in DOMAIN s /\ 1 \in 1 .. (j + 1) - 1
          /\ \A i \in 1 .. j - 1 : i + 1 \in 1 .. (j + 1) - 1 /\ i \in 1 .. Len(s) - 1
      BY <1>1
    <3>2. Tail(s)[j] = s[j + 1] BY <1>2
    <3> QED BY <1>1, <1>2, <1>5, <2>2, <3>1, <3>2 DEF Fits
  <2> QED BY <1>1, <2>1, <2>2 DEF Fits
<1>6. Head(s) \in Statement OBVIOUS
<1> QED BY <1>1, <1>4, <1>5, <1>6

-----------------------------------------------------------------------------
(* The registry, and the rows that its projects claim.                     *)
AllKeys == {"", "github.com"} \X {"", "o/one", "o/two"}
RegistryOK(reg) ==
  /\ IsFiniteSet(reg) /\ reg \subseteq [num : Nat, key : AllKeys]
  /\ \A q \in reg : q.num <= Cardinality(reg)
  /\ \A q, s \in reg : q.num = s.num <=> q.key = s.key

LEMMA CanonicalType ==
  ASSUME NEW t \in Remotes, Canonical(t) # NoKey
  PROVE  Canonical(t) \in AllKeys
BY DEF Canonical, Remotes, AllKeys

LEMMA UpsertedOK ==
  ASSUME RegistryOK(registry), NEW keys \in SUBSET AllKeys, NEW reg \in Upserted(keys)
  PROVE  /\ RegistryOK(reg) /\ registry \subseteq reg
         /\ \A k \in keys : \E q \in reg : q.key = k
<1> DEFINE new == keys \ {q.key : q \in registry}
           n == Cardinality(new)
           c == Cardinality(registry)
<1>1. IsFiniteSet(new) /\ n \in Nat /\ c \in Nat
  <2>1. IsFiniteSet({"", "github.com"}) /\ IsFiniteSet({"", "o/one", "o/two"})
    <3>1. ASSUME NEW S, IsFiniteSet(S), NEW x PROVE IsFiniteSet(S \cup {x})
      BY <3>1, FS_AddElement
    <3>2. IsFiniteSet({} \cup {""}) BY <3>1, FS_EmptySet
    <3>3. IsFiniteSet(({} \cup {""}) \cup {"github.com"}) BY <3>1, <3>2
    <3>4. IsFiniteSet(({} \cup {""}) \cup {"o/one"}) BY <3>1, <3>2
    <3>5. IsFiniteSet((({} \cup {""}) \cup {"o/one"}) \cup {"o/two"}) BY <3>1, <3>4
    <3>6. /\ {"", "github.com"} = ({} \cup {""}) \cup {"github.com"}
          /\ {"", "o/one", "o/two"} = (({} \cup {""}) \cup {"o/one"}) \cup {"o/two"}
      OBVIOUS
    <3> QED BY <3>3, <3>5, <3>6
  <2>2. IsFiniteSet(AllKeys) BY <2>1, FS_Product DEF AllKeys
  <2>3. new \in SUBSET AllKeys OBVIOUS
  <2>4. IsFiniteSet(new) BY <2>2, <2>3, FS_Subset
  <2> QED BY <2>4, FS_CardinalityType DEF RegistryOK
<1>2. PICK order \in SetToSeqs(new) :
        reg = registry \cup {[num |-> c + i, key |-> order[i]] : i \in DOMAIN order}
  BY DEF Upserted
<1>3. order \in [1 .. n -> new] /\ \A i, j \in 1 .. n : i # j => order[i] # order[j]
  BY <1>2 DEF SetToSeqs
<1> HIDE DEF n, c, new
<1>4. \A k \in new : \E i \in 1 .. n : order[i] = k
  <2>1. IsFiniteSet(1 .. n) /\ Cardinality(1 .. n) = Cardinality(new)
    BY <1>1, FS_Interval DEF n
  <2>2. order \in Injection(1 .. n, new) BY <1>3 DEF Injection, IsInjective
  <2>3. order \in Surjection(1 .. n, new) BY <1>1, <2>1, <2>2, FS_Injection
  <2> QED BY <2>3 DEF Surjection
<1> DEFINE row == [i \in 1 .. n |-> [num |-> c + i, key |-> order[i]]]
           added == {[num |-> c + i, key |-> order[i]] : i \in 1 .. n}
<1>5. reg = registry \cup added BY <1>2, <1>3
<1>6. IsFiniteSet(added) /\ Cardinality(added) = n
  <2>1. row \in Bijection(1 .. n, added)
    <3>1. row \in [1 .. n -> added] OBVIOUS
    <3>2. \A i, j \in 1 .. n : row[i] = row[j] => i = j
      <4> TAKE i, j \in 1 .. n
      <4>1. row[i].num = c + i /\ row[j].num = c + j OBVIOUS
      <4> QED BY <1>1, <4>1
    <3>3. \A t \in added : \E i \in 1 .. n : row[i] = t OBVIOUS
    <3> QED BY <3>1, <3>2, <3>3 DEF Bijection, Injection, Surjection, IsInjective
  <2>2. ExistsBijection(1 .. n, added) BY <2>1 DEF ExistsBijection
  <2>3. IsFiniteSet(1 .. n) /\ Cardinality(1 .. n) = n BY <1>1, FS_Interval
  <2> QED BY <2>2, <2>3, FS_Bijection
<1>7. \A q \in added : \E i \in 1 .. n : q.num = c + i /\ q.key = order[i] OBVIOUS
<1>8. \A q \in added : q \in [num : Nat, key : AllKeys]
  BY <1>1, <1>3 DEF new
<1>9. \A q \in added, s \in registry : q.key # s.key
  BY <1>3, <1>7 DEF new
<1>10. ASSUME NEW k \in new PROVE \E q \in added : q.key = k
  <2>1. PICK i \in 1 .. n : order[i] = k BY <1>4
  <2> DEFINE q == [num |-> c + i, key |-> order[i]]
  <2>2. q \in added /\ q.key = k BY <2>1
  <2> QED BY <2>2
<1> HIDE DEF added
<1>11. IsFiniteSet(reg) /\ Cardinality(reg) = c + n
  <2>1. registry \cap added = {} BY <1>9
  <2>2. Cardinality({}) = 0 BY FS_EmptySet
  <2>3. IsFiniteSet(registry) BY DEF RegistryOK
  <2>4. IsFiniteSet(registry \cup added)
        /\ Cardinality(registry \cup added)
             = Cardinality(registry) + Cardinality(added) - Cardinality(registry \cap added)
    BY <1>6, <2>3, FS_Union
  <2>5. Cardinality(registry) = c BY DEF c
  <2> HIDE DEF c
  <2>6. Cardinality(registry \cup added) = c + n - 0 BY <1>6, <2>1, <2>2, <2>4, <2>5
  <2> QED BY <1>1, <1>5, <2>4, <2>6
<1>12. reg \subseteq [num : Nat, key : AllKeys] BY <1>5, <1>8 DEF RegistryOK
<1>13. \A q \in registry : q.num \in Nat /\ q.num <= c BY DEF RegistryOK, c
<1>14. \A q \in added : q.num \in Nat /\ q.num > c /\ q.num <= c + n BY <1>1, <1>7
<1>15. \A q \in reg : q.num <= Cardinality(reg)
  BY <1>1, <1>5, <1>11, <1>13, <1>14
<1>16. ASSUME NEW q \in reg, NEW s \in reg PROVE q.num = s.num <=> q.key = s.key
  <2>1. CASE q \in registry /\ s \in registry BY <2>1 DEF RegistryOK
  <2>2. CASE q \in added /\ s \in added
    <3>1. PICK i \in 1 .. n : q.num = c + i /\ q.key = order[i] BY <1>7, <2>2
    <3>2. PICK j \in 1 .. n : s.num = c + j /\ s.key = order[j] BY <1>7, <2>2
    <3> QED BY <1>1, <1>3, <3>1, <3>2
  <2>3. CASE q \in added /\ s \in registry BY <1>1, <1>9, <1>13, <1>14, <2>3
  <2>4. CASE q \in registry /\ s \in added BY <1>1, <1>9, <1>13, <1>14, <2>4
  <2> QED BY <1>5, <2>1, <2>2, <2>3, <2>4
<1>17. \A k \in keys : \E q \in reg : q.key = k
  BY <1>5, <1>10 DEF new
<1> QED BY <1>5, <1>11, <1>12, <1>15, <1>16, <1>17 DEF RegistryOK

RowsOK(rws, reg) ==
  /\ rws \subseteq [id : Nat, target : Remotes, num : Nat]
  /\ \A r \in rws : IF Canonical(r.target) = NoKey THEN r.num = 0
                    ELSE r.num = 0 \/ [num |-> r.num, key |-> Canonical(r.target)] \in reg
Adopted(rws, reg) ==
  \A r \in rws : Canonical(r.target) # NoKey =>
                   [num |-> r.num, key |-> Canonical(r.target)] \in reg
TargetsOf(rws) == {r.target : r \in rws}

ConnPcs == {"closed", "exec", "adopt", "stamp", "open", "failed"}
Conn == [pc : ConnPcs, v : 0 .. 5, todo : Seq(Statement), targets : SUBSET Remotes]

(* What a process found and has still to do make up the whole.             *)
ConnOK(c, ver, cols, rws, reg) ==
  /\ c.pc = "exec" => cols \cup Adds(c.todo) = Whole /\ (c.v = 0 => rws = {})
  /\ c.pc = "adopt" => cols = Whole /\ c.targets = TargetsOf(rws)
  /\ c.pc = "stamp" => cols = Whole /\ Adopted(rws, reg)
  /\ c.pc = "open" => ver = 5

SchemaTypeOK ==
  /\ version \in 0 .. 5 /\ columns \subseteq Whole /\ disturbed \in BOOLEAN
  /\ RegistryOK(registry) /\ RowsOK(rows, registry)
  /\ conn \in [Process -> Conn]
FileOK ==
  /\ Columns(version) \subseteq columns
  /\ version = 0 => rows = {}
  /\ version = 5 => Adopted(rows, registry)
(* One migrates at a time, and finds what it expects.                      *)
OneMigrates ==
  /\ \A p \in Process : conn[p].pc # "failed"
  /\ \A p, q \in Migrating : p = q
  /\ \A p \in Process : conn[p].pc = "exec" => Fits(conn[p].todo, columns)
  /\ Migrating = {} => columns = Columns(version)
SchemaInv ==
  /\ SchemaTypeOK /\ FileOK
  /\ \A p \in Process : ConnOK(conn[p], version, columns, rows, registry)
  /\ ~disturbed => OneMigrates

LEMMA ColumnsBounds ==
  /\ Columns(5) = Whole /\ \A v \in 0 .. 5 : Columns(v) \subseteq Whole
BY DEF Columns

LEMMA SchemaInit_Inv == SchemaInit => SchemaInv
<1> SUFFICES ASSUME SchemaInit PROVE SchemaInv OBVIOUS
<1>1. Closed \in Conn /\ Closed.pc = "closed"
  BY NoStatement DEF Closed, Conn, ConnPcs
<1>2. version \in 0 .. 5 /\ columns = Columns(version) /\ registry = {} /\ disturbed = FALSE
      /\ conn = [p \in Process |-> Closed]
  BY SchemaAssumption DEF SchemaInit
<1>3. RegistryOK(registry) BY <1>2, FS_EmptySet DEF RegistryOK
<1>4. version \notin 1 .. 4 => rows = {} BY DEF SchemaInit
<1>5. RowsOK(rows, registry)
  <2>1. CASE version \notin 1 .. 4 BY <1>4, <2>1 DEF RowsOK
  <2>2. CASE version \in 1 .. 4
    <3>1. \A s \in rows : \E r \in OldRuns : s = [id |-> r.id, target |-> r.target, num |-> 0]
      BY <2>2 DEF SchemaInit
    <3>2. \A s \in rows : s \in [id : Nat, target : Remotes, num : Nat] /\ s.num = 0
      BY <3>1, SchemaAssumption
    <3> QED BY <3>2 DEF RowsOK
  <2> QED BY <2>1, <2>2
<1>6. rows = {} => Adopted(rows, registry) BY DEF Adopted
<1>7. SchemaTypeOK /\ FileOK
  <2>1. SchemaTypeOK
    BY <1>1, <1>2, <1>3, <1>5, ColumnsBounds DEF SchemaTypeOK
  <2>2. version \in {0, 5} => rows = {} BY <1>2, <1>4
  <2> QED BY <1>2, <1>6, <2>1, <2>2 DEF FileOK
<1>8. OneMigrates BY <1>1, <1>2 DEF OneMigrates, Migrating
<1> QED BY <1>1, <1>2, <1>7, <1>8 DEF SchemaInv, ConnOK

(* Of a step of p on the file: what it does to p, ...                      *)
Becomes(p, pc, v, todo, targets) ==
  /\ conn' \in [Process -> Conn]
  /\ conn'[p].pc = pc /\ conn'[p].v = v /\ conn'[p].todo = todo /\ conn'[p].targets = targets
  /\ \A q \in Process \ {p} : conn'[q] = conn[q]

(* ... and that what others found and have to do stays enough.             *)
LEMMA OthersStillOK ==
  ASSUME SchemaInv, NEW p \in Process, \A q \in Process \ {p} : conn'[q] = conn[q],
         columns \subseteq columns', columns' \subseteq Whole,
         version' \in {version, 5}, TargetsOf(rows') = TargetsOf(rows),
         Adopted(rows, registry) => Adopted(rows', registry'),
         NEW q \in Process, q # p
  PROVE  ConnOK(conn'[q], version', columns', rows', registry')
<1>1. ConnOK(conn[q], version, columns, rows, registry) /\ conn'[q] = conn[q] BY DEF SchemaInv
<1>2. rows = {} => rows' = {} BY DEF TargetsOf
<1>3. \A set : columns \cup set = Whole => columns' \cup set = Whole \/ ~(set \subseteq Whole)
  OBVIOUS
<1>4. conn[q].pc = "exec" => Adds(conn[q].todo) \subseteq Whole BY <1>1 DEF ConnOK
<1>5. version \in 0 .. 5 BY DEF SchemaInv, SchemaTypeOK
<1> QED BY <1>1, <1>2, <1>3, <1>4, <1>5 DEF ConnOK

LEMMA ReadVersion_Inv ==
  ASSUME SchemaInv, NEW p \in Process, ReadVersion(p)
  PROVE  SchemaInv'
<1>1. /\ conn[p].pc = "closed" /\ UNCHANGED <<version, columns, rows, registry>>
      /\ disturbed' = (disturbed \/ (version < 5 /\ Migrating # {}))
  BY DEF ReadVersion, schemaVersion
<1>2. version \in 0 .. 5 /\ conn \in [Process -> Conn] /\ disturbed \in BOOLEAN
      /\ columns \subseteq Whole
  BY DEF SchemaInv, SchemaTypeOK
<1> DEFINE pc == IF version >= 5 THEN "open" ELSE "exec"
           rec == [Closed EXCEPT !.v = version, !.todo = Statements(version), !.pc = pc]
<1>3. Statements(version) \in Seq(Statement)
  <2>1. CASE version \in 0 .. 4 BY <2>1, StatementsOK
  <2>2. CASE version = 5
    <3>1. \A a, b : <<>> \o <<>> = <<>> OBVIOUS
    <3>2. Statements(5) = <<>> \o <<>> \o <<>> \o <<>> \o <<>> BY DEF Statements
    <3> QED BY <2>2, <3>1, <3>2, NoStatement
  <2> QED BY <1>2, <2>1, <2>2
<1>4. Closed \in Conn /\ Closed.targets = {} BY NoStatement DEF Closed, Conn, ConnPcs
<1>5. rec \in Conn /\ rec.pc = pc /\ rec.v = version /\ rec.todo = Statements(version)
  BY <1>2, <1>3, <1>4 DEF Conn, ConnPcs
<1>6. conn' = [conn EXCEPT ![p] = rec] BY DEF ReadVersion, schemaVersion
<1> HIDE DEF rec
<1>7. conn' \in [Process -> Conn] /\ conn'[p] = rec
      /\ \A q \in Process \ {p} : conn'[q] = conn[q]
  BY <1>2, <1>5, <1>6
<1>8. SchemaTypeOK' /\ FileOK'
  BY <1>1, <1>2, <1>7 DEF SchemaInv, SchemaTypeOK, FileOK
<1>9. ASSUME version # 5
      PROVE  /\ columns \cup Adds(Statements(version)) = Whole
             /\ columns = Columns(version) => Fits(Statements(version), columns)
  BY <1>2, <1>9, StatementsOK DEF SchemaInv, FileOK
<1>10. ConnOK(rec, version, columns, rows, registry)
  BY <1>2, <1>5, <1>9 DEF ConnOK, SchemaInv, FileOK
<1>11. \A q \in Process : ConnOK(conn'[q], version, columns, rows, registry)
  BY <1>7, <1>10 DEF SchemaInv
<1>12. ASSUME ~disturbed' PROVE OneMigrates'
  <2>1. OneMigrates /\ (version < 5 => Migrating = {}) BY <1>1, <1>12 DEF SchemaInv
  <2>2. CASE version = 5
    <3>1. Migrating' = Migrating BY <1>1, <1>5, <1>7, <2>2 DEF Migrating
    <3> QED BY <1>1, <1>5, <1>7, <2>1, <2>2, <3>1 DEF OneMigrates
  <2>3. CASE version < 5
    <3>1. Migrating' = {p} BY <1>1, <1>2, <1>5, <1>7, <2>1, <2>3 DEF Migrating
    <3>2. \A q \in Process : conn'[q].pc = "exec" => q = p
      BY <1>7, <2>1, <2>3 DEF Migrating
    <3>3. Fits(rec.todo, columns) BY <1>2, <1>5, <1>9, <2>1, <2>3 DEF OneMigrates
    <3> QED BY <1>1, <1>2, <1>5, <1>7, <2>1, <2>3, <3>1, <3>2, <3>3 DEF OneMigrates
  <2> QED BY <1>2, <2>2, <2>3
<1> QED BY <1>1, <1>8, <1>11, <1>12 DEF SchemaInv

LEMMA ExecKeeps_Inv ==
  ASSUME SchemaInv, NEW p \in Process, Exec(p)
  PROVE  SchemaInv'
<1> DEFINE todo == conn[p].todo
           stmt == Head(todo)
<1>1. /\ conn[p].pc = "exec" /\ todo # <<>>
      /\ UNCHANGED <<version, rows, registry, disturbed>>
  BY DEF Exec
<1>2. /\ version \in 0 .. 5 /\ conn \in [Process -> Conn] /\ disturbed \in BOOLEAN
      /\ columns \subseteq Whole /\ todo \in Seq(Statement)
  BY DEF SchemaInv, SchemaTypeOK, Conn
<1>3. /\ stmt \in Statement /\ Tail(todo) \in Seq(Statement)
      /\ Adds(todo) = stmt.adds \cup Adds(Tail(todo))
      /\ Fits(todo, columns) => /\ stmt.unless \/ stmt.adds \cap columns = {}
                                /\ Fits(Tail(todo), columns \cup stmt.adds)
  BY <1>1, <1>2, RestOfStatements
<1>4. columns \cup Adds(todo) = Whole /\ (conn[p].v = 0 => rows = {})
  BY <1>1 DEF SchemaInv, ConnOK
<1>5. p \in Migrating BY <1>1 DEF Migrating
<1>6. CASE ~stmt.unless /\ stmt.adds \cap columns # {}
  <2>1. conn' = [conn EXCEPT ![p].pc = "failed"] /\ columns' = columns BY <1>6 DEF Exec
  <2>2. Becomes(p, "failed", conn[p].v, todo, conn[p].targets)
    BY <1>2, <2>1 DEF Becomes, Conn, ConnPcs
  <2>3. SchemaTypeOK' /\ FileOK'
    BY <1>1, <2>1, <2>2 DEF SchemaInv, SchemaTypeOK, FileOK, Becomes
  <2>4. \A q \in Process : ConnOK(conn'[q], version, columns, rows, registry)
    BY <2>2 DEF SchemaInv, ConnOK, Becomes
  <2>5. disturbed BY <1>1, <1>3, <1>6 DEF SchemaInv, OneMigrates
  <2> QED BY <1>1, <2>1, <2>3, <2>4, <2>5 DEF SchemaInv
<1>7. CASE ~(~stmt.unless /\ stmt.adds \cap columns # {})
  <2>1. conn' = [conn EXCEPT ![p].todo = Tail(@)] /\ columns' = columns \cup stmt.adds
    BY <1>7 DEF Exec
  <2>2. Becomes(p, "exec", conn[p].v, Tail(todo), conn[p].targets)
    BY <1>1, <1>2, <1>3, <2>1 DEF Becomes, Conn, ConnPcs
  <2>3. columns \subseteq columns' /\ columns' \subseteq Whole
    BY <1>2, <1>3, <2>1 DEF Statement
  <2>4. SchemaTypeOK' /\ FileOK'
    BY <1>1, <2>2, <2>3 DEF SchemaInv, SchemaTypeOK, FileOK, Becomes
  <2>5. ConnOK(conn'[p], version', columns', rows', registry')
    <3>1. columns' \cup Adds(Tail(todo)) = Whole BY <1>3, <1>4, <2>1
    <3> QED BY <1>1, <1>4, <2>2, <3>1 DEF Becomes, ConnOK
  <2>6. \A q \in Process : ConnOK(conn'[q], version', columns', rows', registry')
    BY <1>1, <2>2, <2>3, <2>5, OthersStillOK DEF Becomes
  <2>7. ASSUME ~disturbed PROVE OneMigrates'
    <3>1. OneMigrates BY <2>7 DEF SchemaInv
    <3>2. Migrating' = Migrating /\ Migrating' # {}
      BY <1>1, <1>5, <2>2 DEF Migrating, Becomes
    <3>3. \A q \in Process : conn'[q].pc = "exec" => q = p
      BY <1>5, <2>2, <3>1 DEF Migrating, OneMigrates, Becomes
    <3>4. Fits(conn'[p].todo, columns')
      BY <1>1, <1>3, <2>1, <2>2, <3>1 DEF OneMigrates, Becomes
    <3>5. \A q \in Process : conn'[q].pc # "failed"
      BY <2>2, <3>1 DEF OneMigrates, Becomes
    <3> QED BY <3>1, <3>2, <3>3, <3>4, <3>5 DEF OneMigrates
  <2> QED BY <1>1, <2>4, <2>6, <2>7 DEF SchemaInv
<1> QED BY <1>6, <1>7

LEMMA SelectTargets_Inv ==
  ASSUME SchemaInv, NEW p \in Process, SelectTargets(p)
  PROVE  SchemaInv'
<1>1. /\ conn[p].pc = "exec" /\ conn[p].todo = <<>>
      /\ UNCHANGED <<version, columns, rows, registry, disturbed>>
  BY DEF SelectTargets
<1>2. conn \in [Process -> Conn] /\ RowsOK(rows, registry) BY DEF SchemaInv, SchemaTypeOK
<1>3. columns = Whole /\ (conn[p].v = 0 => rows = {})
  BY <1>1, NoStatement DEF SchemaInv, ConnOK
<1> DEFINE pc == IF conn[p].v = 0 THEN "stamp" ELSE "adopt"
<1>4. Becomes(p, pc, conn[p].v, conn[p].todo, TargetsOf(rows))
  <2>1. TargetsOf(rows) \subseteq Remotes BY <1>2 DEF RowsOK, TargetsOf
  <2>2. conn' = [conn EXCEPT ![p].pc = pc, ![p].targets = TargetsOf(rows)]
    BY DEF SelectTargets, TargetsOf
  <2> HIDE DEF TargetsOf
  <2> QED BY <1>2, <2>1, <2>2 DEF Becomes, Conn, ConnPcs
<1>5. SchemaTypeOK' /\ FileOK'
  BY <1>1, <1>4 DEF SchemaInv, SchemaTypeOK, FileOK, Becomes
<1>6. \A q \in Process : ConnOK(conn'[q], version, columns, rows, registry)
  <2>1. rows = {} => Adopted(rows, registry) BY DEF Adopted
  <2>2. ConnOK(conn'[p], version, columns, rows, registry)
    BY <1>3, <1>4, <2>1 DEF ConnOK, Becomes
  <2> QED BY <1>4, <2>2 DEF SchemaInv, Becomes
<1>7. ASSUME ~disturbed PROVE OneMigrates'
  <2>1. OneMigrates BY <1>7 DEF SchemaInv
  <2>2. Migrating' = Migrating BY <1>1, <1>4 DEF Migrating, Becomes
  <2>3. p \in Migrating BY <1>1 DEF Migrating
  <2> QED BY <1>1, <1>4, <2>1, <2>2, <2>3 DEF OneMigrates, Becomes
<1> QED BY <1>1, <1>5, <1>6, <1>7 DEF SchemaInv

LEMMA Adopt_Inv ==
  ASSUME SchemaInv, NEW p \in Process, Adopt(p)
  PROVE  SchemaInv'
<1> DEFINE keys == KeysOf(conn[p].targets)
<1>1. /\ conn[p].pc = "adopt" /\ conn' = [conn EXCEPT ![p].pc = "stamp"]
      /\ UNCHANGED <<version, columns, disturbed>>
  BY DEF Adopt
<1>2. conn \in [Process -> Conn] /\ RowsOK(rows, registry) /\ RegistryOK(registry)
      /\ columns \subseteq Whole /\ version \in 0 .. 5
  BY DEF SchemaInv, SchemaTypeOK
<1>3. columns = Whole /\ conn[p].targets = TargetsOf(rows)
  BY <1>1 DEF SchemaInv, ConnOK
<1>4. \A r \in rows : r.target \in Remotes /\ r.target \in conn[p].targets
        /\ r \in [id : Nat, target : Remotes, num : Nat]
  BY <1>2, <1>3 DEF RowsOK, TargetsOf
<1>5. keys \in SUBSET AllKeys
  <2>1. conn[p].targets \subseteq Remotes BY <1>2 DEF Conn
  <2> QED BY <2>1, CanonicalType DEF KeysOf
<1>6. PICK reg \in Upserted(keys) :
        /\ registry' = reg
        /\ rows' = {[r EXCEPT !.num =
                      IF r.target \in conn[p].targets /\ Canonical(r.target) # NoKey
                        THEN (CHOOSE q \in reg : q.key = Canonical(r.target)).num
                        ELSE @] : r \in rows}
  BY DEF Adopt
<1>7. RegistryOK(reg) /\ registry \subseteq reg /\ \A k \in keys : \E q \in reg : q.key = k
  BY <1>2, <1>5, UpsertedOK
<1>8. ASSUME NEW r \in rows, Canonical(r.target) # NoKey
      PROVE  LET q == CHOOSE q \in reg : q.key = Canonical(r.target)
             IN  /\ q \in reg /\ q.num \in Nat
                 /\ q = [num |-> q.num, key |-> Canonical(r.target)]
  <2>1. Canonical(r.target) \in keys BY <1>4, <1>8 DEF KeysOf
  <2> DEFINE q == CHOOSE q \in reg : q.key = Canonical(r.target)
  <2>2. q \in reg /\ q.key = Canonical(r.target) BY <1>7, <2>1
  <2> HIDE DEF q
  <2>3. q \in [num : Nat, key : AllKeys] BY <1>7, <2>2 DEF RegistryOK
  <2>4. q.num \in Nat /\ q = [num |-> q.num, key |-> Canonical(r.target)] BY <2>2, <2>3
  <2> QED BY <2>2, <2>4 DEF q
<1> DEFINE New(r) == IF Canonical(r.target) # NoKey
                       THEN (CHOOSE q \in reg : q.key = Canonical(r.target)).num ELSE r.num
<1>9. \A r \in rows : New(r) \in Nat BY <1>4, <1>8
<1>10. rows' = {[r EXCEPT !.num = New(r)] : r \in rows}
  BY <1>4, <1>6
<1> HIDE DEF New
<1>11. /\ \A s \in rows' : \E r \in rows :
             s \in [id : Nat, target : Remotes, num : Nat] /\ s.target = r.target /\ s.num = New(r)
       /\ \A r \in rows : \E s \in rows' : s.target = r.target
  <2>1. ASSUME NEW r \in rows
        PROVE  LET s == [r EXCEPT !.num = New(r)]
               IN  /\ s \in [id : Nat, target : Remotes, num : Nat]
                   /\ s.target = r.target /\ s.num = New(r)
    <3>1. r \in [id : Nat, target : Remotes, num : Nat] /\ New(r) \in Nat BY <1>4, <1>9
    <3> QED BY <3>1
  <2>2. \A s \in rows' : \E r \in rows : s = [r EXCEPT !.num = New(r)] BY <1>10
  <2>3. \A r \in rows : [r EXCEPT !.num = New(r)] \in rows' BY <1>10
  <2> QED BY <2>1, <2>2, <2>3
<1>12. \A r \in rows : IF Canonical(r.target) = NoKey THEN New(r) = 0
                       ELSE [num |-> New(r), key |-> Canonical(r.target)] \in reg
  <2> TAKE r \in rows
  <2>1. CASE Canonical(r.target) = NoKey BY <1>2, <2>1 DEF RowsOK, New
  <2>2. CASE Canonical(r.target) # NoKey BY <1>8, <2>2 DEF New
  <2> QED BY <2>1, <2>2
<1>13. RowsOK(rows', registry') BY <1>6, <1>11, <1>12 DEF RowsOK
<1>14. Adopted(rows', registry') BY <1>6, <1>11, <1>12 DEF Adopted
<1>15. TargetsOf(rows') = TargetsOf(rows) BY <1>11 DEF TargetsOf
<1>16. Becomes(p, "stamp", conn[p].v, conn[p].todo, conn[p].targets)
  BY <1>1, <1>2 DEF Becomes, Conn, ConnPcs
<1>17. SchemaTypeOK' BY <1>1, <1>6, <1>7, <1>13, <1>16 DEF SchemaInv, SchemaTypeOK, Becomes
<1>18. FileOK'
  <2>1. rows = {} => rows' = {} BY <1>10
  <2> QED BY <1>1, <1>14, <2>1 DEF SchemaInv, FileOK
<1>19. \A q \in Process : ConnOK(conn'[q], version', columns', rows', registry')
  <2>1. ConnOK(conn'[p], version', columns', rows', registry')
    BY <1>1, <1>3, <1>14, <1>16 DEF ConnOK, Becomes
  <2> QED BY <1>1, <1>2, <1>14, <1>15, <1>16, <2>1, OthersStillOK DEF Becomes
<1>20. ASSUME ~disturbed PROVE OneMigrates'
  <2>1. OneMigrates BY <1>20 DEF SchemaInv
  <2>2. Migrating' = Migrating /\ p \in Migrating BY <1>1, <1>16 DEF Migrating, Becomes
  <2> QED BY <1>1, <1>16, <2>1, <2>2 DEF OneMigrates, Becomes
<1> QED BY <1>1, <1>17, <1>18, <1>19, <1>20 DEF SchemaInv

LEMMA Stamp_Inv ==
  ASSUME SchemaInv, NEW p \in Process, Stamp(p)
  PROVE  SchemaInv'
<1>1. /\ conn[p].pc = "stamp" /\ conn' = [conn EXCEPT ![p].pc = "open"] /\ version' = 5
      /\ UNCHANGED <<columns, rows, registry, disturbed>>
  BY DEF Stamp, schemaVersion
<1>2. conn \in [Process -> Conn] BY DEF SchemaInv, SchemaTypeOK
<1>3. columns = Whole /\ Adopted(rows, registry) BY <1>1 DEF SchemaInv, ConnOK
<1>4. Becomes(p, "open", conn[p].v, conn[p].todo, conn[p].targets)
  BY <1>1, <1>2 DEF Becomes, Conn, ConnPcs
<1>5. SchemaTypeOK' /\ FileOK'
  BY <1>1, <1>3, <1>4, ColumnsBounds DEF SchemaInv, SchemaTypeOK, FileOK, Becomes
<1>6. \A q \in Process : ConnOK(conn'[q], version', columns', rows', registry')
  <2>1. ConnOK(conn'[p], version', columns', rows', registry')
    BY <1>1, <1>4 DEF ConnOK, Becomes
  <2> QED BY <1>1, <1>3, <1>4, <2>1, OthersStillOK DEF Becomes
<1>7. ASSUME ~disturbed PROVE OneMigrates'
  <2>1. OneMigrates BY <1>7 DEF SchemaInv
  <2>2. p \in Migrating BY <1>1 DEF Migrating
  <2>3. Migrating' = {} BY <1>4, <2>1, <2>2 DEF Migrating, OneMigrates, Becomes
  <2>4. columns' = Columns(version') BY <1>1, <1>3, ColumnsBounds
  <2> QED BY <1>1, <1>4, <2>1, <2>3, <2>4 DEF OneMigrates, Becomes
<1> QED BY <1>1, <1>5, <1>6, <1>7 DEF SchemaInv

(* A process that leaves the file where it is, or is killed there.         *)
LEMMA Close_Inv ==
  ASSUME SchemaInv, NEW p \in Process, conn' = [conn EXCEPT ![p] = Closed],
         UNCHANGED <<version, columns, rows, registry>>,
         disturbed' \in BOOLEAN, ~disturbed' => ~disturbed /\ p \notin Migrating
  PROVE  SchemaInv'
<1>1. Closed \in Conn /\ Closed.pc = "closed"
  BY NoStatement DEF Closed, Conn, ConnPcs
<1>2. conn' \in [Process -> Conn] /\ conn'[p].pc = "closed"
      /\ \A q \in Process \ {p} : conn'[q] = conn[q]
  BY <1>1 DEF SchemaInv, SchemaTypeOK
<1>3. SchemaTypeOK' /\ FileOK' BY <1>2 DEF SchemaInv, SchemaTypeOK, FileOK
<1>4. \A q \in Process : ConnOK(conn'[q], version, columns, rows, registry)
  BY <1>2 DEF SchemaInv, ConnOK
<1>5. ASSUME ~disturbed' PROVE OneMigrates'
  <2>1. OneMigrates BY <1>5 DEF SchemaInv
  <2>2. Migrating' = Migrating BY <1>2, <1>5 DEF Migrating
  <2> QED BY <1>2, <2>1, <2>2 DEF OneMigrates
<1> QED BY <1>3, <1>4, <1>5 DEF SchemaInv

-----------------------------------------------------------------------------
(* The start of a scan.                                                    *)
StartupInv == CheckoutInv /\ SchemaInv /\ StoreAfterSource

(* A process ends, or is killed: it is no longer anywhere.                 *)
LEMMA Gone_Inv ==
  ASSUME CheckoutInv, NEW p \in Process, opener' = [opener EXCEPT ![p] = Waiting],
         dir' \in Directory, stirred' \in BOOLEAN,
         ~stirred' => ~stirred /\ dir' = dir /\ (opener[p].pc = "fetch" => dir.by # p)
  PROVE  CheckoutInv'
<1>1. opener' \in [Process -> Opener] /\ opener'[p] = Waiting
      /\ \A q \in Process \ {p} : opener'[q] = opener[q]
  BY WaitingOK DEF CheckoutInv, CheckoutTypeOK
<1>2. CheckoutTypeOK'
  BY <1>1, WaitingOK DEF CheckoutInv, CheckoutTypeOK, DecidedOK, Inside
<1>3. ASSUME ~stirred' PROVE Undisturbed' /\ RefusedOK'
  <2>1. Undisturbed /\ RefusedOK BY <1>3 DEF CheckoutInv
  <2>2. opener[p].pc # "fetch" BY <1>3, <2>1 DEF Undisturbed, AloneOK
  <2> QED BY <1>1, <1>3, <2>1, <2>2, WaitingOK, OnlyOutside
<1>4. OpenedOK'
  <2>1. stirred => stirred' BY DEF CheckoutInv, CheckoutTypeOK
  <2>2. opener'[p].pc # "opened" BY <1>1, WaitingOK
  <2> QED BY <1>1, <2>1, <2>2, OpenedKept DEF CheckoutInv
<1> QED BY <1>2, <1>3, <1>4 DEF CheckoutInv

LEMMA Left ==
  ASSUME StoreAfterSource, NEW p \in Process, CheckoutInv, SchemaInv,
         opener' = [opener EXCEPT ![p] = Waiting], conn' = [conn EXCEPT ![p] = Closed]
  PROVE  StoreAfterSource'
BY DEF StoreAfterSource, Closed, CheckoutInv, CheckoutTypeOK, SchemaInv, SchemaTypeOK

LEMMA Startup_Step ==
  ASSUME StartupInv, [Next]_vars
  PROVE  StartupInv'
<1> USE DEF StartupInv
<1>1. ASSUME NEW p \in Process, Begin(p) PROVE StartupInv'
  <2>1. CheckoutInv' BY <1>1, Open_Inv DEF Begin
  <2>2. UNCHANGED schemaVars BY <1>1 DEF Begin
  <2>3. SchemaInv'
    BY <2>2 DEF schemaVars, SchemaInv, SchemaTypeOK, FileOK, OneMigrates, Migrating
  <2>4. conn[p].pc = "closed" BY <1>1 DEF Begin, Open, StoreAfterSource
  <2>5. \A q \in Process \ {p} : opener'[q] = opener[q] BY <1>1 DEF Begin, Open, CheckoutInv, CheckoutTypeOK
  <2>6. StoreAfterSource' BY <2>2, <2>4, <2>5 DEF StoreAfterSource, schemaVars
  <2> QED BY <2>1, <2>3, <2>6
<1>2. ASSUME NEW p \in Process, Source(p) PROVE StartupInv'
  <2>1. CheckoutInv'
    BY <1>2, OpenLocal_Inv, Stat_Inv, RemoveAll_Inv, BeginClone_Inv, CloneDone_Inv,
       CloneFails_Inv, ReadClone_Inv DEF Source, OpenSource
  <2>2. UNCHANGED schemaVars BY <1>2 DEF Source
  <2>3. SchemaInv'
    BY <2>2 DEF schemaVars, SchemaInv, SchemaTypeOK, FileOK, OneMigrates, Migrating
  <2>4. opener[p].pc # "opened"
    BY <1>2 DEF Source, OpenSource, OpenLocal, Stat, RemoveAll, BeginClone, CloneDone,
       CloneFails, ReadClone
  <2>5. \A q \in Process \ {p} : opener'[q] = opener[q]
    BY <1>2 DEF Source, OpenSource, OpenLocal, Stat, RemoveAll, BeginClone, CloneDone,
       CloneFails, ReadClone, Clone, Goto, Refuse, Opened, AfterFailure, CheckoutInv, CheckoutTypeOK
  <2>6. StoreAfterSource' BY <2>2, <2>4, <2>5 DEF StoreAfterSource, schemaVars
  <2> QED BY <2>1, <2>3, <2>6
<1>3. ASSUME NEW p \in Process, Store(p) PROVE StartupInv'
  <2>1. UNCHANGED checkoutVars /\ opener[p].pc = "opened" BY <1>3 DEF Store
  <2>2. CheckoutInv'
    BY <2>1 DEF checkoutVars, CheckoutInv, CheckoutTypeOK, Undisturbed, OpenedOK, RefusedOK,
       SourceIsAsked, RefusalHasCause
  <2>3. SchemaInv'
    BY <1>3, ReadVersion_Inv, ExecKeeps_Inv, SelectTargets_Inv, Adopt_Inv, Stamp_Inv
       DEF Store, OpenStore
  <2>4. \A q \in Process \ {p} : conn'[q] = conn[q]
    BY <1>3 DEF Store, OpenStore, ReadVersion, Exec, SelectTargets, Adopt, Stamp,
       SchemaInv, SchemaTypeOK
  <2>5. StoreAfterSource' BY <2>1, <2>4 DEF StoreAfterSource, checkoutVars
  <2> QED BY <2>2, <2>3, <2>5
<1>4. ASSUME NEW p \in Process, Exit(p) \/ Kill(p) PROVE StartupInv'
  <2>1. /\ opener' = [opener EXCEPT ![p] = Waiting] /\ conn' = [conn EXCEPT ![p] = Closed]
        /\ UNCHANGED <<version, columns, rows, registry>>
    BY <1>4 DEF Exit, Kill, KillOpener, KillConn
  <2>2. stirred \in BOOLEAN /\ disturbed \in BOOLEAN
    BY DEF CheckoutInv, CheckoutTypeOK, SchemaInv, SchemaTypeOK
  <2>3. CASE Exit(p)
    <3>1. /\ opener[p].pc = "refused" \/ conn[p].pc \in {"open", "failed"}
          /\ stirred' = stirred /\ disturbed' = disturbed /\ dir' = dir
      BY <2>3 DEF Exit
    <3>2. opener[p].pc # "fetch" /\ p \notin Migrating
      BY <3>1 DEF StoreAfterSource, Migrating
    <3>3. dir' \in Directory BY <3>1 DEF CheckoutInv, CheckoutTypeOK
    <3> QED BY <2>1, <2>2, <3>1, <3>2, <3>3, Gone_Inv, Close_Inv, Left
  <2>4. CASE Kill(p)
    <3>1. /\ stirred' = (stirred \/ dir.by = p \/ opener[p].pc = "remove")
          /\ disturbed' = (disturbed \/ p \in Migrating)
          /\ \/ dir' = dir
             \/ /\ opener[p].pc = "remove"
                /\ dir' = [git |-> "making", head |-> "nothing", by |-> "nobody"]
      BY <2>4 DEF Kill, KillOpener, KillConn
    <3>2. dir' \in Directory BY <3>1 DEF CheckoutInv, CheckoutTypeOK, Directory
    <3>3. ~stirred' => ~stirred /\ dir' = dir /\ (opener[p].pc = "fetch" => dir.by # p)
      BY <3>1
    <3>4. stirred' \in BOOLEAN BY <2>2, <3>1
    <3> QED BY <2>1, <2>2, <3>1, <3>2, <3>3, <3>4, Gone_Inv, Close_Inv, Left
  <2> QED BY <1>4, <2>3, <2>4
<1>5. ASSUME UNCHANGED vars PROVE StartupInv'
  BY <1>5 DEF vars, checkoutVars, schemaVars, CheckoutInv, CheckoutTypeOK, Undisturbed, OpenedOK,
     RefusedOK, SourceIsAsked, RefusalHasCause, SchemaInv, SchemaTypeOK, FileOK, OneMigrates, Migrating,
     StoreAfterSource
<1> QED BY <1>1, <1>2, <1>3, <1>4, <1>5 DEF Next

(* The invariant, of every run of the model.                               *)
THEOREM StartupInvariant == StartupSpec => []StartupInv
<1>1. Init => StartupInv
  BY CheckoutInit_Inv, SchemaInit_Inv DEF Init, StartupInv, StoreAfterSource, SchemaInit, Closed
<1>2. StartupInv /\ [Next]_vars => StartupInv' BY Startup_Step
<1> QED BY <1>1, <1>2, PTL DEF StartupSpec

(* source.Open: a scan has the identity it was asked for and, with --at,   *)
(* reads that revision and no other, whatever other scans left in the      *)
(* cache.  Excepted are half a clone left by one that was killed, or by    *)
(* two at once, and the scan without --at that finds a clone there.        *)
THEOREM StartsAsAsked == StartupSpec => []StartsFromWhatWasAsked
<1>1. StartupInv => StartsFromWhatWasAsked
  BY DEF StartupInv, CheckoutInv, OpenedOK, StartsFromWhatWasAsked
<1> QED BY <1>1, StartupInvariant, PTL

(* store.Open: whoever else migrates the file, and whoever dies doing so,  *)
(* a store that is open has the whole schema, one project for each remote, *)
(* and every run that names a remote claimed by its project.               *)
THEOREM OpenStoreIsMigrated == StartupSpec => []StoreIsMigrated
<1>1. StartupInv => StoreIsMigrated
  <2> SUFFICES ASSUME StartupInv, NEW p \in Process, conn[p].pc = "open"
               PROVE  /\ version = schemaVersion /\ columns = Whole
                      /\ \A q, s \in registry : q.num = s.num <=> q.key = s.key
                      /\ \A r \in rows :
                           IF Canonical(r.target) = NoKey THEN r.num = 0
                           ELSE [num |-> r.num, key |-> Canonical(r.target)] \in registry
    BY DEF StoreIsMigrated
  <2>1. version = 5 BY DEF StartupInv, SchemaInv, ConnOK
  <2>2. columns = Whole /\ Adopted(rows, registry)
    BY <2>1, ColumnsBounds DEF StartupInv, SchemaInv, SchemaTypeOK, FileOK
  <2>3. RegistryOK(registry) /\ RowsOK(rows, registry)
    BY DEF StartupInv, SchemaInv, SchemaTypeOK
  <2> QED BY <2>1, <2>2, <2>3 DEF schemaVersion, RegistryOK, RowsOK, Adopted
<1> QED BY <1>1, StartupInvariant, PTL

(* A scan is stopped before it starts for a revision nobody knows, for a   *)
(* date, for a branch that a full clone does not name (both promised by    *)
(* main.go:63), or for a file that two migrated at once or one died in,    *)
(* which then fails every Open; on its own an Open never fails on its own  *)
(* schema.  Of a clone left half made, or shared by two, no refusal is     *)
(* claimed to have a cause.                                                *)
THEOREM StopsOnlyForCause == StartupSpec => []StopsForCause
<1>1. StartupInv => StopsForCause
  BY DEF StartupInv, CheckoutInv, RefusedOK, SchemaInv, SchemaTypeOK, OneMigrates,
     StopsForCause, OpenFailsForCause
<1> QED BY <1>1, StartupInvariant, PTL
==============================================================================
