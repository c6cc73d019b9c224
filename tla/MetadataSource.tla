---------------------------- MODULE MetadataSource ---------------------------
(***************************************************************************)
(* What a resolver promises the walker about a package's metadata: every   *)
(* call ends, with an error or with a body the registry really served, and *)
(* a call that needs publish times gets a body that carries them.  How     *)
(* calls share downloads, memos and blobs is not visible here.             *)
(***************************************************************************)
CONSTANTS Caller,
          Body, FullBody   \* bodies, and the subset with publish times

VARIABLES served,   \* the bodies the registry has served so far
          call      \* what each caller is doing

Unasked     == [state |-> "none"]
Asked(full) == [state |-> "asked", full |-> full]
Answered(b) == [state |-> "answered", body |-> b]
Refused     == [state |-> "refused"]

Init == served = {} /\ call = [c \in Caller |-> Unasked]

Ask(c) ==
  /\ call[c].state # "asked"
  /\ \E full \in BOOLEAN : call' = [call EXCEPT ![c] = Asked(full)]
  /\ UNCHANGED served

Serve(b) == served' = served \cup {b} /\ UNCHANGED call

Answer(c, b) ==
  /\ call[c].state = "asked" /\ b \in served
  /\ call[c].full => b \in FullBody
  /\ call' = [call EXCEPT ![c] = Answered(b)]
  /\ UNCHANGED served

Refuse(c) ==
  /\ call[c].state = "asked"
  /\ call' = [call EXCEPT ![c] = Refused]
  /\ UNCHANGED served

(* The process ends, and its calls with it.                                *)
Exit == call' = [c \in Caller |-> Unasked] /\ UNCHANGED served

Next ==
  \/ \E c \in Caller : \/ Ask(c) \/ Refuse(c) \/ \E b \in Body : Answer(c, b)
  \/ \E b \in Body : Serve(b)
  \/ Exit

Promise == Init /\ [][Next]_<<served, call>>

(* Every call is answered.                                                 *)
AllAnswered ==
  \A c \in Caller : call[c].state = "asked" ~> call[c].state # "asked"
==============================================================================
