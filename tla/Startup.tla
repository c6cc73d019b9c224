------------------------------- MODULE Startup -------------------------------
(***************************************************************************)
(* How every scan begins: source.Open, and with a store, store.Open.       *)
(* Processes come and go over one cache directory and one database, and    *)
(* are killed anywhere.                                                    *)
(***************************************************************************)
EXTENDS Checkout, Schema

CONSTANT MaxKills  \* bound of the model

ASSUME KillAssumption == MaxKills \in Nat

VARIABLE kills

vars == <<checkoutVars, schemaVars, kills>>

Init == CheckoutInit /\ SchemaInit /\ kills = 0

Begin(p) == Open(p) /\ UNCHANGED <<schemaVars, kills>>
Source(p) == OpenSource(p) /\ UNCHANGED <<schemaVars, kills>>
Store(p) ==
  /\ opener[p].pc = "opened"
  /\ OpenStore(p) /\ UNCHANGED <<checkoutVars, kills>>

(* The process ends, with an answer or an error, and may be run again.     *)
Exit(p) ==
  /\ opener[p].pc = "refused" \/ conn[p].pc \in {"open", "failed"}
  /\ opener' = [opener EXCEPT ![p] = Waiting]
  /\ conn' = [conn EXCEPT ![p] = Closed]
  /\ UNCHANGED <<dir, stirred, version, columns, rows, registry, disturbed, kills>>

Kill(p) ==
  /\ kills < MaxKills /\ kills' = kills + 1
  /\ opener[p].pc \notin {"waiting", "refused"} /\ conn[p].pc \notin {"open", "failed"}
  /\ KillOpener(p) /\ KillConn(p)

Next == \E p \in Process : Begin(p) \/ Source(p) \/ Store(p) \/ Exit(p) \/ Kill(p)

StartupSpec == Init /\ [][Next]_vars

(* What a scan starts from is what was asked for, in whatever order scans  *)
(* share the clone: the identity always, the revision of --at always but   *)
(* for the half of a clone that a killed process, or two at once, leave;   *)
(* without --at the tip, but for a clone that was there, which is read as  *)
(* it was left (SourceIsAsked says each exception).                        *)
StartsFromWhatWasAsked == \A p \in Process : opener[p].pc = "opened" => SourceIsAsked(p)

(* What stops a scan before it starts.  The source, where nobody was       *)
(* killed and nobody was there at the same time: a revision nobody knows,  *)
(* any date, or a branch in a full clone, the last two against main.go:63. *)
(* The store: a process that was killed migrating the file, or two that    *)
(* migrated it at once; once a statement of theirs has been executed out   *)
(* of turn, every later Open fails on it, which the code nowhere repairs.  *)
StopsForCause ==
  /\ \A p \in Process : opener[p].pc = "refused" /\ ~stirred => RefusalHasCause(p)
  /\ OpenFailsForCause
==============================================================================
