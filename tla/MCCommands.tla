------------------------------ MODULE MCCommands -----------------------------
(* Two scanners and two cleaners on one store, for TLC.                    *)
EXTENDS Commands, TLC

Keep1     == [NoQuery EXCEPT !.keep = 1]
Aged      == [NoQuery EXCEPT !.age = 1, !.unclaimed = TRUE]
Purge     == [NoQuery EXCEPT !.scoped = TRUE, !.purge = TRUE]
MCQuery   == {Keep1, Aged, Purge}
Symmetric == Permutations(Cleaner) \cup Permutations(Key)
==============================================================================
