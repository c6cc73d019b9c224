------------------------------ MODULE MCStartup ------------------------------
(* Two processes, one cached clone, one file of any version, for TLC.      *)
EXTENDS Startup, TLC

Url(path, upper, scp) ==
  [host |-> "github.com", path |-> path, upper |-> upper, dotgit |-> scp, scp |-> scp]
Bare == [host |-> "", path |-> "o/one", upper |-> FALSE, dotgit |-> FALSE, scp |-> FALSE]
MCOldRuns == {[id |-> 1, target |-> Url("o/one", TRUE, FALSE)],
              [id |-> 2, target |-> Url("o/one", FALSE, TRUE)],
              [id |-> 3, target |-> Url("o/two", FALSE, TRUE)],
              [id |-> 4, target |-> Bare]}
Symmetric == Permutations(Process)
==============================================================================
