SPECIFICATION StartupSpec
CONSTANTS
  Process = {p1, p2}
  Targets = {"remote", "checkout", "directory"}
  Version = {0, 1, 2, 4}
  OldRuns <- MCOldRuns
  NoKey = NoKey
  MaxKills = 1
SYMMETRY Symmetric
INVARIANTS StartsFromWhatWasAsked StoreIsMigrated StopsForCause
