SPECIFICATION CommandsSpec
CONSTANTS
  Key = {k1, k2}  NoKey = NoKey
  Scanner = {s1, s2}
  Cleaner = {c1, c2}
  Query <- MCQuery
  Format = {"json", "cyclonedx"}
  MaxRuns = 3
  Instant = {1, 3}
  MaxCleans = 2
  MaxObs = 1
  Hurried = {s1}
SYMMETRY Symmetric
INVARIANTS StoreConsistent NoEmptyRegistration PlanMeansSameProject KeepBounds
CHECK_DEADLOCK FALSE
PROPERTIES CleanHonoursSelection
