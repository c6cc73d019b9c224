SPECIFICATION ResolverSpec
CONSTANTS
  Caller = {c1, c2}
  NeedPublished = FALSE
  MaxAge = 1
  Fallible = FALSE
  None = None
  MaxClock = 1
  MaxRev = 1
  MaxExits = 0
  MaxCalls = 2
INVARIANT ListMatchesBody
CHECK_DEADLOCK FALSE
