SPECIFICATION ResolverSpec
CONSTANTS
  Caller = {c1, c2}
  NeedPublished = TRUE
  MaxAge = 1
  Fallible = TRUE
  None = None
  MaxClock = 1
  MaxRev = 1
  MaxExits = 1
  MaxCalls = 3
INVARIANTS DurableIsBacked FlightHasOneLeader
PROPERTIES KeepsPromise EveryCallAnswered
CHECK_DEADLOCK FALSE
