CONSTANTS
  MaxRequests = 3
  Chars = {1, 8}
  OutputCap = {1, 2}
  MaxCalls = 2  MaxInput = 4  MaxOutput = 3  MaxSpend = 9  MaxWall = 2
  MinCallInterval = 1
  PriceIn = 1  PriceOut = 2
  Overshoot = 1
  MaxClock = 3
SPECIFICATION Spec
CHECK_DEADLOCK FALSE
INVARIANTS TypeOK BudgetHolds
PROPERTIES StopIsFinal CallsSpaced EveryCallSettles
