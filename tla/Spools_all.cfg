CONSTANTS
  Searchers = {"s1"}
  KeepDays = 1
  MaxLines = 1
  MaxMade = 3
  MaxDay = 1
  MaxSpoolFaults = 1

SPECIFICATION FairSpools
INVARIANTS
  NothingLost
  TotalsRight
PROPERTY ComesToTotals
CHECK_DEADLOCK FALSE
