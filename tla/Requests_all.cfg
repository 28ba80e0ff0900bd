CONSTANTS
  Askers = {"kid", "guest"}
  Guests = {"guest"}
  Urls <- SomeUrls
  Listed <- SomeListed
  RuleLists <- SomeRules
  MaxPending = 1
  MaxAsked = 2
  MaxEdits = 2
  MaxFaults = 1

SPECIFICATION RequestsSpec
INVARIANTS
  AllAnswered
PROPERTY GrantOnlyOpens
CHECK_DEADLOCK FALSE
