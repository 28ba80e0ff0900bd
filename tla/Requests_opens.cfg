CONSTANTS
  Askers = {"kid", "guest"}
  Guests = {"guest"}
  Urls <- SomeUrls
  Listed <- SomeListed
  RuleLists <- SomeRules
  MaxPending = 1
  MaxAsked = 1
  MaxEdits = 2
  MaxFaults = 0

SPECIFICATION RequestsSpec
PROPERTY ApprovedOpens
CHECK_DEADLOCK FALSE
