CONSTANTS
  Values = {v1, v2}
  MaxRev = 4
  MaxCrash = 2
  MaxDocs = 2
  Faults <- EarlyFaults

SPECIFICATION FairSpec
INVARIANTS
  AgreedWhenIdle
  
PROPERTIES
  FailedCallIsNoCall
  EnforcementCatchesUp
  ImplementsAtomic
