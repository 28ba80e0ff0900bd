CONSTANTS
  N = 1
  Day = 5
  Settings <- Usual
  WarnAt <- TwoWarnings
  Grace = 1
  MaxCharge = 2
  Top = 3
  MaxSleep = 2
  Faults <- SomeFaults
  MaxFaults = 2

SPECIFICATION Spec
INVARIANTS
  TypeOK
  SignedOutInTime
  GateInStep
  Counted
PROPERTY Forewarned
