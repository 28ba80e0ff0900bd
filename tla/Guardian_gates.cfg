CONSTANTS
  Uids = {parent, child}
  Admins = {parent}
  Passwords = {p}
  Blank = blank
  TTL = 1
  MaxFailures = 3
  Lockout = 2
  Window = 2
  Skew = 1
  Faults <- AllFaults

SPECIFICATION Spec
INVARIANTS
  GatedOnlyWithProof
  NoPromptOnlyInSitting
PROPERTIES
  GuessingBounded
  
