CONSTANTS
  Users = {u1, u2}
  Guest = guest
  Web = {"strict", "floor"}
  Latin = {"kids"}
  Labels = {"kids", "hebrew"}
  Kinds <- TwoKinds
  AdminKind <- Floor
  MaxCrash = 1
  MaxCalls = 6
  Faults <- AllFaults

SPECIFICATION Spec
INVARIANTS
  AdministratorRemains
  
  MembersFollow
 
SYMMETRY UserSymmetry
CHECK_DEADLOCK FALSE
