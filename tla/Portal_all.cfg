CONSTANTS
  Codes = {c1, c2}
  Handlers = {h1, h2}
  Names = {"words", "sites"}
  Offers <- SomeOffers
  MaxDevices = 2
  MaxDocs = 2
  MaxBundles = 2
  MaxLocal = 1
  MaxPortalFaults = 1

SPECIFICATION FairPortal
INVARIANTS
  ListsInStep
  
 
CHECK_DEADLOCK FALSE
