CONSTANTS
  Channels = {"edge"}
  Trials = {"pr"}
  First = "edge"
  MaxPush = 1
  MaxFaults = 1
  MaxBoots = 3

SPECIFICATION Spec
INVARIANTS
  TypeOK
  QuietInStep
PROPERTIES
  HomeIsKept
  DownloadsBehave
