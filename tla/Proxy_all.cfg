CONSTANTS
  Things = {"photo", "bare", "clip"}
  Truth <- SomeTruth
  Partly <- SomePartly
  Workers = 1
  SlowWindow = 1
  Frames = 1
  Flows = {f1, f2}
  Urls = {"pic", "vid"}
  Pages = {"page"}
  PageLevels = {"clean", "immodest"}
  Policies <- AllPolicies
  SourceOf <- NoSource
  ClipsAt <- OneClip
  Tiny = {}
  Moving = {}
  Thumbs = {}
  Shapes = {"whole", "piece"}
  MaxPool = 1
  MaxTurns = 1

SPECIFICATION FairSpec
INVARIANTS
  TypeOK
  NothingPastItsLevel
  OneJudgementPerClip

PROPERTY HeldIsAnswered
CHECK_DEADLOCK FALSE
