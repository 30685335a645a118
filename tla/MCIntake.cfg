CONSTANTS
  Parts = {"jobs", "store", "package", "panel"}
  Jobs = {j1, j2, j3}
  Repeats = FALSE
  Uploads = {"one", "same"}
  First = "none"
  MaxFileFaults = 2
  MaxKills = 1
  MaxEdits = 1
  QueueCapacity = 1
  RegistryCapacity = 2
  MaxFaults = 1
  MaxStarts = 2
  Stop = Stop
  Contents = {"x", "y"}
  FirstContent <- TwoContents
  StoreOf <- Objects
  Versions = {1, 2}
  DataRoots = {"data", "other"}
  MaxInvocations = 3
  Scopes = {"a", "b"}
  MaxChoices = 1
  MaxScopeChanges = 1
  MaxLostAnswers = 1
SPECIFICATION MCFairSpec
INVARIANTS
  UploadsAreAccounted
  ReceiptHasBlob
  FailureLeavesNothing
  CodeSurvives
  ToldIsTrue
  LateAnswersAreDropped
PROPERTIES
  ShownIsFinal
  EveryJobEnds
  OpenBatchIsFollowed
CHECK_DEADLOCK FALSE
