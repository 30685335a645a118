CONSTANTS
  Parts = {"store"}
  Jobs = {j1}
  Repeats = FALSE
  Uploads = {"one", "same", "other"}
  First = "one"
  MaxFileFaults = 1
  MaxKills = 0
  MaxEdits = 0
  QueueCapacity = 1
  RegistryCapacity = 2
  MaxFaults = 1
  MaxStarts = 2
  Stop = Stop
  Contents = {"x", "y"}
  FirstContent <- TwoContents
  StoreOf <- Objects
  Versions = {1, 2}
  DataRoots = {"data", "other"}
  MaxInvocations = 0
  Scopes = {"a", "b"}
  MaxChoices = 0
  MaxScopeChanges = 0
  MaxLostAnswers = 0
SPECIFICATION MCSpec
INVARIANT ReceiptHasBlob
CHECK_DEADLOCK FALSE
