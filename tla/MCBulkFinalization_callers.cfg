CONSTANTS
  Batches = {"b1"}
  EntriesOf <- TwoBatches
  CandidateOf <- MCCandidateOf
  Requests = {R1, R2}
  R1 = R1
  R2 = R2
  R3 = R3
  Asks <- RetryAndOther
  QueueCapacity = 1
  ReceiptFields <- AllFields
  LinkedFields <- AllFields
  Tamperable = {"e1"}
  OthersConfirm = {"e2"}
  MaxRestarts = 1
  MaxFaults = 0
  Callers = {W, p}
  Worker = W
  W = W
  Candidates = {"e1", "e2"}
  Jobs = {"e1", "e2"}
  JobOf <- MCJobOf
  SourceOf <- MCSourceOf
  MaterialOf <- MCSameMaterial
  LoadOf <- MCLoadOf
  None = None
SPECIFICATION FairSpec
INVARIANTS
  CompletedIsInLong
PROPERTIES
  TamperedIsNotLoaded
  EveryCommandEnds
