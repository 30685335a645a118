CONSTANTS
  Batches = {"b1"}
  EntriesOf <- OneBatch
  CandidateOf <- MCCandidateOf
  Requests = {R1}
  R1 = R1
  R2 = R2
  R3 = R3
  Asks <- RetryAndConflict
  QueueCapacity = 1
  ReceiptFields <- AllFields
  LinkedFields <- StoredFields
  Tamperable = {"e1"}
  OthersConfirm = {}
  MaxRestarts = 0
  MaxFaults = 0
  Callers = {W}
  Worker = W
  W = W
  Candidates = {"e1", "e2"}
  Jobs = {"e1", "e2"}
  JobOf <- MCJobOf
  SourceOf <- MCSourceOf
  MaterialOf <- MCMaterialOf
  LoadOf <- MCLoadOf
  None = None
SPECIFICATION Spec
INVARIANTS
  UntamperedIsNotRefused
