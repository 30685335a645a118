CONSTANTS
  Batches = {"b1"}
  EntriesOf <- OneBatch
  CandidateOf <- MCCandidateOf
  Requests = {R1, R2, R3}
  R1 = R1
  R2 = R2
  R3 = R3
  Asks <- Retries
  QueueCapacity = 1
  ReceiptFields <- AllFields
  LinkedFields <- AllFields
  Tamperable = {}
  OthersConfirm = {}
  MaxRestarts = 1
  MaxFaults = 1
  Callers = {W}
  Worker = W
  W = W
  Candidates = {"e1", "e2"}
  Jobs = {"e1", "e2"}
  JobOf <- MCJobOf
  SourceOf <- MCSourceOf
  MaterialOf <- MCSameMaterial
  LoadOf <- MCLoadOf
  None = None
SPECIFICATION Spec
SYMMETRY Interchangeable
INVARIANTS
  CommandIsSettled
PROPERTIES
  IntentIsKept
