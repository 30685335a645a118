CONSTANTS
  Requests = {r1, r2}
  Files = {"x"}
  KeyOf <- RetryKey
  SupplierOf <- OneSupplier
  FilesOf <- TwoCopies
  Readings <- OneReading
  HoldOutcomes = {"MAPPING_REQUIRED"}
  QueueCapacity = 1
  RetryLimit = 3
  Tamperable <- FirstEntries
  Poison <- FirstEntries
  MaxFaults = 1
  MaxRestarts = 1
  None = None
  Pair = None
SYMMETRY Interchangeable
SPECIFICATION Spec
INVARIANTS
  AcceptedFileIsKept
  ReceiptProvesUpload
  DispatchedOnce
  VerdictIsExact
  OneBatchPerKey
PROPERTIES
  IntakePromise
