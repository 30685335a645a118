CONSTANTS
  Requests = {r1, r2, r3}
  Files = {"x", "y"}
  KeyOf <- OwnKey
  SupplierOf <- OneSupplier
  FilesOf <- SameFile
  Readings <- OneReading
  HoldOutcomes = {"MAPPING_REQUIRED"}
  QueueCapacity = 1
  RetryLimit = 3
  Tamperable <- NoEntries
  Poison <- NoEntries
  MaxFaults = 1
  MaxRestarts = 0
  None = None
  Pair = None
SYMMETRY Interchangeable
SPECIFICATION Spec
INVARIANTS
  SameBytesAreLabelled
