CONSTANTS
  Requests = {r1, r2}
  Files = {"x", "y"}
  KeyOf <- OwnKey
  SupplierOf <- OneSupplier
  FilesOf <- PairAndCopies
  Readings <- LotReadings
  HoldOutcomes = {"MAPPING_REQUIRED"}
  QueueCapacity = 1
  RetryLimit = 3
  Tamperable <- NoEntries
  Poison <- PairFirst
  MaxFaults = 0
  MaxRestarts = 1
  None = None
  Pair = r1
SPECIFICATION FairSpec
INVARIANTS
  OneReadyPerLot
PROPERTY EveryBatchFinishes
