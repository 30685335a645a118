CONSTANTS
  Parts = {"review"}
  Callers = {p1, p2}
  Candidates = {first, second, changed, partial, shelved}
  First = first
  Second = second
  Changed = changed
  Partial = partial
  Shelved = shelved
  Jobs = {"first", "second", "partial", "shelved"}
  JobOf <- MCJobOf
  SourceOf <- MCSourceOf
  MaterialOf <- MCMaterialOf
  LoadOf <- MCLoadOf
  MaxFaults = 2
  None = None
  Within = q1
  Results = {q1, q2, q3}
  Reviewers = {u1}
  Commands = {c1}
  Targets = {"VALID"}
  Reasons = {"why"}
  MaxRequests = 3
  ChainLimit = 2
  Evidence <- MCEvidence
  Identity <- MCIdentity
  Masters <- MCMasters
  MasterRevisions = {1, 2}
  MaxEdits = 2
  Left = {}
  Right = {}
  StatusFilters <- MCFilters
  Screens = {"a", "b"}
  Pairs = {"p"}
  MaxChanges = 1
  MaxVisits = 1
  MaxStrays = 1
SYMMETRY Interchangeable
SPECIFICATION MCSpec
INVARIANT ExactRetryReplays
CHECK_DEADLOCK FALSE
