CONSTANTS
  Parts = {"template", "specs", "bindings", "register", "judge", "load"}
  Revisions = {1, 2, 3}
  LastDay = 3
  Clients = {c1, c2}
  Periods <- MCPeriods
  None = None
  Administrators = {c1, c2}
  Items = {"item", "other"}
  Specs = {"spec"}
  Bindings = {"binding"}
  ItemOf <- MCItemOf
  Declared <- MCDeclared
  Registrars = {c1, c2}
  Receipts = {"plain", "retitled", "undated", "longer"}
  WorkbookOf <- MCWorkbookOf
  Selections <- MCSelections
  Scopes = {"scope", "other"}
  MaxTemplates = 2
  Loaders = {l1}
  IntakeOf <- MCIntakeOf
  OfferedBindings <- MCOffered
SPECIFICATION MCSpec
SYMMETRY Interchangeable
INVARIANTS
  AuditTellsAll
  CatalogsTellAll
  AmbiguityIsTold
  PendingRowsAreBound
  LoadedWasTrue
PROPERTIES
  EffectivePromise
  PromisesToReaders
CHECK_DEADLOCK FALSE
