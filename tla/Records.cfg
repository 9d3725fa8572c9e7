SPECIFICATION RecordsSpec
CONSTANTS
  Mobiles = {m1}
  Emails = {e1}
  NoKey = NoKey
  Sources = {s1, s2}
  Ingesters = {r1, r2}
  MaxIngests = 5
  MaxLost = 1
  c1 = c1
  c2 = c2
  Codes = {c1, c2, c3}
  NoCode = NoCode
  Existing <- MCExisting
  Clients = {r1, r2}
  Leads = {l1}
  Batches <- MCBatches
  MaxFileBytes = 2
  Quota = 3
  Cap = 2
  MaxAttempts = 2
  MaxAsked = 3
  MaxFailed = 1
  Listed = {p1}
  NoListing = NoListing
  Handlers = {r1, r2}
  Assignees = {a1}
  Nobody = Nobody
  MaxBuyers = 2
  MaxCalls = 5
  MaxDrops = 1
  a = a
  b = b
  A = A
  B = B
  MasterCodes = {a, b}
  Labels = {A, B}
  NoParent = NoParent
  Parents <- MCParents
  FirstRows <- MCFirstRows
  UnitNos = {1}
  Clerks = {r1, r2}
  MaxRows = 6
  MaxDesk = 3
  Files <- MCFiles
  FirstPlaces <- MCFirstPlaces
  Stubs <- MCStubs
  BatchSize = 2
  Nil = Nil
  Editors = {r1, r2}
  TypedLabels = {"O"}
  TypedParents <- MCTypedParents
  MaxImports = 2
  MaxEdits = 2
  Seekers = {r1, r2}
  SearchKeys = {"a", "b", "422001"}
  Pincodes = {"422001"}
  CacheMax = 2
  CacheTtl = 1
  MaxSearches = 4
  MaxTicks = 2
SYMMETRY Symmetry
INVARIANTS
  IngestionSound
  CodeNamesOneProperty
  HoldingsSound
  PublicIsReviewed
  SaleSettled
  MastersSound
  PlacesSound
  SearchSound
PROPERTIES
  ClosedStays
CHECK_DEADLOCK FALSE
