SPECIFICATION SupplySpec
CONSTANTS
  Part = {"issuance", "catalog", "composition", "preparation", "audit", "evidence"}
  rootA = rootA
  rootB = rootB
  keyA = keyA
  keyB = keyB
  keyI = keyI
  keyM = keyM
  Saver = {saverA, saverB}
  Reader = {readerA}
  Trust <- mcTrust
  Transition <- mcTransition
  Offer <- mcOffer
  Reported = {"v1", "not_reported"}
  MaxDocuments = 2
  MaxClock = 4
  MaxSetBacks = 1
  Absent = Absent
  Role <- mcRole
  Ceremony = {ceremonyA, ceremonyB}
  Module = "app"
  Source = "pds"
  Wheel <- mcWheel
  OtherReleases <- mcOtherReleases
  Validity = 2
  MaxByHand = 2
  MaxIssues = 3
  Component = {"core", "omr", "view", "write"}
  Catalogs <- mcCatalogs
  MaxRounds = 4
  Removed = 0
  NoReview = NoReview
  Preparer = {preparerA, preparerB}
  Candidate = {candidateA, candidateB}
  Base = baseline
  MaxChanges = 1
  PriorReplaced = TRUE
  Nobody = Nobody
  Auditor = {auditorA}
  AuditKind = {"catalog", "journal", "acceptance", "contracts", "publisher", "provider", "witness"}
  wheel1 = wheel1
  site1 = site1
  runtime1 = runtime1
  native1 = native1
  formGood = formGood
  formOther = formOther
  WheelFile = {wheel1}
  SiteFile = {site1}
  RuntimeFile = {runtime1}
  NativeFile = {native1}
  Form <- mcForm
  Foreign = formForeign
  Composition <- mcComposition
  MaxAltered = 2
  MaxHead = 2
  NoAudit = NoAudit
  MaxReviews = 2
  Worker = {workerA}
  Window = 1
  Skew = 1
  Retention = 2
  Budget = 1
  MaxSecond = 3
  MaxUpsets = 2
  NoStatement = NoStatement
INVARIANTS
  SupplyTypeOK
  IssuedReleaseStands
  CompositionStands
  
  
PROPERTIES
  CatalogStands
  PreparationStands
CHECK_DEADLOCK FALSE
