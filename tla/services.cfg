SPECIFICATION ServicesSpec
CONSTANTS
  Founder = a3
  Jobs = {1, 2}
  Keys = {a1, a2}
  Workers = {b1, b2}
  NoKey = NoKey
  MaxPending = 1
  MaxCrashes = 1
  Users = {a1, a2, a3}
  Requests = {b1, b2}
  NoUser = NoUser
  Free = Free
  SignIns = {a1, a2}
  MaxTokens = 3
  Clients = {b1, b2}
  IdleTtl = 2
  AbsoluteTtl = 3
  RotationAge = 1
  LastSecond = 3
  Processes = {a1, a2}
  Readers = {b1, b2}
  MaxWrites = 2
  Callers = {a1, a2}
  Limit = 2
  WindowSeconds = 2
  MaxSeconds = 3
  RowIds = {1, 2, 3}
  MaxInstant = 2
  PerMilli = 2
  PageSize = 1
  MaxPages = 3
  Admins = {a1, a2}
  Deliveries = {delivery}
  Derived = Derived
  First = First
  Nobody = Nobody
  Tolerance = 1
  MaxTime = 3
  Snapshots <- GivenSnapshots
  Imports <- GivenImports
  DeliveryKeys = {a1, a2}
  Senders = {b1, b2}
  NoSender = NoSender
  Persons = {person}
  Ids = {a1, a2}
  Accepts = {b1, b2}
  Sends = {sender}
  NoOne = NoOne
  MaxJoins = 2
  Gates = {a1, a2}
  Instances = {instance}
  Releases = {1, 2}
  NoHolder = NoHolder
  Queries = {"q1", "q2"}
  Bare = "bare"
  Preset = "q1"
  Openable = {"r1"}
  Nothing = "none"
  MaxVersion = 3
  Files <- GivenFiles
  Bodies <- GivenBodies
  MaxRows = 2
  MaxQuantity = 4
  SafeInteger = 3
  Wide = 7
  PerMillisecond = 2
  ProductTables <- GivenTables
  Unreadable = {"odd"}
  Catalogue <- SampleOrders
  Questions <- SampleQuestions
  DayRange = 1
  WeekRange = 3
  Week = 2
  Month = 4
SYMMETRY Symmetry
VIEW Moving
INVARIANTS
  IdempotentEnqueue
  FencedClaims
  AlwaysAnOwner
  OneSessionPerSignIn
  RevocationIsFinal
  NoStaleAnswer
  WindowBound
  RowsOnceUnlessBlurred
  AcceptedWasCurrent
  HandedSecretWorks
  EffectPerReceipt
  OnlyProductsDeadlock
  InvitationAdmitsOnce
  ReportAddsUp
  AcceptedIsStoredWhole
  SalesShowsAddress
  ServesOnCompleteSchema
PROPERTIES
  ImplementsDurableJob
  AuthorityAtCommit
  LifetimesHold
CHECK_DEADLOCK FALSE
