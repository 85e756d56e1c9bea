SPECIFICATION PlatformSpec
CONSTANTS
  Organizations = {a, b}
  Connections = {c1, c2}
  Callers = {k1, k2}
  Tables = {"channels", "orders", "payment_summaries"}
  MaxRows = 2
  Absent = Absent
  Carried <- GivenProofs
  MaxTries = 2
  MaxChanges = 1
  Users = {1, 2, 3}
  MaxClients = 3
  WebOrganizations = {1, 2}
  MaxLoads = 2
  MaxAccounts = 1
  Targets = {1}
  MaxCalls = 2
  MaxReads = 3
  MonthDays = 1
  LeapYears = {1}
  ShortDays = 2
  LongDays = 4
  MaxRange = 13
  Days = {15, 16, 17, 24, 25, 26}
  Typed = {0, 12, 15, 25, 99}
  NotADate = 99
  OrderSnapshots <- GivenOrderSnapshots
  Policies <- GivenPolicies
  Locations = {"north"}
  Zone <- GivenZone
  Unassigned = "nowhere"
  Day = 2
  DateRanges <- GivenDates
  MaxStock = 1
  MaxAcknowledged = 2
  MaxMinutes = 3
SYMMETRY Symmetry
VIEW Moving
INVARIANTS
  TenantsApart
  ActsWithAuthority
  AnswersTellTheEffect
  ShownTogether
  PageTellsItsChanges
  PeriodsHold
  OneConnection
  OverviewReconciles
CHECK_DEADLOCK FALSE
