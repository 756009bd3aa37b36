SPECIFICATION MCSpec
CONSTANTS
  Nil = Nil
  Routes <- ThreeRoutes
  Grantable = {"order_read", "invoice_read"}
  MaxSession = 2
  MaxRevision = 1
  MaxHistory = 2
  MaxPosted = 1
  Rows = {1, 2, 3, 4}
  Matching = {2, 3}
  PageRows = 1
  MaxPages = 2
  MaxGeneration = 2
  Broken = {"two lines"}
  LineLimit = 2
  MostLines = 3
  Sizes <- TextSizes
  MaxMoney = 9
  MaxPrice = 5
  MaxDays = 9
  Now = 3
  Person = "p"
  MaxDue = 4
  MaxQuoted = 3
  MaxDamage = 2
  Void = Void
  p1 = p1
  p2 = p2
  d1 = d1
  d2 = d2
  n1 = n1
  n2 = n2
  People <- TwoPeople
  Devices <- TwoDevices
  Usernames <- TwoNames
  Settings = {"currency"}
  Values = {"a"}
  Rights <- WorkRights
  Modules <- SmallModules
  CoreModules = {"administration", "orders"}
  Requires <- SmallRequires
  Table <- SmallTable
  Administering <- AdministrationOps
  MaxLogins = 2
  MaxContexts = 1
  Workflows = {"payment_take", "order_to_jobs"}
  Needed <- SmallNeeded
  RequestKeys = {1, 2, 3}
  Request <- SmallRequests
  MaxRuns = 2
SYMMETRY Interchangeable
INVARIANTS
  WindowOfTheQuery
  
  SavedRecordsOpen
  ButtonsWork
  Governed
  ContextsExpire
PROPERTIES
  CommandsSound
  ShellSound
CHECK_DEADLOCK FALSE
