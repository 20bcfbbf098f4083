SPECIFICATION Spec
CONSTANTS
  None = None
  Callers = {"caller"}
  Limit = 2
  Window = 3
  MaxTime = 7
  Accounts = {"u"}
  Tokens = {"t1", "t2"}
  Logins = {"l1", "l2"}
  Updates = {"h1", "h2"}
  NoUser = None
  MaxEra = 2
  Users = {"u1", "u2"}
  UserOrg <- MCUserOrg
  Rooms = {"r1", "r2"}
  Floors = {"f1", "f2"}
  Buildings = {"b1", "b2"}
  FloorOf <- MCFloorOf
  BuildingOf <- MCBuildingOf
  OrgOf <- MCOrgOf
  Items = {"i1", "i2"}
  ItemOrg <- MCItemOrg
  Devices = {"d"}
  NoOrg = None
  NoPlace = None
  MaxGrants = 2
  Reviewers = {"r1", "r2"}
  MaxDecisions = 3
  Acceptors = {"a1", "a2"}
  Snapshots = {"s1", "s2", "s3"}
  NoSnapshot = None
  Endpoints = {"e1", "e2", "e3"}
  Assets = {"a1", "a2"}
  NoAsset = None
  Linkers = {"l1", "l2"}
  MaxLinks = 3
  Computers = {"c1", "c2"}
  Sightings = {"s1", "s2"}
  Sweepers = {"w"}
  NoComputer = None
  StaleAfter = 1
  LastHour = 2
  Scans = {"s1", "s2", "s3"}
  Acceptances = {"a1", "a2"}
  Counts = {"few", "many"}
  MaxAccepted = 3
  Numbers = {"n1", "n2"}
  MaxQuantity = 2
  RoomNames = {"p1", "p2"}
  Files <- MCFiles
  NoValue = None
  Problems = {"p1", "p2"}
  RepeatAfter = 2
  LastTime = 3
  Retention = 3
  LocalRetention = 1
  MaxDay = 6
INVARIANTS
  PartsTypeOK
  LimitIsExact
  LockoutHolds
  ListsMatchPages
  GrantsReachDown
  OneActiveBaseline
  ScansHaveImages
  BaselineStands
  DecisionsStand
  LinksStand
  ImportSettles
  RecurrenceAlerts
  BackupsLast
  OneUploader
  RemovalCanUndo
PROPERTIES
  ReportsShow
CHECK_DEADLOCK FALSE
