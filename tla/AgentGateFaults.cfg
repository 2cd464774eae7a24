SPECIFICATION GateSpec
CONSTANTS
  TxIds = {c1, c2}
  Requests = {h1}
  alice = alice
  admin = admin
  read = read
  delete = delete
  r7 = r7
  r8 = r8
  Users <- MCUsers
  Roles <- MCRoles
  Tools <- MCTools
  DestructiveTools <- MCDestructive
  Records <- MCRecords
  Stock <- MCRecords
  NoRecord = noRecord
  NoText = noText
  NoCall = noCall
  Nobody = nobody
  NoName = noName
  NoOne = noOne
  Maps <- MCMaps
  Texts <- OneText
  UseGraph = TRUE
  Seed <- MCSeed
  Attempts <- MCAttempts
  Asks <- MCAsks
  SlackOn = FALSE
  Faults <- SomeFaults
  MaxCrashes = 1
SYMMETRY Symmetry
CONSTRAINT GraphBound
INVARIANTS
  GateTypeOK
  GateInv
  EveryCallAccounted
PROPERTIES
  RecordsGoByApproval
  ClicksAreExecutor
  ChecksAreAuthz
