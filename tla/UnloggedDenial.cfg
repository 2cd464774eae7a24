SPECIFICATION Spec
CONSTANTS
  TxIds = {c1}
  Requests = {}
  alice = alice
  bob = bob
  admin = admin
  read = read
  delete = delete
  r7 = r7
  Users <- MCUsers
  Roles <- MCRoles
  Tools <- MCTools
  DestructiveTools <- MCDestructive
  Records <- MCRecords
  NoRecord = noRecord
  NoText = noText
  NoCall = noCall
  Nobody = nobody
  NoName = noName
  NoOne = noOne
  Maps <- MCMaps
  Texts <- MCTexts
  UseGraph = TRUE
  Seed <- MCSeed
  Attempts <- MCAttempts
  Asks <- MCAsks
  SlackOn = FALSE
  Faults <- NoFaults
  MaxCrashes = 0
INVARIANTS
  DecisionsAreLogged
