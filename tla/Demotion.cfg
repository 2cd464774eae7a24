SPECIFICATION DemotionSpec
CONSTANTS
  TxIds = {c1}
  Requests = {h1}
  alice = alice
  admin = admin
  read = read
  delete = delete
  r7 = r7
  r8 = r8
  Users <- MCUsers
  Roles <- MCRoles
  Tools <- MCTools
  DestructiveTools <- MCDestructive
  Records <- MCRecords
  Stock <- MCRecords
  NoRecord = noRecord
  NoText = noText
  NoCall = noCall
  Nobody = nobody
  NoName = noName
  NoOne = noOne
  Maps <- MCMaps
  Texts <- OneText
  UseGraph = TRUE
  Seed <- MCSeed
  Attempts <- MCAttempts
  Asks <- Deletes
  SlackOn = FALSE
  Faults <- NoFaults
  MaxCrashes = 0

PROPERTIES
  RecheckSeesDemotion
