SPECIFICATION FairSpec
CONSTANTS
  TxIds = {t1}
  Requests = {h1}
  alice = alice
  admin = admin
  delete = delete
  r7 = r7
  Users <- MCUsers
  Roles <- MCRoles
  Tools <- MCTools
  DestructiveTools <- MCTools
  Records <- MCRecords
  NoRecord = noRecord
  NoText = noText
  NoName = noName
  NoCall = noCall
  Nobody = nobody
  Texts <- MCTexts
  UseGraph = TRUE
  Seed <- MCSeed
  Attempts <- MCAttempts
  Faults <- MCFaults
  Refreshes = {p1, p2}
  PageLimit = 1
  DefaultLimit = 1
  MaxLimit = 2
  MaxChanges = 2
INVARIANTS
  TypeOK
  PanelsInv
PROPERTIES
  PanelsAreRecent
  CatchesUp
