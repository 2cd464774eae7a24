SPECIFICATION FairSpec
CONSTANTS
  Requests = {h1, h2}
  TxIds = {t1, t2}
  alice = alice
  admin = admin
  delete = delete
  r7 = r7
  r8 = r8
  Users <- MCUsers
  Roles <- MCRoles
  Tools <- MCTools
  DestructiveTools <- MCTools
  Records <- MCRecords
  NoRecord = noRecord
  NoText = noText
  NoName = noName
  NoCall = noCall
  Nobody = nobody
  Texts <- TwoTexts
  UseGraph = TRUE
  Seed <- MCSeed
  Attempts <- MCAttempts
  Faults <- ServiceFaults
  MaxCrashes = 1
INVARIANTS
  RecheckWithinWindow
  IInv
  LogIsComplete
  RowAndAuditAgree
PROPERTIES
  ApprovedSettles
  EveryClickAnswered
