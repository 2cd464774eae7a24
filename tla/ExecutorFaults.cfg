SPECIFICATION Spec
CONSTANTS
  Requests = {h1, h2}
  TxIds = {t1}
  alice = alice
  admin = admin
  delete = delete
  r7 = r7
  r8 = r8
  Users <- MCUsers
  Roles <- MCRoles
  Tools <- MCTools
  DestructiveTools <- MCTools
  Records <- MCRecords
  NoRecord = noRecord
  NoText = noText
  NoName = noName
  NoCall = noCall
  Nobody = nobody
  Texts <- FaultyTexts
  UseGraph = TRUE
  Seed <- MCSeed
  Attempts <- MCAttempts
  Faults <- AllFaults
  MaxCrashes = 2
SYMMETRY Symmetry
INVARIANTS
  TypeOK
  OneCallPerApproval
  CallsAreAuthorised
  RecordsTellTruth
PROPERTIES
  ImplementsApproval
