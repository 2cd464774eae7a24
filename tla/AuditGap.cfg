SPECIFICATION Spec
CONSTANTS
  Requests = {h1}
  TxIds = {t1}
  alice = alice
  admin = admin
  delete = delete
  r7 = r7
  r8 = r8
  Users <- MCUsers
  Roles <- MCRoles
  Tools <- MCTools
  DestructiveTools <- MCTools
  Records <- MCRecords
  NoRecord = noRecord
  NoText = noText
  NoName = noName
  NoCall = noCall
  Nobody = nobody
  Texts <- TwoTexts
  UseGraph = TRUE
  Seed <- MCSeed
  Attempts <- MCAttempts
  Faults <- ClientFaults
  MaxCrashes = 1
INVARIANTS
  ForwardedCallIsLogged
