SPECIFICATION SlackSpec
CONSTANTS
  Requests = {h1, h2}
  TxIds = {t1}
  alice = alice
  admin = admin
  delete = delete
  r7 = r7
  Users <- MCUsers
  Roles <- MCRoles
  Tools <- MCTools
  DestructiveTools <- MCTools
  Records <- MCRecords
  NoRecord = noRecord
  NoText = noText
  NoName = noName
  NoCall = noCall
  Nobody = nobody
  Texts <- OneText
  UseGraph = TRUE
  Seed <- MCSeed
  Attempts <- MCAttempts
  Faults <- SomeFaults
  MaxCrashes = 1
  Posts <- MCPosts
  SecretIsSet = TRUE
SYMMETRY Symmetry
INVARIANTS
  SlackTypeOK
  SlackInv
  AnswersAreTrue
  OneVerdictPerCall
