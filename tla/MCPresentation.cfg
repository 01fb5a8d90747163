SPECIFICATION MCSpec
CONSTANTS
  Node <- MCNode
  Root = "root"
  Name <- MCName
  Digest <- MCDigest
  Alg = {"sha-256", "sha-512", "md5"}
  Supported = {"sha-256", "sha-512"}
  DefaultAlg = "sha-256"
  Value <- MCValue
  Hole <- MCHole
  Words <- MCWords
  CnfValue = "key"
  Requests <- MCRequests
  Required <- MCRequired
INVARIANTS
  TypeOK
  HolderSeesAll
  PresentableKeysExact
  MissingExact
PROPERTY PromiseKept
\* The life of one SD-JWT ends with its verification.
CHECK_DEADLOCK FALSE
