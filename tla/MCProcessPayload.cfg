SPECIFICATION MCSpec
CONSTANTS
  Node <- MCNode
  Root = "root"
  Name <- MCName
  Digest <- MCDigest
  Alg <- MCAlg
  Supported <- MCSupported
  DefaultAlg = "sha-256"
INVARIANTS
  TypeOK
  VerdictExact
  ResultExact
  SignedClaimsKept
  ClaimsAreCommitted
  NoUnusedDisclosure
  VisitsOnce
