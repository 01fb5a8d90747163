SPECIFICATION Spec
CONSTANTS
  Name <- MCName
  Key <- MCKey
  Party <- MCParty
  Nonce <- MCNonce
  Disclosed <- MCDisclosed
  MaxTime = 2
  Sizes <- MCSizes
  Widths <- MCWidths
  Indexes <- MCIndexes
  Values <- MCValues
  ListSizes <- MCListSizes
  MaxTokens = 1
  Issuers <- MCIssuers
  Claims <- MCClaims
  Options <- MCOptions
  Frames <- MCFrames
  Requests <- MCRequests
  MaxIssued = 1
INVARIANT SkewIsAllowed
