SPECIFICATION Spec
CONSTANTS
  Name <- MCName
  Key <- MCKey
  Party <- MCParty
  Nonce <- MCNonce
  Disclosed <- MCDisclosed
  MaxTime = 0
  Configs <- MCConfigs
  Claims <- MCClaims
  Options <- MCOptions
  Frames <- MCFrames
  Requests <- MCRequests
  MaxIssuers = 1
  MaxIssued = 1
INVARIANT ReservedStaysVisible
