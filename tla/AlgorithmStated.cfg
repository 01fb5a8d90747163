SPECIFICATION Spec
CONSTANTS
  Name <- MCName
  Key <- MCKey
  Party <- MCParty
  Nonce <- MCNonce
  Credentials <- MCCredentials
  Options <- MCOptions
  Sessions <- MCSessions
  Disclosed <- MCDisclosed
  MaxTime = 2
  Skew = 1
  MaxKBs = 1
INVARIANT AlgorithmStated
