SPECIFICATION Spec
CONSTANTS
  SdAlg <- MCSdAlg
  Disclosures <- MCDisclosures
  KBs <- MCKBs
  Values <- MCValues
  Texts <- MCTexts
  Provided <- MCProvided
  Cosigners <- MCCosigners
  Selections <- MCSelections
  MaxSignatures = 3
INVARIANTS
  TypeOK
  ReadsBack
  ReadersAgree
  StaysBound
PROPERTIES
  NothingAdded
