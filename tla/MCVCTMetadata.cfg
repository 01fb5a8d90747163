SPECIFICATION Spec
CONSTANTS
  Documents <- MCDocuments
  NumberText <- MCNumberText
INVARIANTS
  TypeOK
  RulesExact
  LinesKeepRules
CHECK_DEADLOCK FALSE
