SPECIFICATION Spec
CONSTANTS
  Sizes <- MCSizes
  Widths <- MCWidths
  Indexes <- MCIndexes
  Values <- MCValues
  ListSizes <- MCListSizes
  MaxTokens = 1
INVARIANTS
  TypeOK
  ChecksExact
  SetIsRead
PROPERTY PackedTable
