CONSTANTS
  EP = 3
  Ids = {1, 2}
  MessageSizes = {2, 3, 4, 6, 8}
  None = none
SPECIFICATION TxSpec
INVARIANT TxTypeOK
PROPERTIES
  CompletedReadsAreMessages
  SuccessLeavesNothing
