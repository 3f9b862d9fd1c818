CONSTANTS
  short = short
  long = long
  Apdus <- MCApdus
  Parts <- MCParts
  Mixed = mixed
  None = none
  AnswerMax = 3
  RspCap = 2
  NakMax = 2
SPECIFICATION FairSpec
INVARIANT TypeOK
PROPERTIES
  IsApduExchange
  ExchangeEnds
