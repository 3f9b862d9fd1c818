SPECIFICATION Spec
CONSTANTS
  a = a
  b = b
  c = c
  None = None
  Tags2 = {a, b}
  Tags5 = {c}
  Nxp = {a}
  ReadOpen = {a, b, c}
  WriteOpen = {a, c}
  Area <- MCArea
  CcBlocks <- MCCcBlocks
  Blocks <- MCBlocks
  Units = 6
  Cc = 1
  MaxPage = 4
  ReadPages = 2
  MultipleMax = 2
  LeMax = 3
  Attempts = 3
  LcMax = 3
  SwapMax = 3
INVARIANTS TypeOK UpdateInOrder AnswerFromOneTag
