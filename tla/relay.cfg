CONSTANTS
  Cards = {k1, k2}
  CidCards = {k1}
  Mixed = mixed
  None = none
  Variants = 4
  SwapMax = 2
SPECIFICATION FairSpec
INVARIANTS
  TypeOK
  AnswersItsOwn
  RunAgainOnlyRepaired
PROPERTY RelayReturns
