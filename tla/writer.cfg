CONSTANTS
  Tags2 = {n1, s1}
  Tags4 = {c1}
  Tags5 = {v1}
  Versioned = {n1}
  Formatted = {s1}
  None = None
  AtSetup = {None}
  Attempts = 2
  StableSamples = 2
  Units = 2
  NoiseMax = 1
  SwapMax = 3
  MessageMax = 2
SPECIFICATION Spec
INVARIANTS LengthTellsMessage SuccessIsWhole OneWritePerPlacement
CHECK_DEADLOCK FALSE
