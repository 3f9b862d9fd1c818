CONSTANTS
  StorageKinds = {type2}
  Type4 = type4
  NoTag = noTag
  Seqs = {s1, s2}
  NoSeq = noSeq
  Apdus = {slow, select}
  SlowApdus = {slow}
  FidoSelects = {select}
  MaxSegments = 2
  MaxChunks = 3
  ClockMod = 4
  Defer = 1
SPECIFICATION Spec
PROPERTY NoTimeExtensionBeforeAtr
