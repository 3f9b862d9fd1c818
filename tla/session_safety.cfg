CONSTANTS
  StorageKinds = {type2, type5}
  Type4 = type4
  NoTag = noTag
  Seqs = {s1, s2}
  NoSeq = noSeq
  Apdus = {slow, select}
  SlowApdus = {slow}
  FidoSelects = {select}
  MaxSegments = 3
  MaxChunks = 3
  ClockMod = 4
  Defer = 1
SPECIFICATION FairSpec
INVARIANTS
  TypeOK
  SessionConsistent
  ChainsBelongToSession
  DispatchedApduIsWhole
  TimeExtensionBound
  DeferredRemovalIsBrief
  HostKnowsCard
PROPERTIES
  AbortLatchHeld
  CollectedResponseIsWhole
  AbortedApduIsDropped
  SlotChangesAlternate
  ImplementsSlot
  DeferredRemovalCompleted
