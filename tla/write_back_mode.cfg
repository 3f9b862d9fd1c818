CONSTANTS
  UriMax = 8
  TextMax = 6
  BodyMax = 34
  ShortMax = 38
  MessageMax = 42
  DecodeMax = 12
  Str1Max = 8
  Str2Max = 6
  SsidMax = 2
  PskMin = 2
  PskMax = 3
  MacOctets = 2
  RecordsMax = 4
  TotalMax = 60
  OneByteMax = 20
  Byte <- MCByte
  Octets = {"AA", "BB", "FE"}
  Escape <- MCEscape
  Tier <- MCTier
  St25tnLastPage = 13
  St25tnFallback = 7
  GroupPages = 4
  ChunkBlocks = 6
  MinMlen = 2
  MlenOverflow = 9
  Cc4Len = 15
  Cc4Max = 23
  MleMin = 5
  ReadMax = 20
  UpdateMax = 16
  BufMax = 60
  ScanMax = 52
  HostBytes <- FewLines
  SentMax = 2
  HexMessages <- MCHexMessages
  HwMax = 2
  RingCap = 8
  ScanCap = 5
  LineCap = 11
  Late = FALSE
  Tags <- MCTags
  NoTag = noTag
  Messages = {}
  Lines <- MCLines
SPECIFICATION Spec
PROPERTY ModeSwitchOnlyOnModeLine
CHECK_DEADLOCK FALSE
