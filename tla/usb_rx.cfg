CONSTANTS
  EP = 4
  Header = 2
  MaxPayload = 7
  Ids = {1, 2}
  Sizes <- MCSizes
  Lengths <- MCLengths
  Idle = idle
  Mixed = mixed
SPECIFICATION FairSpec
INVARIANTS
  TypeOK
  ValidFrameIsOneCommand
PROPERTIES
  PendingFrameUntouched
  EveryTransferYieldsOneFrame
  ShortPacketResynchronises
  EndpointArmedAgain
