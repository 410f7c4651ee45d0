CONSTANTS
  Packets <- Full
  Foreign <- MCForeign
  Zero <- MCZero
  Residue <- LikeRR
  MaxPackets = 3
  Base = 4
  MaxSize = 4
  SecUs = 10
  FracValues = 128
  NtpValues = 16
  EpochOffset = 7
  EarliestTime = 20
SPECIFICATION MCSpec
INVARIANTS
  WritesInBuffer
  CompoundRecovered
  TimestampInverts
  ReadsBack
PROPERTIES
  HeadersInDatagram
