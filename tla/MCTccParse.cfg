SPECIFICATION ParseSpec
CONSTANTS
  TickUs = 6
  RefUs = 48
  RefValues = 8
  SmallMax = 1
  ShortValues = 16
  IntValues = 128
  LongValues = 16384
  SymbolsInChunk = 2
  SeqValues = 16
  Seqs = {3, 13, 14, 15}
  Times <- MCTimes
  FbCounts = {0}
  FieldSpace = 12
  MaxPackets = 3
  Foreign <- MCForeign
INVARIANTS ReaderInStep ArrivalsReported FieldFits ReadsInMessage AnnouncedReported
CHECK_DEADLOCK FALSE
