CONSTANTS
  Publishers = {pub}
  Players = {play1, play2}
  NoStream = NoStream
  Refused = {}
  MaxBufs = 2
SPECIFICATION Spec
INVARIANT BuffersSound
CHECK_DEADLOCK FALSE
