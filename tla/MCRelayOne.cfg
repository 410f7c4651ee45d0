CONSTANTS
  Publishers = {pub, pub2}
  Players = {play}
  NoStream = NoStream
  Refused = {pub2}
  MaxBufs = 4
SPECIFICATION Spec
INVARIANTS
  BuffersSound
  SoleOwner
  MediaConserved
  CallbackTargetAlive
  AdvertisedPortOpen
PROPERTY ImplementsMediaRelay
CHECK_DEADLOCK FALSE
