CONSTANTS
  Size = 4
  U16Values = 5
  MaxExtSeq = 9
SPECIFICATION Spec
INVARIANTS
  TypeOK
  TotalLostExact
  LoopExit
  NoFalseLoss
  LossesRecent
  NoMissedLoss
PROPERTY CallReturns
