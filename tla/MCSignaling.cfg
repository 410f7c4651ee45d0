CONSTANTS
  Threads = {t1, t2}
  PostOffers <- MCPostOffers
  PlayOffers <- MCPlayOffers
  LoopNum = 2
  IndexValues = 4
  FirstPort = 3
  PortValues = 5
  IdValues = 16
  MaxConns = 3
SPECIFICATION Spec
SYMMETRY Perms
INVARIANTS
  PortsDistinct
  LoopsInTurn
  StreamWhole
  AnswerNamesStream
  ExtensionAgreed
  FailureLeavesNoTrace
CHECK_DEADLOCK FALSE
