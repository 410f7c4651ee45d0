CONSTANTS
  Threads = {http}
  Runners = {poolThread, serverThread}
  MaxTasks = 2
  NoHandle = NoHandle
SPECIFICATION Spec
INVARIANT LoopSerial
CHECK_DEADLOCK FALSE
