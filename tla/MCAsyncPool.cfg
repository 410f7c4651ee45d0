CONSTANTS
  Threads = {http, peer}
  Runners = {loop}
  MaxTasks = 2
  NoHandle = NoHandle
SPECIFICATION Spec
INVARIANTS
  HandleLifetime
PROPERTIES
  ImplementsTaskQueue
  HandlesReclaimed
CHECK_DEADLOCK FALSE
