SPECIFICATION Spec
CONSTANTS
  init = init
  a = a
  b = b
  Task <- MCTask
  InitTask = init
  NoTask = NoTask
  Pids <- MCPids
  MaxMsgs = 2
  PollRequests <- MCSelfAndParent
  HZ = 100
  IntHalf = 512
  Timeouts <- MCShortTimeouts
  Signalled = {}
  MaySleep = {"copy_from_user", "copy_to_user", "copy_mm"}
SYMMETRY Slots
INVARIANTS
  
  NoLostWakeup
  
PROPERTY NobodyTakesMessages
