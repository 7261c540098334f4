SPECIFICATION Spec
CONSTANTS
  init = init
  a = a
  b = b
  Task <- MCTwoTasks
  InitTask = init
  NoTask = NoTask
  Pids <- MCTwoPids
  MaxMsgs = 2
  PollRequests <- MCSelfAndParent
  HZ = 100
  IntHalf = 512
  Timeouts <- MCTimeouts
  Signalled = {}
  MaySleep = {"kmalloc"}
INVARIANT NoLostWakeup
