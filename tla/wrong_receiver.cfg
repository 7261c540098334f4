SPECIFICATION Spec
CONSTANTS
  init = init
  a = a
  b = b
  Task <- MCTask
  InitTask = init
  NoTask = NoTask
  Pids <- MCSparePids
  MaxMsgs = 1
  PollRequests <- MCSelfAndParent
  HZ = 100
  IntHalf = 512
  Timeouts <- MCShortTimeouts
  Signalled = {}
  MaySleep = {"copy_from_user"}
INVARIANT OnlyAddressee
