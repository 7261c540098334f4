SPECIFICATION Spec
CONSTANTS
  init = init
  a = a
  b = b
  Task <- MCTask
  InitTask = init
  NoTask = NoTask
  Pids <- MCPids
  MaxMsgs = 1
  PollRequests <- MCSelfAndParent
  HZ = 100
  IntHalf = 512
  Timeouts <- MCShortTimeouts
  Signalled = {init}
  MaySleep = {"copy_to_user", "copy_mm"}
INVARIANTS
  NoLeak
  OnlyAddressee
PROPERTY ChannelSpec
