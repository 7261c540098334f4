SPECIFICATION LiveSpec
CONSTANTS
  init = init
  a = a
  b = b
  Task <- MCTwoTasks
  InitTask = init
  NoTask = NoTask
  Pids <- MCTwoPids
  MaxMsgs = 3
  PollRequests <- MCSelfAndParent
  HZ = 100
  IntHalf = 512
  Timeouts <- MCTimeouts
  Signalled = {init, a}
  MaySleep = {"copy_from_user", "copy_to_user", "kmalloc"}
INVARIANTS
  TypeOK
  FifoPerSender
  ReceiveHoldsFirst
  ReportSound
  PollListInUse
PROPERTY PollReturns
