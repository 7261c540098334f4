SPECIFICATION Spec
CONSTANTS
  init = init
  a = a
  b = b
  c = c
  Task <- MCFourTasks
  InitTask = init
  NoTask = NoTask
  Null = Null
  Object <- MCObject
  Flags <- MCThreadsOnly
  Fails = {}
  Kernel = {}
  max_threads = 3
INVARIANT ThreadsBounded
