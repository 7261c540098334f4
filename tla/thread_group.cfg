SPECIFICATION Spec
CONSTANTS
  swapper = swapper
  init = init
  a = a
  b = b
  c = c
  Task <- MCThreeTasks
  Swapper = swapper
  Reaper = init
  NoTask = NoTask
  Options = {"normal"}
  Signals = {"SIGCHLD"}
  Flags <- MCThreadFlags
  Traceable = {}
  Kernel = {}
  Faulting = {}
SYMMETRY ThreePermuted
INVARIANTS
  ParentsLive
PROPERTY NoExitMissed
