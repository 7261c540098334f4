SPECIFICATION Spec
CONSTANTS
  swapper = swapper
  init = init
  a = a
  b = b
  c = c
  Task <- MCTask
  Swapper = swapper
  Reaper = init
  NoTask = NoTask
  Options = {"normal", "__WCLONE", "__WALL"}
  Signals = {"SIGCHLD", "other"}
  Flags <- MCFlags
  Traceable <- MCSlots
  Kernel <- MCSlots
  Faulting = {}
SYMMETRY Permuted
INVARIANTS
  TypeOK
  SiblingsAgree
  TaskListWhole
  
PROPERTY NoExitMissed
