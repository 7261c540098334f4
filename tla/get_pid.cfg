SPECIFICATION Spec
CONSTANTS
  init = init
  a = a
  b = b
  c = c
  Task <- MCTask
  InitTask = init
  NoTask = NoTask
  PID_MAX = 5
  Reserved = 2
SYMMETRY Slots
INVARIANTS
  TypeOK
  
  
PROPERTIES
  FreshPid
  GivesUpWhenFull
  SearchProgresses
