SPECIFICATION Spec
CONSTANTS
  init = init
  a = a
  b = b
  c = c
  Task <- MCTask
  InitTask = init
  NoTask = NoTask
  Null = Null
  Object <- MCObject
  Flags <- MCFlags
  Fails = {"files", "fs", "sig", "mm", "kernel_namespace"}
  Kernel = {a}
  max_threads = 3
INVARIANTS
  TypeOK
  CountsAgree
  MmCounted
  ChargesAgree
  VforkEnds
 
