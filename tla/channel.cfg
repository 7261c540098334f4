SPECIFICATION Spec
CONSTANTS
  init = init
  a = a
  b = b
  Task <- MCTask
  InitTask = init
  NoTask = NoTask
  Pids <- MCPids
  Message <- MCMessage
SYMMETRY Slots
INVARIANTS
  WaitsForNothingThere
  UnregisteredHasNothing
