SPECIFICATION Spec
CONSTANTS
  CNTFRQ = 100
  CONFIG_TICK_HZ = 100
  Items = {i1, i2, i3}
  NULL = NULL
  RX_FIFO = 2
  POLL_MAX = 2
  ClientCmds <- MCClientCmds
  MaxTyped = 3
  IDX = 3
  MetaSectors <- MCMetaSectors
  sectorsPerFAT = 1
  Machines <- MCMachines
INVARIANTS
  WorkInOrder
  
  TrueMeansDone
  OnlyTheLogWindowTearsASector
PROPERTY
  EveryInputIsServed
