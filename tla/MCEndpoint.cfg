SPECIFICATION EndpointSpec
CONSTANTS
  Boot = Boot
  Thread = {t1, t2, t3}
  RawIntents = {}
  MaxPreempt = 0
  Preemptive = TRUE
  Endpoints = {e1}
  Msg = {m1, m2}
  NULL = NULL
  MaxTag = 2
SYMMETRY Symmetry
INVARIANTS EndpointTypeOK  WaiterIsWaiting OnlyTheWindowLosesWakeups
PROPERTIES ImplementsChannel
