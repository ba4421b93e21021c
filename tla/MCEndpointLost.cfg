SPECIFICATION EndpointSpec
CONSTANTS
  Boot = Boot
  Thread = {t1, t2}
  RawIntents = {}
  MaxPreempt = 0
  Preemptive = TRUE
  Endpoints = {e1}
  Msg = {m1, m2}
  NULL = NULL
  MaxTag = 1
INVARIANT NoLostWakeup
