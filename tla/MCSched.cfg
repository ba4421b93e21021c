SPECIFICATION Spec
CONSTANTS
  Boot = Boot
  Thread = {t1, t2, t3}
  RawIntents = {1, 4}
  MaxPreempt = 1
  Preemptive = TRUE
SYMMETRY Symmetry
INVARIANTS TypeOK QueuesExact NoThreadLost OneRunning NoPanic ExpiryPending
PROPERTIES NoOvertaking
