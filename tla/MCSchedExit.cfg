SPECIFICATION Spec
CONSTANTS
  Thread = {t1, t2}
  Boot = Boot
  RawIntents = {}
  MaxPreempt = 0
  Preemptive = TRUE
INVARIANTS ExitedIsDead
