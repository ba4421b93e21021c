SPECIFICATION FairSpec
CONSTANTS
  Boot = Boot
  Thread = {t1, t2, t3}
  RawIntents = {0}
  MaxPreempt = 0
  Preemptive = TRUE
PROPERTIES NoStarvation
