SPECIFICATION CtxSpec
CONSTANTS
  Boot = Boot
  Thread = {t1, t2}
  RawIntents = {}
  MaxPreempt = 0
  Preemptive = TRUE
INVARIANT ResumesWhereItStopped
