SPECIFICATION CtxSpec
CONSTANTS
  Boot = Boot
  Thread = {t1, t2, t3}
  RawIntents = {4}
  MaxPreempt = 1
  Preemptive = FALSE
SYMMETRY Symmetry
INVARIANT ResumesWhereItStopped
