SPECIFICATION RingSpec
CONSTANTS
  Thread = {t1, t2, t3, t4}
  NULL = NULL
INVARIANT LinkMeansQueued
PROPERTY ImplementsFifo
