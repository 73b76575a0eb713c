CONSTANTS
  Thread = {t1, t2, t3}
  Item = {a, b}
  buffer_size = 2
  NoItem = NoItem
  NoThread = NoThread
  SpuriousWakeups = TRUE
SPECIFICATION Spec
INVARIANTS
  MutualExclusion
  RingConsistent
  NoLostWakeup
PROPERTY
  ImplementsFifo
\* Every thread may be blocked for good: all of them calling dequeue on an
\* empty queue.
CHECK_DEADLOCK FALSE
