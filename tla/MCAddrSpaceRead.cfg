CONSTANTS
  t1 = t1
  t2 = t2
  t3 = t3
  t4 = t4
  Thread = {t1, t2, t3, t4}
  NoThread = NoThread
  Missing = Missing
  Program <- Programs
  PageSize = 2
  NumPhysPages = 7
  UserStackSize = 1
SPECIFICATION Spec
INVARIANT
  ReadFillsBuffer
\* Every thread may have finished, and the simulator may have aborted.
CHECK_DEADLOCK FALSE
