CONSTANTS
  main = main
  t1 = t1
  t2 = t2
  Thread = {main, t1, t2}
  Main = main
  InitPriority <- AcrossLevels
  UserTick = 1
  SystemTick = 2
  TimerTicks = 3
  AGING_TICK = 2
  Unit = 2
  MaxTicks = 8
SPECIFICATION Spec
INVARIANTS
  QueuesHoldReady
  AgingIsExact
  TicksCharged
  ShortestFirst
  PreemptsForL1
\* The clock is bounded, and every thread may have finished.
CHECK_DEADLOCK FALSE
