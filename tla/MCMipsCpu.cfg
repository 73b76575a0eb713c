SPECIFICATION Spec
CONSTANTS
    t1 = t1
    t2 = t2
    Thread <- Threads
    ByteBits = 2
    JumpRegion = 64
    Scenario <- Scenarios
    SysResult <- Results
INVARIANT KernelSeesLoads
PROPERTY ImplementsMips
\* Every thread may have exited, and an exception ends NachOS.
CHECK_DEADLOCK FALSE
