SPECIFICATION Spec
CONSTANTS
    t1 = t1
    t2 = t2
    Thread <- Threads
    ByteBits = 2
    JumpRegion = 64
    Scenario <- SrlScenarios
    SysResult <- Results
PROPERTY SrlIsLogical
\* Every thread may have exited.
CHECK_DEADLOCK FALSE
