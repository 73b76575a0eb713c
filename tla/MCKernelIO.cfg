SPECIFICATION Spec
CONSTANTS
    t1 = t1
    t2 = t2
    t3 = t3
    a = a
    b = b
    x = x
    y = y
    f = f
    g = g
    Thread = {t1, t2, t3}
    NoThread = NoThread
    Item = {a, b}
    NoItem = NoItem
    NumSectors = 6
    SectorsPerTrack = 3
    RotationTime = 2
    SeekTime = 3
    Blank = Blank
    Pauses = {0, 1, 3}
    Char = {a, b, EOF}
    EOF = EOF
    Content = {x, y}
    NumOpen = 3
    Existing <- MCExisting
    Workload <- MCWorkload
    Input <- MCInput
INVARIANTS
    AssertionsHold
    NoLostSignal
    ConsoleStreams
PROPERTIES
    ImplementsFifo
    ImplementsStore
    ImplementsUnixButDeparts
    LatencyIsMechanical
    CallsReturn
\* Every call may have returned, or wait for an item or a keystroke that
\* never comes.
CHECK_DEADLOCK FALSE
