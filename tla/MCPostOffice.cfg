SPECIFICATION Spec
CONSTANTS
    m0 = m0
    m1 = m1
    u1 = u1
    u2 = u2
    v1 = v1
    w0 = w0
    w1 = w1
    Thread = {u1, u2, v1, w0, w1}
    NoThread = NoThread
    Machine = {m0, m1}
    Home <- MCHome
    Worker <- MCWorker
    Box = {0, 1}
    Workload <- MCWorkload
    NoMail = NoMail
    MaxStarts = 3
INVARIANTS
    InOrderOrLost
    SignalsMatch
PROPERTIES
    MailArrives
\* Every call may have returned, or wait for mail that was lost, and
\* machines are started a bounded number of times.
CHECK_DEADLOCK FALSE
