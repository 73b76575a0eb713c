--------------------------- MODULE MlfqScheduler ---------------------------
(***************************************************************************)
(* The scheduler of the MP3 project: NachOS's uniprocessor scheduler with  *)
(* three ready queues (L1 preemptive shortest-job-first, L2 by priority,   *)
(* L3 round robin) and aging, together with the thread operations, timer   *)
(* and interrupt handling that drive it.  Kernel code runs with interrupts *)
(* off and is atomic; a clock tick is one step that enters the interrupt   *)
(* handlers, each handler is a step, and leaving them is a step.           *)
(***************************************************************************)
EXTENDS Integers, Sequences, SequencesExt, FiniteSetsExt

CONSTANTS Thread, Main,
          InitPriority,       \* init_priority of each thread
          UserTick, SystemTick, TimerTicks,
          AGING_TICK,
          Unit,               \* fractions of a tick that burst times resolve
          MaxTicks            \* bound on totalTicks

ASSUME ThreadAssumption == Main \in Thread /\ InitPriority \in [Thread -> 0 .. 149]
ASSUME TickAssumption ==
    {UserTick, SystemTick, TimerTicks, AGING_TICK, Unit, MaxTicks} \subseteq Nat \ {0}

VARIABLES
    status, priority,          \* of each thread
    tick_cache,                \* when it became ready, was aged, or was run
    current_burst_time,        \* ticks it has run since it last waited
    remain_burst_time,         \* its predicted burst, in Units of a tick
    readyList,                 \* <<L1, L2, L3>>
    currentThread,
    level,                     \* are interrupts on
    inHandler, yieldOnReturn,
    idle,                      \* the machine is in IdleMode
    totalTicks, timer_at,      \* the clock, and when the timer is due
    \* History, read by no action:
    ready_at,                  \* when each thread last became ready
    ran,                       \* ticks it has run since it last waited
    timed                      \* the last timer interrupt

threads == <<status, priority, tick_cache, current_burst_time, remain_burst_time>>
cpu     == <<level, inHandler, yieldOnReturn, idle>>
clock   == <<totalTicks, timer_at>>
history == <<ready_at, ran, timed>>
vars    == <<threads, readyList, currentThread, cpu, clock, history>>

-----------------------------------------------------------------------------
\* SystemQueue::getLevel
LevelOf(p) == IF p < 50 THEN 3 ELSE IF p < 100 THEN 2 ELSE 1

IsEmpty == \A l \in 1 .. 3 : readyList[l] = <<>>

\* Mutant: a new element goes to the end.
InsertLast(q, t, greater) == Append(q, t)

\* SortedList::Insert: before the first element that compares greater than t.
Insert(q, t, greater) ==
    LET later == {i \in DOMAIN q : q[i] \in greater}
    IN  IF later = {} THEN Append(q, t) ELSE InsertAt(q, Min(later), t)

\* What is left of the predicted burst of a thread that is not running.
Remaining(remain, burst) == [t \in Thread |-> remain[t] - Unit * burst[t]]

\* SystemQueue::Append, for threads with priorities prio and remaining times
\* rem.  cmpRemainTime truncates the difference of two times to whole ticks,
\* so it takes times less than a tick apart for equal.
Enqueue(lists, t, prio, rem) ==
    LET longer == {u \in Thread : rem[t] + Unit <= rem[u]}
        lower  == {u \in Thread : prio[t] > prio[u]}
        l == LevelOf(prio[t])
    IN  [lists EXCEPT ![l] = CASE l = 1 -> Insert(@, t, longer)
                               [] l = 2 -> Insert(@, t, lower)
                               [] l = 3 -> Append(@, t)]

\* SystemQueue::RemoveFront takes from the first queue that is not empty.
FrontLevel == CHOOSE l \in 1 .. 3 :
                /\ readyList[l] # <<>>
                /\ \A k \in 1 .. l - 1 : readyList[k] = <<>>
NextThread == Head(readyList[FrontLevel])
RemoveFront == [readyList EXCEPT ![FrontLevel] = Tail(@)]

-----------------------------------------------------------------------------
Init == /\ status = [t \in Thread |-> IF t = Main THEN "RUNNING" ELSE "JUST_CREATED"]
        /\ priority = InitPriority
        /\ tick_cache = [t \in Thread |-> 0]
        /\ current_burst_time = [t \in Thread |-> 0]
        /\ remain_burst_time = [t \in Thread |-> 0]
        /\ readyList = [l \in 1 .. 3 |-> <<>>]
        /\ currentThread = Main
        /\ level = "IntOff"
        /\ inHandler = FALSE /\ yieldOnReturn = FALSE /\ idle = FALSE
        /\ totalTicks = 0 /\ timer_at = TimerTicks
        /\ ready_at = [t \in Thread |-> 0]
        /\ ran = [t \in Thread |-> 0]
        /\ timed = 0

\* The current thread executes kernel or user code.
Executing == ~inHandler /\ ~idle

\* Scheduler::ReadyToRun of a thread that is new or was waiting.
ReadyToRun(t) ==
    /\ status' = [status EXCEPT ![t] = "READY"]
    /\ tick_cache' = [tick_cache EXCEPT ![t] = totalTicks]
    /\ priority' = [priority EXCEPT ![t] = InitPriority[t]]
    /\ readyList' = Enqueue(readyList, t, priority',
                            Remaining(remain_burst_time, current_burst_time))
    /\ ready_at' = [ready_at EXCEPT ![t] = totalTicks]
    /\ UNCHANGED <<current_burst_time, remain_burst_time, ran, timed>>

\* OrderManager::leaveRun, of the current thread.
BurstSoFar == [current_burst_time EXCEPT ![currentThread] =
                 @ + totalTicks - tick_cache[currentThread]]

-----------------------------------------------------------------------------
\* Thread::Fork, called by the running thread, which keeps the CPU.
Fork(t) == /\ Executing
           /\ status[t] = "JUST_CREATED"
           /\ ReadyToRun(t)
           /\ level' = "IntOff"
           /\ UNCHANGED <<currentThread, inHandler, yieldOnReturn, idle, clock>>

\* The running thread wakes a waiting one (Semaphore::V and what uses it).
Wake(t) == /\ Executing
           /\ status[t] = "BLOCKED"
           /\ ReadyToRun(t)
           /\ level' = "IntOff"
           /\ UNCHANGED <<currentThread, inHandler, yieldOnReturn, idle, clock>>

\* Thread::Yield: the next thread is chosen before the old one is queued.
Yield ==
    IF IsEmpty
    THEN UNCHANGED <<threads, readyList, currentThread, history>>
    ELSE LET old == currentThread
             next == NextThread
         IN /\ status' = [status EXCEPT ![old] = "READY", ![next] = "RUNNING"]
            /\ tick_cache' = [tick_cache EXCEPT ![old] = totalTicks,
                                                ![next] = totalTicks]
            /\ current_burst_time' = BurstSoFar
            /\ priority' = [priority EXCEPT ![old] = InitPriority[old]]
            /\ readyList' = Enqueue(RemoveFront, old, priority',
                                    Remaining(remain_burst_time, BurstSoFar))
            /\ currentThread' = next
            /\ ready_at' = [ready_at EXCEPT ![old] = totalTicks]
            /\ UNCHANGED <<remain_burst_time, ran, timed>>

YieldCall == /\ Executing
             /\ Yield
             /\ level' = "IntOff"
             /\ UNCHANGED <<inHandler, yieldOnReturn, idle, clock>>

\* OrderManager::runToWait: the prediction is averaged with the last burst.
\* Bound: a prediction that needs a finer unit is not made.
Waited == IF BurstSoFar[currentThread] = 0
          THEN remain_burst_time
          ELSE [remain_burst_time EXCEPT ![currentThread] =
                  (Unit * BurstSoFar[currentThread] + @) \div 2]
ResolvesUnit == (Unit * BurstSoFar[currentThread]
                   + remain_burst_time[currentThread]) % 2 = 0

\* Mutant: readyToRun does not update tick_cache.
DispatchUntimed(statusNow, ticksNow) ==
    IF IsEmpty
    THEN /\ idle' = TRUE
         /\ status' = statusNow /\ tick_cache' = ticksNow
         /\ UNCHANGED <<readyList, currentThread>>
    ELSE /\ idle' = FALSE
         /\ status' = [statusNow EXCEPT ![NextThread] = "RUNNING"]
         /\ tick_cache' = ticksNow
         /\ readyList' = RemoveFront
         /\ currentThread' = NextThread

\* Scheduler::Run(next) out of Thread::Sleep, or no thread is ready: Idle.
\* A finished thread is destroyed as soon as the next one runs.
Dispatch(statusNow, ticksNow) ==
    IF IsEmpty
    THEN /\ idle' = TRUE
         /\ status' = statusNow /\ tick_cache' = ticksNow
         /\ UNCHANGED <<readyList, currentThread>>
    ELSE /\ idle' = FALSE
         /\ status' = [statusNow EXCEPT ![NextThread] = "RUNNING"]
         /\ tick_cache' = [ticksNow EXCEPT ![NextThread] = totalTicks]
         /\ readyList' = RemoveFront
         /\ currentThread' = NextThread

\* Thread::Sleep(FALSE)
Block ==
    /\ Executing
    /\ ResolvesUnit
    /\ remain_burst_time' = Waited
    /\ current_burst_time' = [current_burst_time EXCEPT ![currentThread] = 0]
    /\ Dispatch([status EXCEPT ![currentThread] = "BLOCKED"],
                [tick_cache EXCEPT ![currentThread] = totalTicks])
    /\ level' = "IntOff"
    /\ ran' = [ran EXCEPT ![currentThread] = 0]
    /\ UNCHANGED <<priority, inHandler, yieldOnReturn, clock, ready_at, timed>>

\* Thread::Finish
Finish ==
    /\ Executing
    /\ current_burst_time' = BurstSoFar
    /\ Dispatch([status EXCEPT ![currentThread] = "TERMINATED"],
                [tick_cache EXCEPT ![currentThread] = totalTicks])
    /\ level' = "IntOff"
    /\ UNCHANGED <<priority, remain_burst_time, inHandler, yieldOnReturn, clock, history>>

-----------------------------------------------------------------------------
\* Interrupt::OneTick up to the handlers; CheckIfDue calls them if any is due.
OneTick(ticks) ==
    /\ totalTicks + ticks <= MaxTicks
    /\ totalTicks' = totalTicks + ticks
    /\ ran' = [ran EXCEPT ![currentThread] = @ + ticks]
    /\ inHandler' = TRUE
    /\ level' = "IntOff"
    /\ UNCHANGED <<threads, readyList, currentThread, yieldOnReturn, idle,
                   timer_at, ready_at, timed>>

\* Interrupt::SetLevel(IntOn), and a user instruction.
Enable   == Executing /\ level = "IntOff" /\ OneTick(SystemTick)
UserStep == Executing /\ level = "IntOn"  /\ OneTick(UserTick)

\* Interrupt::Idle: the clock advances to the next interrupt, the timer's or a
\* device's.
Idle == /\ idle /\ ~inHandler
        /\ totalTicks' \in totalTicks + 1 .. timer_at
        /\ totalTicks' <= MaxTicks
        /\ inHandler' = TRUE
        /\ UNCHANGED <<threads, readyList, currentThread, level, yieldOnReturn,
                       idle, timer_at, history>>

\* OrderManager::aging of a ready thread.
Age(t) == (totalTicks - tick_cache[t]) \div AGING_TICK

\* Mutant: the comparison is the wrong way round.
ShouldPreemptSwapped(lists, prio) ==
    LET l == LevelOf(prio[currentThread])
        left == remain_burst_time[currentThread]
                  - Unit * BurstSoFar[currentThread]
        rem == Remaining(remain_burst_time, current_burst_time)
    IN  \/ l = 3
        \/ /\ lists[1] # <<>>
           /\ l = 2 \/ rem[Head(lists[1])] >= left + Unit

\* SystemQueue::ShouldPreempt, when the queues hold lists.
ShouldPreempt(lists, prio) ==
    LET l == LevelOf(prio[currentThread])
        left == remain_burst_time[currentThread]
                  - Unit * BurstSoFar[currentThread]
        rem == Remaining(remain_burst_time, current_burst_time)
    IN  \/ l = 3
        \/ /\ lists[1] # <<>>
           /\ l = 2 \/ left >= rem[Head(lists[1])] + Unit

\* One of its two loops, over the queue l: a thread that has left that level
\* moves to the queue of its new priority, the others keep their places.
Sweep(lists, l, prio, rem) ==
    FoldLeft(LAMBDA ls, t : IF LevelOf(prio[t]) = l
                            THEN [ls EXCEPT ![l] = Append(@, t)]
                            ELSE Enqueue(ls, t, prio, rem),
             [lists EXCEPT ![l] = <<>>], lists[l])

\* Mutant: no thread changes queue.
AgedInPlace(prio) == readyList

\* SystemQueue::Aging, when every ready thread has aged: L3, then L2.
Aged(prio) ==
    LET rem == Remaining(remain_burst_time, current_burst_time)
    IN  Sweep(Sweep(readyList, 3, prio, rem), 2, prio, rem)

\* Mutant: the rest of a period is lost.
AgedTickNow(t) == IF Age(t) > 0 THEN totalTicks ELSE tick_cache[t]

\* The priority and tick_cache that OrderManager::aging sets.
Older(t) == Min({priority[t] + 10 * Age(t), 149})
AgedTick(t) == tick_cache[t] + AGING_TICK * Age(t)

\* Timer::CallBack and Alarm::CallBack.
TimerInterrupt ==
    /\ inHandler /\ timer_at <= totalTicks
    /\ priority' = [t \in Thread |->
          IF status[t] = "READY" THEN Older(t) ELSE priority[t]]
    /\ tick_cache' = [t \in Thread |->
          IF status[t] = "READY" THEN AgedTick(t) ELSE tick_cache[t]]
    /\ readyList' = Aged(priority')
    /\ yieldOnReturn' = (yieldOnReturn
                           \/ (~idle /\ ShouldPreempt(readyList', priority')))
    /\ timer_at' = totalTicks + TimerTicks
    /\ timed' = totalTicks
    /\ UNCHANGED <<status, current_burst_time, remain_burst_time, currentThread,
                   level, inHandler, idle, totalTicks, ready_at, ran>>

\* A device's interrupt handler wakes the thread that waited for the device.
DeviceInterrupt(t) ==
    /\ inHandler /\ status[t] = "BLOCKED"
    /\ ReadyToRun(t)
    /\ UNCHANGED <<currentThread, cpu, clock>>

\* CheckIfDue returns to OneTick, which yields if a handler asked for it ...
ReturnFromInterrupt ==
    /\ inHandler /\ ~idle /\ timer_at > totalTicks
    /\ inHandler' = FALSE
    /\ yieldOnReturn' = FALSE
    /\ IF yieldOnReturn THEN Yield /\ level' = "IntOff"
       ELSE level' = "IntOn" /\ UNCHANGED <<threads, readyList, currentThread, history>>
    /\ UNCHANGED <<idle, clock>>

\* ... or to Idle, and Thread::Sleep looks for a ready thread again.
ReturnToSleep ==
    /\ inHandler /\ idle /\ timer_at > totalTicks
    /\ inHandler' = FALSE
    /\ Dispatch(status, tick_cache)
    /\ UNCHANGED <<priority, current_burst_time, remain_burst_time,
                   level, yieldOnReturn, clock, history>>

Next == \/ \E t \in Thread : Fork(t) \/ Wake(t) \/ DeviceInterrupt(t)
        \/ YieldCall \/ Block \/ Finish
        \/ Enable \/ UserStep \/ Idle
        \/ TimerInterrupt \/ ReturnFromInterrupt \/ ReturnToSleep

Spec == Init /\ [][Next]_vars

-----------------------------------------------------------------------------
Status == {"JUST_CREATED", "READY", "RUNNING", "BLOCKED", "TERMINATED"}

TypeOK == /\ status \in [Thread -> Status]
          /\ priority \in [Thread -> 0 .. 149]
          /\ tick_cache \in [Thread -> 0 .. MaxTicks]
          /\ current_burst_time \in [Thread -> 0 .. MaxTicks]
          /\ remain_burst_time \in [Thread -> 0 .. Unit * MaxTicks]
          /\ readyList \in [1 .. 3 -> Seq(Thread)]
          /\ currentThread \in Thread
          /\ level \in {"IntOn", "IntOff"}
          /\ {inHandler, yieldOnReturn, idle} \subseteq BOOLEAN
          /\ totalTicks \in 0 .. MaxTicks
          /\ timer_at \in 0 .. MaxTicks + TimerTicks

\* The places of t in the queues.
Queued(t) == UNION {{<<l, i>> : i \in {j \in DOMAIN readyList[l] : readyList[l][j] = t}} :
                    l \in 1 .. 3}

\* A thread is READY exactly when it is queued, once, in the queue of its
\* priority; only the current thread runs, and when no thread does the machine
\* idles on the stack of a thread that waits or has finished.  So every ASSERT
\* of Thread::setStatus, cmpRemainTime and List::Append holds.
QueuesHoldReady ==
    /\ \A t \in Thread : Cardinality(Queued(t)) = IF status[t] = "READY" THEN 1 ELSE 0
    /\ \A l \in 1 .. 3 : \A i \in DOMAIN readyList[l] :
          LevelOf(priority[readyList[l][i]]) = l
    /\ {t \in Thread : status[t] = "RUNNING"} = IF idle THEN {} ELSE {currentThread}

\* Aging is exact (OrderManager::aging): a thread that has been ready for k
\* whole periods, as of the last timer interrupt, has gained 10k on its initial
\* priority, at most 149; the rest of a period is never lost.
AgingIsExact ==
    \A t \in Thread : status[t] = "READY" =>
      LET k == IF timed < ready_at[t] THEN 0
               ELSE (timed - ready_at[t]) \div AGING_TICK
      IN  /\ priority[t] = Min({InitPriority[t] + 10 * k, 149})
          /\ tick_cache[t] = ready_at[t] + AGING_TICK * k

\* Every tick is charged to the thread that ran in it, whatever preempts it
\* (leaveRun, readyToRun): idle ticks and time spent ready to nobody.
TicksCharged ==
    \A t \in Thread : status[t] # "TERMINATED" =>
      ran[t] = current_burst_time[t]
                 + IF status[t] = "RUNNING" THEN totalTicks - tick_cache[t] ELSE 0

ReadyRemaining == Remaining(remain_burst_time, current_burst_time)

\* L1 is served shortest job first up to the truncation in cmpRemainTime: a
\* thread is never behind one that needs a whole tick more.
ShortestFirst ==
    \A i, j \in DOMAIN readyList[1] : i < j =>
      ReadyRemaining[readyList[1][i]] < ReadyRemaining[readyList[1][j]] + Unit

RunningLeft == remain_burst_time[currentThread] - Unit * BurstSoFar[currentThread]

\* Preemption (Alarm::CallBack with ShouldPreempt): a thread that was ready in
\* L1 at the last timer interrupt is not kept waiting by a running thread of
\* L2 or L3, nor by one of L1 that needs two ticks more.
PreemptsForL1 ==
    Executing => \A i \in DOMAIN readyList[1] :
      LET t == readyList[1][i] IN
        ready_at[t] < timed =>
          /\ LevelOf(priority[currentThread]) = 1
          /\ RunningLeft < ReadyRemaining[t] + 2 * Unit
=============================================================================
