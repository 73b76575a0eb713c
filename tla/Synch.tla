------------------------------- MODULE Synch -------------------------------
(***************************************************************************)
(* Semaphores and locks of the NachOS kernel (threads/synch.cc), and the   *)
(* calls kernel threads make of the services built on them.  Semaphore::P  *)
(* and V run with interrupts off and are one step each; between them a     *)
(* thread may lose the processor before any statement.  The kernel itself  *)
(* preempts only where interrupts are switched on again, so its schedules  *)
(* are among those checked here.  A thread that waits in a semaphore's     *)
(* queue has no step; every other thread may run.                          *)
(***************************************************************************)
EXTENDS Naturals, Sequences

CONSTANTS Thread,    \* the kernel threads
          NoThread   \* lockHolder == NULL

ASSUME ThreadAssumption == NoThread \notin Thread

VARIABLES sem,      \* the value and the queue of each named semaphore
          holder,   \* lockHolder of each lock; its semaphore has its name
          pc,       \* the next statement of each thread
          cur,      \* the call it is making, with the argument
          got       \* what the call returns

synchVars == <<sem, holder>>
callVars  == <<cur, got>>

-----------------------------------------------------------------------------
\* The object Semaphore: value and queue.
NewSemaphore(initialValue) == [value |-> initialValue, queue |-> <<>>]

Asleep(s, t) == \E i \in DOMAIN s.queue : s.queue[i] = t

\* The body of the loop of P, once: sleep at the end of the queue, or take
\* the value and return.  A thread that V woke comes back to the test, and
\* another thread may have taken the value before it.
Down(s, t) == IF s.value = 0 THEN [s EXCEPT !.queue = Append(@, t)]
                             ELSE [s EXCEPT !.value = @ - 1]

\* Mutant: V hands the value to the thread it wakes, which tests it again.
UpByWaking(s) == IF s.queue = <<>> THEN [s EXCEPT !.value = @ + 1]
                                   ELSE [s EXCEPT !.queue = Tail(@)]

\* V makes the first thread of the queue ready and increments the value.
Up(s) == [value |-> s.value + 1,
          queue |-> IF s.queue = <<>> THEN <<>> ELSE Tail(s.queue)]

-----------------------------------------------------------------------------
\* A test of P by thread t on the named semaphore; P returns to `next`.
P(t, name, next) ==
    /\ ~ Asleep(sem[name], t)
    /\ sem' = [sem EXCEPT ![name] = Down(@, t)]
    /\ pc'  = IF sem[name].value = 0 THEN pc ELSE [pc EXCEPT ![t] = next]

V(name) == sem' = [sem EXCEPT ![name] = Up(@)]

\* Lock::Acquire.  Only the owner compares itself with lockHolder, so that
\* the assignment is part of the step in which P returns.
Acquire(t, lock, next) ==
    /\ P(t, lock, next)
    /\ holder' = IF sem[lock].value = 0 THEN holder
                                        ELSE [holder EXCEPT ![lock] = t]

\* Lock::Release: lockHolder is cleared, then the semaphore is posted.
Disown(t, lock) == holder' = [holder EXCEPT ![lock] = NoThread]

HeldByCurrentThread(t, lock) == holder[lock] = t

\* Statement order of a thread: from `this` to `next`.
At(t, this)   == pc[t] = this
Goto(t, next) == pc' = [pc EXCEPT ![t] = next]

\* The call returns x to its caller.
Returns(t, x) == got' = [got EXCEPT ![t] = x]
=============================================================================
