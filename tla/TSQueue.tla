------------------------------ MODULE TSQueue ------------------------------
(***************************************************************************)
(* The thread-safe bounded queue of the Pthread project (ts_queue.hpp): a  *)
(* ring buffer behind one mutex and two condition variables.  Every        *)
(* statement of enqueue and dequeue that touches shared memory is a step   *)
(* of its own, so the model depends on the mutex as much as the code does. *)
(***************************************************************************)
EXTENDS Integers, Sequences, FiniteSets

CONSTANTS Thread,          \* the threads that share the queue
          Item,            \* the values they enqueue
          buffer_size,     \* the capacity given to the constructor
          NoItem,          \* content of a slot `new T[]` left uninitialised
          NoThread,        \* the mutex is free
          SpuriousWakeups  \* whether pthread_cond_wait may return unsignalled

ASSUME BufferAssumption == buffer_size \in Nat \ {0}
ASSUME ValueAssumption  == NoItem \notin Item /\ NoThread \notin Thread
ASSUME WakeupAssumption == SpuriousWakeups \in BOOLEAN

VARIABLES buffer, size, head, tail,  \* the members of the same names
          mutex,                     \* the thread that holds it, or NoThread
          cond_enqueue,              \* threads blocked on "there is room"
          cond_dequeue,              \* threads blocked on "there is an item"
          pc,                        \* the next statement of each thread
          reg                        \* its local: `item` or `ret`

vars == <<buffer, size, head, tail, mutex, cond_enqueue, cond_dequeue, pc, reg>>
ring == <<buffer, size, head, tail>>
conds == <<cond_enqueue, cond_dequeue>>

Index == 0 .. buffer_size - 1

\* The slot i places after slot h, going round the buffer.
Slot(h, i) == (h + i) % buffer_size

EnqueueCritical == {"e_test", "e_put", "e_size", "e_signal", "e_unlock"}
DequeueCritical == {"d_test", "d_take", "d_size", "d_signal", "d_unlock"}
Critical == EnqueueCritical \cup DequeueCritical
Outside  == {"idle", "e_lock", "e_wait", "d_lock", "d_wait"}

-----------------------------------------------------------------------------
Init == /\ buffer = [i \in Index |-> NoItem]
        /\ size = 0
        /\ head = buffer_size - 1
        /\ tail = 0
        /\ mutex = NoThread
        /\ cond_enqueue = {}
        /\ cond_dequeue = {}
        /\ pc = [t \in Thread |-> "idle"]
        /\ reg = [t \in Thread |-> NoItem]

Goto(t, from, to) == pc[t] = from /\ pc' = [pc EXCEPT ![t] = to]

\* pthread_mutex_lock returns: the thread holds the free mutex.
Acquire(t) == mutex = NoThread /\ mutex' = t

\* pthread_cond_signal unblocks one of the waiting threads, if there is one.
Signal(waiting, waitingNext) ==
    IF waiting = {} THEN waitingNext = {}
    ELSE \E w \in waiting : waitingNext = waiting \ {w}

-----------------------------------------------------------------------------
CallEnqueue(t, x) == /\ Goto(t, "idle", "e_lock")
                     /\ reg' = [reg EXCEPT ![t] = x]
                     /\ UNCHANGED <<ring, mutex, conds>>

EnqueueLock(t) == /\ Goto(t, "e_lock", "e_test")
                  /\ Acquire(t)
                  /\ UNCHANGED <<ring, conds, reg>>

\* pthread_cond_wait: the mutex is released and the thread blocks, at once.
EnqueueWait(t) == /\ size = buffer_size
                  /\ Goto(t, "e_test", "e_wait")
                  /\ cond_enqueue' = cond_enqueue \cup {t}
                  /\ mutex' = NoThread
                  /\ UNCHANGED <<ring, cond_dequeue, reg>>

EnqueueProceed(t) == /\ size # buffer_size
                     /\ Goto(t, "e_test", "e_put")
                     /\ UNCHANGED <<ring, mutex, conds, reg>>

\* Mutant: `if (size == buffer_size)` for the loop.
EnqueueWokenNoTest(t) == /\ t \notin cond_enqueue
                         /\ Goto(t, "e_wait", "e_put")
                         /\ Acquire(t)
                         /\ UNCHANGED <<ring, conds, reg>>

\* An unblocked thread takes the mutex again before pthread_cond_wait
\* returns, and then tests the loop's condition again.
EnqueueWoken(t) == /\ t \notin cond_enqueue
                   /\ Goto(t, "e_wait", "e_test")
                   /\ Acquire(t)
                   /\ UNCHANGED <<ring, conds, reg>>

EnqueuePut(t) == /\ Goto(t, "e_put", "e_size")
                 /\ buffer' = [buffer EXCEPT ![tail] = reg[t]]
                 /\ tail' = Slot(tail, 1)
                 /\ UNCHANGED <<size, head, mutex, conds, reg>>

EnqueueSize(t) == /\ Goto(t, "e_size", "e_signal")
                  /\ size' = size + 1
                  /\ UNCHANGED <<buffer, head, tail, mutex, conds, reg>>

\* Mutant: signal only when the queue stops being empty.
EnqueueSignalFirst(t) == /\ Goto(t, "e_signal", "e_unlock")
                         /\ IF size = 1 THEN Signal(cond_dequeue, cond_dequeue')
                                        ELSE UNCHANGED cond_dequeue
                         /\ UNCHANGED <<ring, mutex, cond_enqueue, reg>>

EnqueueSignal(t) == /\ Goto(t, "e_signal", "e_unlock")
                    /\ Signal(cond_dequeue, cond_dequeue')
                    /\ UNCHANGED <<ring, mutex, cond_enqueue, reg>>

EnqueueUnlock(t) == /\ Goto(t, "e_unlock", "idle")
                    /\ mutex' = NoThread
                    /\ reg' = [reg EXCEPT ![t] = NoItem]
                    /\ UNCHANGED <<ring, conds>>

-----------------------------------------------------------------------------
CallDequeue(t) == /\ Goto(t, "idle", "d_lock")
                  /\ UNCHANGED <<ring, mutex, conds, reg>>

\* Mutant: dequeue without pthread_mutex_lock.
DequeueUnlocked(t) == /\ Goto(t, "d_lock", "d_test")
                      /\ UNCHANGED <<ring, mutex, conds, reg>>

DequeueLock(t) == /\ Goto(t, "d_lock", "d_test")
                  /\ Acquire(t)
                  /\ UNCHANGED <<ring, conds, reg>>

DequeueWait(t) == /\ size = 0
                  /\ Goto(t, "d_test", "d_wait")
                  /\ cond_dequeue' = cond_dequeue \cup {t}
                  /\ mutex' = NoThread
                  /\ UNCHANGED <<ring, cond_enqueue, reg>>

DequeueProceed(t) == /\ size # 0
                     /\ Goto(t, "d_test", "d_take")
                     /\ UNCHANGED <<ring, mutex, conds, reg>>

DequeueWoken(t) == /\ t \notin cond_dequeue
                   /\ Goto(t, "d_wait", "d_test")
                   /\ Acquire(t)
                   /\ UNCHANGED <<ring, conds, reg>>

\* Mutant: the item is read before the head moves.
DequeueTakeFirst(t) == /\ Goto(t, "d_take", "d_size")
                       /\ head' = Slot(head, 1)
                       /\ reg' = [reg EXCEPT ![t] = buffer[head]]
                       /\ UNCHANGED <<buffer, size, tail, mutex, conds>>

DequeueTake(t) == /\ Goto(t, "d_take", "d_size")
                  /\ head' = Slot(head, 1)
                  /\ reg' = [reg EXCEPT ![t] = buffer[head']]
                  /\ UNCHANGED <<buffer, size, tail, mutex, conds>>

DequeueSize(t) == /\ Goto(t, "d_size", "d_signal")
                  /\ size' = size - 1
                  /\ UNCHANGED <<buffer, head, tail, mutex, conds, reg>>

DequeueSignal(t) == /\ Goto(t, "d_signal", "d_unlock")
                    /\ Signal(cond_enqueue, cond_enqueue')
                    /\ UNCHANGED <<ring, mutex, cond_dequeue, reg>>

DequeueUnlock(t) == /\ Goto(t, "d_unlock", "idle")
                    /\ mutex' = NoThread
                    /\ reg' = [reg EXCEPT ![t] = NoItem]
                    /\ UNCHANGED <<ring, conds>>

-----------------------------------------------------------------------------
\* POSIX lets pthread_cond_wait return without a signal.
SpuriousWakeup(t) == /\ SpuriousWakeups
                     /\ t \in cond_enqueue \cup cond_dequeue
                     /\ cond_enqueue' = cond_enqueue \ {t}
                     /\ cond_dequeue' = cond_dequeue \ {t}
                     /\ UNCHANGED <<ring, mutex, pc, reg>>

\* The statements of a call in progress.
Enqueuing(t) == \/ EnqueueLock(t)   \/ EnqueueWait(t) \/ EnqueueProceed(t)
                \/ EnqueueWoken(t)  \/ EnqueuePut(t)  \/ EnqueueSize(t)
                \/ EnqueueSignal(t) \/ EnqueueUnlock(t)

Dequeuing(t) == \/ DequeueLock(t)   \/ DequeueWait(t) \/ DequeueProceed(t)
                \/ DequeueWoken(t)  \/ DequeueTake(t) \/ DequeueSize(t)
                \/ DequeueSignal(t) \/ DequeueUnlock(t)

Next == \E t \in Thread : \/ \E x \in Item : CallEnqueue(t, x)
                          \/ CallDequeue(t)
                          \/ Enqueuing(t)
                          \/ Dequeuing(t)
                          \/ SpuriousWakeup(t)

Spec == Init /\ [][Next]_vars

-----------------------------------------------------------------------------
TypeOK == /\ buffer \in [Index -> Item \cup {NoItem}]
          /\ size \in 0 .. buffer_size
          /\ head \in Index
          /\ tail \in Index
          /\ mutex \in Thread \cup {NoThread}
          /\ cond_enqueue \in SUBSET Thread
          /\ cond_dequeue \in SUBSET Thread
          /\ pc \in [Thread -> Outside \cup Critical]
          /\ reg \in [Thread -> Item \cup {NoItem}]

(***************************************************************************)
(* The statement the thread inside the critical section is at.  Between    *)
(* moving an index and changing size, the two disagree by one slot, and    *)
(* get_size(), which takes no lock, may read size in between.              *)
(***************************************************************************)
Phase == IF mutex = NoThread THEN "free" ELSE pc[mutex]

\* The slots the indices claim to be occupied.
Occupied == CASE Phase = "e_size" -> size + 1
              [] Phase = "d_size" -> size - 1
              [] OTHER            -> size

\* The queued items, oldest first.
Fifo == LET first == IF Phase = "d_size" THEN 0 ELSE 1
        IN  [i \in 1 .. size |-> buffer[Slot(head, first + i - 1)]]

\* At most one thread executes between lock and unlock in ts_queue.hpp, and
\* a thread blocked on a condition variable is at that pthread_cond_wait.
MutualExclusion ==
    /\ \A t \in Thread : pc[t] \in Critical <=> mutex = t
    /\ \A t \in cond_enqueue : pc[t] = "e_wait"
    /\ \A t \in cond_dequeue : pc[t] = "d_wait"

\* The ring never overflows, underflows or loses its place: at every
\* statement head, tail and size describe the same run of slots, the item on
\* its way in or out is the one at that end of the run, and what dequeue
\* returns is an item somebody enqueued, never an uninitialised slot.
RingConsistent ==
    /\ Occupied \in 0 .. buffer_size
    /\ tail = Slot(head, Occupied + 1)
    /\ Phase = "e_size" => buffer[Slot(head, Occupied)] = reg[mutex]
    /\ Phase = "d_size" => buffer[head] = reg[mutex]
    /\ Phase \in {"d_size", "d_signal", "d_unlock"} => reg[mutex] \in Item
    /\ \A i \in 1 .. Occupied : buffer[Slot(head, i)] \in Item

\* No signal is lost: once the mutex is free, a thread stays blocked for an
\* item (for room) only while the items (the free slots) are no more than
\* the threads already woken up to take them.
NoLostWakeup ==
    mutex = NoThread =>
      /\ cond_dequeue # {} =>
           size <= Cardinality({t \in Thread \ cond_dequeue : pc[t] = "d_wait"})
      /\ cond_enqueue # {} =>
           buffer_size - size
             <= Cardinality({t \in Thread \ cond_enqueue : pc[t] = "e_wait"})

\* How far the call of thread t has come, seen from its caller: it takes
\* effect when size changes.
CallOf(t) ==
    CASE pc[t] = "idle" -> "none"
      [] pc[t] \in {"e_lock", "e_test", "e_wait", "e_put", "e_size"} -> "enqueue"
      [] pc[t] \in {"d_lock", "d_test", "d_wait", "d_take", "d_size"} -> "dequeue"
      [] OTHER -> "done"

\* Past its loop a thread may rely on the condition the loop waited for; an
\* enqueue carries its item until it is stored, a dequeue nothing until then.
LoopConditions ==
    /\ Phase \in {"e_put", "e_size"} => size < buffer_size
    /\ Phase \in {"d_take", "d_size"} => size > 0
    /\ \A t \in Thread : CallOf(t) = "enqueue" => reg[t] \in Item
    /\ \A t \in Thread :
          CallOf(t) \in {"none", "dequeue"} /\ pc[t] # "d_size" => reg[t] = NoItem

\* The inductive invariant of the queue.
QueueInv == TypeOK /\ MutualExclusion /\ RingConsistent /\ LoopConditions

-----------------------------------------------------------------------------
Calls == [t \in Thread |-> CallOf(t)]
Vals  == [t \in Thread |-> IF pc[t] = "d_size" THEN NoItem ELSE reg[t]]

Abstract == INSTANCE BoundedFifo WITH
    Room <- 0 .. buffer_size - 1, fifo <- Fifo, call <- Calls, val <- Vals

\* The ring buffer implements the bounded FIFO: enqueue and dequeue of
\* ts_queue.hpp take effect at one instant each and in first-in-first-out
\* order, whatever the interleaving of the threads.
ImplementsFifo == Abstract!Spec
=============================================================================
