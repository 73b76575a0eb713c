--------------------------- MODULE TSQueueProofs ---------------------------
(***************************************************************************)
(* TSQueue is correct for every capacity, every set of threads and every   *)
(* set of items: its representation invariant, mutual exclusion, the       *)
(* refinement of BoundedFifo, and that no wakeup is lost.                  *)
(***************************************************************************)
EXTENDS TSQueue, FiniteSetTheorems, TLAPS

-----------------------------------------------------------------------------
(* The index arithmetic of the ring.                                       *)

\* The remainder of a number at most two laps long.
LEMMA ModCases ==
    ASSUME NEW N \in Nat \ {0}, NEW a \in 0 .. 2 * N
    PROVE  a % N = IF a < N THEN a ELSE IF a < 2 * N THEN a - N ELSE 0
<1>1. CASE a < N
  BY <1>1
<1>2. CASE ~ (a < N) /\ a < 2 * N
  <2>1. a \in N .. 2 * N - 1
    BY <1>2
  <2>2. a % N = a - N
    BY <2>1
  <2>3. QED
    BY <1>2, <2>2
<1>3. CASE a = 2 * N
  <2>1. (2 * N) % N = 0
    OBVIOUS
  <2>2. QED
    BY <1>3, <2>1
<1>4. QED
  BY <1>1, <1>2, <1>3

\* A slot at most two laps away, without the remainder.
LEMMA SlotCases ==
    ASSUME NEW h \in Index, NEW i \in 0 .. buffer_size + 1
    PROVE  Slot(h, i) = IF h + i < buffer_size THEN h + i
                        ELSE IF h + i < 2 * buffer_size THEN h + i - buffer_size
                        ELSE 0
<1>1. h + i \in 0 .. 2 * buffer_size
  BY BufferAssumption DEF Index
<1>2. \A a \in 0 .. 2 * buffer_size :
         a % buffer_size = IF a < buffer_size THEN a
                           ELSE IF a < 2 * buffer_size THEN a - buffer_size ELSE 0
  BY ModCases, BufferAssumption
<1>3. QED
  BY <1>1, <1>2, BufferAssumption DEF Slot, Index

\* Going one slot further, one slot at a time or from one slot ahead.
LEMMA SlotStep ==
    ASSUME NEW h \in Index, NEW i \in 0 .. buffer_size
    PROVE  /\ Slot(h, i) \in Index
           /\ Slot(h, 0) = h
           /\ Slot(Slot(h, i), 1) = Slot(h, i + 1)
           /\ Slot(Slot(h, 1), i) = Slot(h, i + 1)
<1>1. /\ i \in 0 .. buffer_size + 1 /\ i + 1 \in 0 .. buffer_size + 1
      /\ 1 \in 0 .. buffer_size + 1 /\ 0 \in 0 .. buffer_size + 1
  BY BufferAssumption
<1>2. Slot(h, i) \in Index /\ Slot(h, 1) \in Index
  BY <1>1, SlotCases, BufferAssumption DEF Index
<1>3. Slot(h, 0) = h
  BY <1>1, SlotCases, BufferAssumption DEF Index
<1>4. Slot(Slot(h, i), 1) = Slot(h, i + 1)
  BY <1>1, <1>2, SlotCases, BufferAssumption DEF Index
<1>5. Slot(Slot(h, 1), i) = Slot(h, i + 1)
  <2>1. Slot(h, 1) = IF h + 1 < buffer_size THEN h + 1 ELSE 0
    BY <1>1, SlotCases, BufferAssumption DEF Index
  <2>2. CASE h + 1 < buffer_size
    <3>1. Slot(h, 1) = h + 1 /\ h + 1 \in Index /\ h \in Nat
      BY <2>1, <2>2, BufferAssumption DEF Index
    <3>2. /\ Slot(h + 1, i) = Slot(h, i + 1)
      BY <1>1, <2>2, <3>1, SlotCases, BufferAssumption DEF Index
    <3>3. QED
      BY <3>1, <3>2
  <2>3. CASE h + 1 = buffer_size
    BY <1>1, <1>2, <2>1, <2>3, SlotCases, BufferAssumption DEF Index
  <2>4. QED
    BY <2>2, <2>3, BufferAssumption DEF Index
<1>6. QED
  BY <1>2, <1>3, <1>4, <1>5

\* No two of the buffer_size places after head share a slot.
LEMMA SlotInjective ==
    ASSUME NEW h \in Index, NEW i \in 1 .. buffer_size, NEW j \in 1 .. buffer_size,
           Slot(h, i) = Slot(h, j)
    PROVE  i = j
<1>1. i \in 0 .. buffer_size + 1 /\ j \in 0 .. buffer_size + 1
  BY BufferAssumption
<1>2. QED
  BY <1>1, SlotCases, BufferAssumption DEF Index

-----------------------------------------------------------------------------
(* The inductive invariant.                                                *)

\* Only the thread that holds the mutex moves the ring.
LEMMA Holder ==
    ASSUME QueueInv, NEW t \in Thread, pc[t] \in Critical
    PROVE  mutex = t /\ Phase = pc[t]
BY ValueAssumption DEF QueueInv, MutualExclusion, Phase

LEMMA InitInv == Init => QueueInv
<1> SUFFICES ASSUME Init PROVE QueueInv
  OBVIOUS
<1>1. TypeOK
  BY BufferAssumption DEF Init, TypeOK, Index, Outside
<1>2. MutualExclusion
  BY ValueAssumption DEF Init, MutualExclusion, Critical, EnqueueCritical, DequeueCritical
<1>3. Phase = "free" /\ Occupied = 0
  BY DEF Init, Phase, Occupied
<1>4. RingConsistent
  <2>1. tail = Slot(head, 1)
    BY SlotCases, BufferAssumption DEF Init, Index
  <2>2. QED
    BY <1>3, <2>1, BufferAssumption DEF RingConsistent
<1>5. LoopConditions
  BY <1>3 DEF Init, LoopConditions, CallOf
<1>6. QED
  BY <1>1, <1>2, <1>4, <1>5 DEF QueueInv

LEMMA TypeStep == QueueInv /\ [Next]_vars => TypeOK'
<1> SUFFICES ASSUME QueueInv, [Next]_vars PROVE TypeOK'
  OBVIOUS
<1> USE DEF TypeOK, Goto, Acquire, ring, conds, Outside, Critical,
            EnqueueCritical, DequeueCritical
<1>1. TypeOK /\ LoopConditions
  BY DEF QueueInv
<1>2. ASSUME NEW t \in Thread, NEW x \in Item, CallEnqueue(t, x) PROVE TypeOK'
  BY <1>1, <1>2 DEF CallEnqueue
<1>3. ASSUME NEW t \in Thread, CallDequeue(t) PROVE TypeOK'
  BY <1>1, <1>3 DEF CallDequeue
<1>4. ASSUME NEW t \in Thread, EnqueueLock(t) PROVE TypeOK'
  BY <1>1, <1>4 DEF EnqueueLock
<1>5. ASSUME NEW t \in Thread, EnqueueWait(t) PROVE TypeOK'
  BY <1>1, <1>5 DEF EnqueueWait
<1>6. ASSUME NEW t \in Thread, EnqueueProceed(t) PROVE TypeOK'
  BY <1>1, <1>6 DEF EnqueueProceed
<1>7. ASSUME NEW t \in Thread, EnqueueWoken(t) PROVE TypeOK'
  BY <1>1, <1>7 DEF EnqueueWoken
<1>8. ASSUME NEW t \in Thread, EnqueuePut(t) PROVE TypeOK'
  <2>1. Slot(tail, 1) \in Index
    BY <1>1, SlotStep, BufferAssumption
  <2>2. QED
    BY <1>1, <1>8, <2>1 DEF EnqueuePut
<1>9. ASSUME NEW t \in Thread, EnqueueSize(t) PROVE TypeOK'
  <2>1. size < buffer_size
    BY <1>1, <1>9, Holder DEF EnqueueSize, LoopConditions
  <2>2. size' \in 0 .. buffer_size
    BY <1>1, <1>9, <2>1, BufferAssumption DEF EnqueueSize
  <2>3. QED
    BY <1>1, <1>9, <2>2 DEF EnqueueSize
<1>10. ASSUME NEW t \in Thread, EnqueueSignal(t) PROVE TypeOK'
  BY <1>1, <1>10 DEF EnqueueSignal, Signal
<1>11. ASSUME NEW t \in Thread, EnqueueUnlock(t) PROVE TypeOK'
  BY <1>1, <1>11 DEF EnqueueUnlock
<1>12. ASSUME NEW t \in Thread, DequeueLock(t) PROVE TypeOK'
  BY <1>1, <1>12 DEF DequeueLock
<1>13. ASSUME NEW t \in Thread, DequeueWait(t) PROVE TypeOK'
  BY <1>1, <1>13 DEF DequeueWait
<1>14. ASSUME NEW t \in Thread, DequeueProceed(t) PROVE TypeOK'
  BY <1>1, <1>14 DEF DequeueProceed
<1>15. ASSUME NEW t \in Thread, DequeueWoken(t) PROVE TypeOK'
  BY <1>1, <1>15 DEF DequeueWoken
<1>16. ASSUME NEW t \in Thread, DequeueTake(t) PROVE TypeOK'
  <2>1. Slot(head, 1) \in Index
    BY <1>1, SlotStep, BufferAssumption
  <2>2. QED
    BY <1>1, <1>16, <2>1 DEF DequeueTake
<1>17. ASSUME NEW t \in Thread, DequeueSize(t) PROVE TypeOK'
  <2>1. size > 0
    BY <1>1, <1>17, Holder DEF DequeueSize, LoopConditions
  <2>2. size' \in 0 .. buffer_size
    BY <1>1, <1>17, <2>1, BufferAssumption DEF DequeueSize
  <2>3. QED
    BY <1>1, <1>17, <2>2 DEF DequeueSize
<1>18. ASSUME NEW t \in Thread, DequeueSignal(t) PROVE TypeOK'
  BY <1>1, <1>18 DEF DequeueSignal, Signal
<1>19. ASSUME NEW t \in Thread, DequeueUnlock(t) PROVE TypeOK'
  BY <1>1, <1>19 DEF DequeueUnlock
<1>20. ASSUME NEW t \in Thread, SpuriousWakeup(t) PROVE TypeOK'
  BY <1>1, <1>20 DEF SpuriousWakeup
<1>21. CASE UNCHANGED vars
  BY <1>1, <1>21 DEF vars
<1>22. QED
  BY <1>2, <1>3, <1>4, <1>5, <1>6, <1>7, <1>8, <1>9, <1>10, <1>11, <1>12, <1>13, <1>14, <1>15, <1>16, <1>17, <1>18, <1>19, <1>20, <1>21 DEF Next, Enqueuing, Dequeuing

LEMMA MutexStep == QueueInv /\ [Next]_vars => MutualExclusion'
<1> SUFFICES ASSUME QueueInv, [Next]_vars PROVE MutualExclusion'
  OBVIOUS
<1> USE DEF conds, MutualExclusion, Goto, Acquire, Critical, EnqueueCritical, DequeueCritical
<1>1. /\ MutualExclusion
      /\ pc \in [Thread -> Outside \cup Critical]
      /\ cond_enqueue \subseteq Thread /\ cond_dequeue \subseteq Thread
      /\ NoThread \notin Thread
  BY ValueAssumption DEF QueueInv, TypeOK
<1>2. ASSUME NEW t \in Thread, NEW x \in Item, CallEnqueue(t, x) PROVE MutualExclusion'
  BY <1>1, <1>2 DEF CallEnqueue
<1>3. ASSUME NEW t \in Thread, CallDequeue(t) PROVE MutualExclusion'
  BY <1>1, <1>3 DEF CallDequeue
<1>4. ASSUME NEW t \in Thread, EnqueueLock(t) PROVE MutualExclusion'
  BY <1>1, <1>4 DEF EnqueueLock
<1>5. ASSUME NEW t \in Thread, EnqueueWait(t) PROVE MutualExclusion'
  BY <1>1, <1>5 DEF EnqueueWait
<1>6. ASSUME NEW t \in Thread, EnqueueProceed(t) PROVE MutualExclusion'
  BY <1>1, <1>6 DEF EnqueueProceed
<1>7. ASSUME NEW t \in Thread, EnqueueWoken(t) PROVE MutualExclusion'
  BY <1>1, <1>7 DEF EnqueueWoken
<1>8. ASSUME NEW t \in Thread, EnqueuePut(t) PROVE MutualExclusion'
  BY <1>1, <1>8 DEF EnqueuePut
<1>9. ASSUME NEW t \in Thread, EnqueueSize(t) PROVE MutualExclusion'
  BY <1>1, <1>9 DEF EnqueueSize
<1>10. ASSUME NEW t \in Thread, EnqueueSignal(t) PROVE MutualExclusion'
  BY <1>1, <1>10 DEF EnqueueSignal, Signal
<1>11. ASSUME NEW t \in Thread, EnqueueUnlock(t) PROVE MutualExclusion'
  BY <1>1, <1>11 DEF EnqueueUnlock
<1>12. ASSUME NEW t \in Thread, DequeueLock(t) PROVE MutualExclusion'
  BY <1>1, <1>12 DEF DequeueLock
<1>13. ASSUME NEW t \in Thread, DequeueWait(t) PROVE MutualExclusion'
  BY <1>1, <1>13 DEF DequeueWait
<1>14. ASSUME NEW t \in Thread, DequeueProceed(t) PROVE MutualExclusion'
  BY <1>1, <1>14 DEF DequeueProceed
<1>15. ASSUME NEW t \in Thread, DequeueWoken(t) PROVE MutualExclusion'
  BY <1>1, <1>15 DEF DequeueWoken
<1>16. ASSUME NEW t \in Thread, DequeueTake(t) PROVE MutualExclusion'
  BY <1>1, <1>16 DEF DequeueTake
<1>17. ASSUME NEW t \in Thread, DequeueSize(t) PROVE MutualExclusion'
  BY <1>1, <1>17 DEF DequeueSize
<1>18. ASSUME NEW t \in Thread, DequeueSignal(t) PROVE MutualExclusion'
  BY <1>1, <1>18 DEF DequeueSignal, Signal
<1>19. ASSUME NEW t \in Thread, DequeueUnlock(t) PROVE MutualExclusion'
  BY <1>1, <1>19 DEF DequeueUnlock
<1>20. ASSUME NEW t \in Thread, SpuriousWakeup(t) PROVE MutualExclusion'
  BY <1>1, <1>20 DEF SpuriousWakeup
<1>21. CASE UNCHANGED vars
  BY <1>1, <1>21 DEF vars
<1>22. QED
  BY <1>2, <1>3, <1>4, <1>5, <1>6, <1>7, <1>8, <1>9, <1>10, <1>11, <1>12, <1>13, <1>14, <1>15, <1>16, <1>17, <1>18, <1>19, <1>20, <1>21 DEF Next, Enqueuing, Dequeuing

LEMMA LoopStep == QueueInv /\ [Next]_vars => LoopConditions'
<1> SUFFICES ASSUME QueueInv, [Next]_vars PROVE LoopConditions'
  OBVIOUS
<1> USE DEF conds, ring, LoopConditions, MutualExclusion, Phase, CallOf, Goto, Acquire, Critical, EnqueueCritical, DequeueCritical
<1>1. /\ LoopConditions /\ MutualExclusion
      /\ size \in 0 .. buffer_size
      /\ pc \in [Thread -> Outside \cup Critical]
      /\ reg \in [Thread -> Item \cup {NoItem}]
      /\ NoThread \notin Thread
      /\ buffer_size \in Nat \ {0}
  BY ValueAssumption, BufferAssumption DEF QueueInv, TypeOK
<1>2. ASSUME NEW t \in Thread, NEW x \in Item, CallEnqueue(t, x) PROVE LoopConditions'
  BY <1>1, <1>2 DEF CallEnqueue
<1>3. ASSUME NEW t \in Thread, CallDequeue(t) PROVE LoopConditions'
  BY <1>1, <1>3 DEF CallDequeue
<1>4. ASSUME NEW t \in Thread, EnqueueLock(t) PROVE LoopConditions'
  BY <1>1, <1>4 DEF EnqueueLock
<1>5. ASSUME NEW t \in Thread, EnqueueWait(t) PROVE LoopConditions'
  BY <1>1, <1>5 DEF EnqueueWait
<1>6. ASSUME NEW t \in Thread, EnqueueProceed(t) PROVE LoopConditions'
  BY <1>1, <1>6 DEF EnqueueProceed
<1>7. ASSUME NEW t \in Thread, EnqueueWoken(t) PROVE LoopConditions'
  BY <1>1, <1>7 DEF EnqueueWoken
<1>8. ASSUME NEW t \in Thread, EnqueuePut(t) PROVE LoopConditions'
  BY <1>1, <1>8 DEF EnqueuePut
<1>9. ASSUME NEW t \in Thread, EnqueueSize(t) PROVE LoopConditions'
  BY <1>1, <1>9 DEF EnqueueSize
<1>10. ASSUME NEW t \in Thread, EnqueueSignal(t) PROVE LoopConditions'
  BY <1>1, <1>10 DEF EnqueueSignal, Signal
<1>11. ASSUME NEW t \in Thread, EnqueueUnlock(t) PROVE LoopConditions'
  BY <1>1, <1>11 DEF EnqueueUnlock
<1>12. ASSUME NEW t \in Thread, DequeueLock(t) PROVE LoopConditions'
  BY <1>1, <1>12 DEF DequeueLock
<1>13. ASSUME NEW t \in Thread, DequeueWait(t) PROVE LoopConditions'
  BY <1>1, <1>13 DEF DequeueWait
<1>14. ASSUME NEW t \in Thread, DequeueProceed(t) PROVE LoopConditions'
  BY <1>1, <1>14 DEF DequeueProceed
<1>15. ASSUME NEW t \in Thread, DequeueWoken(t) PROVE LoopConditions'
  BY <1>1, <1>15 DEF DequeueWoken
<1>16. ASSUME NEW t \in Thread, DequeueTake(t) PROVE LoopConditions'
  BY <1>1, <1>16 DEF DequeueTake
<1>17. ASSUME NEW t \in Thread, DequeueSize(t) PROVE LoopConditions'
  BY <1>1, <1>17 DEF DequeueSize
<1>18. ASSUME NEW t \in Thread, DequeueSignal(t) PROVE LoopConditions'
  BY <1>1, <1>18 DEF DequeueSignal, Signal
<1>19. ASSUME NEW t \in Thread, DequeueUnlock(t) PROVE LoopConditions'
  BY <1>1, <1>19 DEF DequeueUnlock
<1>20. ASSUME NEW t \in Thread, SpuriousWakeup(t) PROVE LoopConditions'
  BY <1>1, <1>20 DEF SpuriousWakeup
<1>21. CASE UNCHANGED vars
  BY <1>1, <1>21 DEF vars
<1>22. QED
  BY <1>2, <1>3, <1>4, <1>5, <1>6, <1>7, <1>8, <1>9, <1>10, <1>11, <1>12, <1>13, <1>14, <1>15, <1>16, <1>17, <1>18, <1>19, <1>20, <1>21 DEF Next, Enqueuing, Dequeuing

LEMMA RingStep == QueueInv /\ [Next]_vars => RingConsistent'
<1> SUFFICES ASSUME QueueInv, [Next]_vars PROVE RingConsistent'
  OBVIOUS
<1> USE DEF conds, ring, RingConsistent, LoopConditions, MutualExclusion, Phase, Occupied, CallOf, Goto, Acquire, Critical, EnqueueCritical, DequeueCritical
<1>1. /\ LoopConditions /\ MutualExclusion /\ RingConsistent
      /\ buffer \in [Index -> Item \cup {NoItem}]
      /\ size \in 0 .. buffer_size
      /\ head \in Index /\ tail \in Index
      /\ pc \in [Thread -> Outside \cup Critical]
      /\ reg \in [Thread -> Item \cup {NoItem}]
      /\ NoThread \notin Thread
      /\ buffer_size \in Nat \ {0}
  BY ValueAssumption, BufferAssumption DEF QueueInv, TypeOK
<1>2. ASSUME NEW t \in Thread, NEW x \in Item, CallEnqueue(t, x) PROVE RingConsistent'
  BY <1>1, <1>2 DEF CallEnqueue
<1>3. ASSUME NEW t \in Thread, CallDequeue(t) PROVE RingConsistent'
  BY <1>1, <1>3 DEF CallDequeue
<1>4. ASSUME NEW t \in Thread, EnqueueLock(t) PROVE RingConsistent'
  BY <1>1, <1>4 DEF EnqueueLock
<1>5. ASSUME NEW t \in Thread, EnqueueWait(t) PROVE RingConsistent'
  BY <1>1, <1>5 DEF EnqueueWait
<1>6. ASSUME NEW t \in Thread, EnqueueProceed(t) PROVE RingConsistent'
  BY <1>1, <1>6 DEF EnqueueProceed
<1>7. ASSUME NEW t \in Thread, EnqueueWoken(t) PROVE RingConsistent'
  BY <1>1, <1>7 DEF EnqueueWoken
<1>8. ASSUME NEW t \in Thread, EnqueuePut(t) PROVE RingConsistent'
  <2>1. /\ mutex = t /\ Phase = "e_put" /\ Occupied = size
        /\ Phase' = "e_size" /\ Occupied' = size + 1
        /\ size < buffer_size /\ reg[t] \in Item
    BY <1>1, <1>8 DEF EnqueuePut
  <2>2. tail = Slot(head, size + 1) /\ tail' = Slot(head, size + 2)
    BY <1>1, <1>8, <2>1, SlotStep DEF EnqueuePut
  <2>3. ASSUME NEW i \in 1 .. size PROVE buffer'[Slot(head, i)] \in Item
    <3>1. Slot(head, i) \in Index /\ Slot(head, i) # tail
      BY <1>1, <2>1, <2>2, SlotStep, SlotInjective
    <3>2. QED
      BY <1>1, <1>8, <2>1, <3>1 DEF EnqueuePut
  <2>4. buffer'[Slot(head, size + 1)] = reg[t]
    BY <1>1, <1>8, <2>2 DEF EnqueuePut
  <2>5. \A i \in 1 .. size + 1 : buffer'[Slot(head, i)] \in Item
    BY <1>1, <2>1, <2>3, <2>4
  <2>6. QED
    BY <1>1, <1>8, <2>1, <2>2, <2>4, <2>5 DEF EnqueuePut
<1>9. ASSUME NEW t \in Thread, EnqueueSize(t) PROVE RingConsistent'
  BY <1>1, <1>9 DEF EnqueueSize
<1>10. ASSUME NEW t \in Thread, EnqueueSignal(t) PROVE RingConsistent'
  BY <1>1, <1>10 DEF EnqueueSignal, Signal
<1>11. ASSUME NEW t \in Thread, EnqueueUnlock(t) PROVE RingConsistent'
  BY <1>1, <1>11 DEF EnqueueUnlock
<1>12. ASSUME NEW t \in Thread, DequeueLock(t) PROVE RingConsistent'
  BY <1>1, <1>12 DEF DequeueLock
<1>13. ASSUME NEW t \in Thread, DequeueWait(t) PROVE RingConsistent'
  BY <1>1, <1>13 DEF DequeueWait
<1>14. ASSUME NEW t \in Thread, DequeueProceed(t) PROVE RingConsistent'
  BY <1>1, <1>14 DEF DequeueProceed
<1>15. ASSUME NEW t \in Thread, DequeueWoken(t) PROVE RingConsistent'
  BY <1>1, <1>15 DEF DequeueWoken
<1>16. ASSUME NEW t \in Thread, DequeueTake(t) PROVE RingConsistent'
  <2>1. /\ mutex = t /\ Phase = "d_take" /\ Occupied = size
        /\ Phase' = "d_size" /\ Occupied' = size - 1
        /\ size > 0 /\ head' = Slot(head, 1)
    BY <1>1, <1>16 DEF DequeueTake
  <2>2. tail' = Slot(head', size)
    BY <1>1, <1>16, <2>1, SlotStep DEF DequeueTake
  <2>3. ASSUME NEW i \in 1 .. size - 1 PROVE buffer'[Slot(head', i)] \in Item
    <3>1. Slot(head', i) = Slot(head, i + 1)
      BY <1>1, <2>1, SlotStep
    <3>2. QED
      BY <1>1, <1>16, <2>1, <3>1 DEF DequeueTake
  <2>4. reg'[t] = buffer[Slot(head, 1)] /\ reg'[t] \in Item
    BY <1>1, <1>16, <2>1 DEF DequeueTake
  <2>5. QED
    BY <1>1, <1>16, <2>1, <2>2, <2>3, <2>4 DEF DequeueTake
<1>17. ASSUME NEW t \in Thread, DequeueSize(t) PROVE RingConsistent'
  BY <1>1, <1>17 DEF DequeueSize
<1>18. ASSUME NEW t \in Thread, DequeueSignal(t) PROVE RingConsistent'
  BY <1>1, <1>18 DEF DequeueSignal, Signal
<1>19. ASSUME NEW t \in Thread, DequeueUnlock(t) PROVE RingConsistent'
  BY <1>1, <1>19 DEF DequeueUnlock
<1>20. ASSUME NEW t \in Thread, SpuriousWakeup(t) PROVE RingConsistent'
  BY <1>1, <1>20 DEF SpuriousWakeup
<1>21. CASE UNCHANGED vars
  BY <1>1, <1>21 DEF vars
<1>22. QED
  BY <1>2, <1>3, <1>4, <1>5, <1>6, <1>7, <1>8, <1>9, <1>10, <1>11, <1>12, <1>13, <1>14, <1>15, <1>16, <1>17, <1>18, <1>19, <1>20, <1>21 DEF Next, Enqueuing, Dequeuing

\* In every reachable state of every instance the representation invariant,
\* mutual exclusion and the loop conditions of ts_queue.hpp hold.
THEOREM QueueCorrect == Spec => []QueueInv
<1>1. Init => QueueInv
  BY InitInv
<1>2. QueueInv /\ [Next]_vars => QueueInv'
  BY TypeStep, MutexStep, LoopStep, RingStep DEF QueueInv
<1>3. QED
  BY <1>1, <1>2, PTL DEF Spec

\* The members of a TSQueue stay in their ranges: no index leaves the buffer
\* and size never exceeds buffer_size.
THEOREM TypeCorrect == Spec => []TypeOK
BY QueueCorrect, PTL DEF QueueInv

\* At most one thread is between lock and unlock.
THEOREM MutexCorrect == Spec => []MutualExclusion
BY QueueCorrect, PTL DEF QueueInv

\* head, tail and size agree at every statement, even where get_size() may
\* read size between the move of an index and the change of size.
THEOREM RingCorrect == Spec => []RingConsistent
BY QueueCorrect, PTL DEF QueueInv

-----------------------------------------------------------------------------
(* The refinement of BoundedFifo.                                          *)

\* What the proofs below use of the inductive invariant.
LEMMA Facts ==
    QueueInv => /\ LoopConditions /\ MutualExclusion /\ RingConsistent
                /\ buffer \in [Index -> Item \cup {NoItem}]
                /\ size \in 0 .. buffer_size
                /\ head \in Index /\ tail \in Index
                /\ pc \in [Thread -> Outside \cup Critical]
                /\ reg \in [Thread -> Item \cup {NoItem}]
                /\ NoThread \notin Thread
                /\ buffer_size \in Nat \ {0}
BY ValueAssumption, BufferAssumption DEF QueueInv, TypeOK

\* Fifo is the sequence of the size slots after head, or from head while the
\* oldest item is being taken.
LEMMA FifoShape ==
    ASSUME QueueInv
    PROVE  /\ Fifo = [i \in 1 .. size |->
                        buffer[Slot(head, IF Phase = "d_size" THEN i - 1 ELSE i)]]
           /\ Len(Fifo) = size
           /\ Fifo \in Seq(Item)
<1> USE Facts
<1>1. Fifo = [i \in 1 .. size |->
               buffer[Slot(head, IF Phase = "d_size" THEN i - 1 ELSE i)]]
  BY DEF Fifo
<1>2. size \in Nat
  OBVIOUS
<1>3. ASSUME NEW i \in 1 .. size PROVE Fifo[i] \in Item
  <2>1. CASE Phase # "d_size"
    BY <1>1, <1>3, <2>1 DEF RingConsistent, Occupied
  <2>2. CASE Phase = "d_size" /\ i > 1
    BY <1>1, <1>3, <2>2 DEF RingConsistent, Occupied
  <2>3. CASE Phase = "d_size" /\ i = 1
    <3>1. Slot(head, 0) = head
      BY SlotStep
    <3>2. QED
      BY <1>1, <1>3, <2>3, <3>1 DEF RingConsistent
  <2>4. QED
    BY <1>3, <2>1, <2>2, <2>3
<1>4. QED
  BY <1>1, <1>2, <1>3

\* Steps that leave the ring and the phase of a dequeue alone leave Fifo alone.
LEMMA FifoUnchanged ==
    ASSUME UNCHANGED ring, (Phase = "d_size") <=> (Phase' = "d_size")
    PROVE  Fifo' = Fifo
BY DEF ring, Fifo

\* Storing an item, before it is counted, does not touch the queued ones.
LEMMA PutFifo ==
    ASSUME QueueInv, NEW t \in Thread, EnqueuePut(t)
    PROVE  Fifo' = Fifo
<1> USE Facts DEF Goto, Phase, MutualExclusion, Critical, EnqueueCritical
<1>1. mutex = t /\ Phase = "e_put" /\ Phase' = "e_size" /\ Occupied = size
  BY DEF EnqueuePut, Occupied
<1>2. size < buffer_size /\ tail = Slot(head, size + 1)
  BY <1>1 DEF LoopConditions, RingConsistent
<1>3. ASSUME NEW i \in 1 .. size PROVE buffer'[Slot(head, i)] = buffer[Slot(head, i)]
  <2>1. Slot(head, i) \in Index /\ Slot(head, i) # tail
    BY <1>2, SlotStep, SlotInjective
  <2>2. QED
    BY <2>1 DEF EnqueuePut
<1>4. QED
  BY <1>1, <1>3 DEF EnqueuePut, Fifo

\* Moving head, before the item is uncounted, keeps it in front.
LEMMA TakeFifo ==
    ASSUME QueueInv, NEW t \in Thread, DequeueTake(t)
    PROVE  Fifo' = Fifo
<1> USE Facts DEF Goto, Phase, MutualExclusion, Critical, DequeueCritical
<1>1. mutex = t /\ Phase = "d_take" /\ Phase' = "d_size" /\ head' = Slot(head, 1)
  BY DEF DequeueTake
<1>2. ASSUME NEW i \in 1 .. size
      PROVE  Slot(head', i - 1) = Slot(head, i)
  BY <1>1, SlotStep
<1>3. buffer' = buffer /\ size' = size
  BY DEF DequeueTake
<1>4. QED
  BY <1>1, <1>2, <1>3 DEF Fifo

\* Counting the stored item appends it.
LEMMA SizeAppends ==
    ASSUME QueueInv, NEW t \in Thread, EnqueueSize(t)
    PROVE  /\ Len(Fifo) \in 0 .. buffer_size - 1
           /\ Fifo' = Append(Fifo, reg[t])
<1> USE Facts DEF Goto, MutualExclusion, Critical, EnqueueCritical
<1>1. mutex = t /\ Phase = "e_size" /\ Phase' # "d_size" /\ Occupied = size + 1
  BY DEF EnqueueSize, Phase, Occupied
<1>2. size < buffer_size /\ buffer[Slot(head, size + 1)] = reg[t]
  BY <1>1 DEF LoopConditions, RingConsistent
<1>3. size' = size + 1 /\ head' = head /\ buffer' = buffer
  BY DEF EnqueueSize
<1>4. /\ Fifo = [i \in 1 .. size |-> buffer[Slot(head, i)]]
      /\ Len(Fifo) = size /\ Fifo \in Seq(Item)
  BY <1>1, FifoShape
<1>5. Fifo' = [i \in 1 .. size + 1 |-> buffer[Slot(head, i)]]
  BY <1>1, <1>3 DEF Fifo
<1>6. QED
  BY <1>2, <1>4, <1>5

\* Uncounting the taken item removes it from the front.
LEMMA SizeRemoves ==
    ASSUME QueueInv, NEW t \in Thread, DequeueSize(t)
    PROVE  /\ Fifo # << >>
           /\ Fifo' = Tail(Fifo)
           /\ reg[t] = Head(Fifo)
<1> USE Facts DEF Goto, MutualExclusion, Critical, DequeueCritical
<1>1. mutex = t /\ Phase = "d_size" /\ Phase' # "d_size"
  BY DEF DequeueSize, Phase
<1>2. size > 0 /\ buffer[head] = reg[t]
  BY <1>1 DEF LoopConditions, RingConsistent
<1>3. size' = size - 1 /\ head' = head /\ buffer' = buffer
  BY DEF DequeueSize
<1>4. /\ Fifo = [i \in 1 .. size |-> buffer[Slot(head, i - 1)]]
      /\ Len(Fifo) = size /\ Fifo \in Seq(Item)
  BY <1>1, FifoShape
<1>5. Fifo' = [i \in 1 .. size - 1 |-> buffer[Slot(head, i)]]
  BY <1>1, <1>3 DEF Fifo
<1>6. Slot(head, 0) = head
  BY SlotStep
<1>7. QED
  BY <1>2, <1>4, <1>5, <1>6

\* Steps the caller does not see: they change no abstract variable.
LEMMA SilentSteps ==
    ASSUME QueueInv, NEW t \in Thread,
           \/ EnqueueLock(t) \/ EnqueueWait(t) \/ EnqueueProceed(t)
           \/ EnqueueWoken(t) \/ EnqueueSignal(t)
           \/ DequeueLock(t) \/ DequeueWait(t) \/ DequeueProceed(t)
           \/ DequeueWoken(t) \/ DequeueSignal(t)
    PROVE  UNCHANGED <<Fifo, Calls, Vals>>
<1> USE Facts DEF Goto, Acquire, MutualExclusion, Critical, EnqueueCritical,
                  DequeueCritical, CallOf
<1>1. CASE EnqueueLock(t)
  <2>1. UNCHANGED ring /\ ((Phase = "d_size") <=> (Phase' = "d_size"))
    BY <1>1 DEF EnqueueLock, Phase, ring
  <2>2. Calls' = Calls /\ Vals' = Vals
    BY <1>1 DEF EnqueueLock, Calls, Vals
  <2>3. QED
    BY <2>1, <2>2, FifoUnchanged
<1>2. CASE EnqueueWait(t)
  <2>1. UNCHANGED ring /\ ((Phase = "d_size") <=> (Phase' = "d_size"))
    BY <1>2 DEF EnqueueWait, Phase, ring
  <2>2. Calls' = Calls /\ Vals' = Vals
    BY <1>2 DEF EnqueueWait, Calls, Vals
  <2>3. QED
    BY <2>1, <2>2, FifoUnchanged
<1>3. CASE EnqueueProceed(t)
  <2>1. UNCHANGED ring /\ ((Phase = "d_size") <=> (Phase' = "d_size"))
    BY <1>3 DEF EnqueueProceed, Phase, ring
  <2>2. Calls' = Calls /\ Vals' = Vals
    BY <1>3 DEF EnqueueProceed, Calls, Vals
  <2>3. QED
    BY <2>1, <2>2, FifoUnchanged
<1>4. CASE EnqueueWoken(t)
  <2>1. UNCHANGED ring /\ ((Phase = "d_size") <=> (Phase' = "d_size"))
    BY <1>4 DEF EnqueueWoken, Phase, ring
  <2>2. Calls' = Calls /\ Vals' = Vals
    BY <1>4 DEF EnqueueWoken, Calls, Vals
  <2>3. QED
    BY <2>1, <2>2, FifoUnchanged
<1>5. CASE EnqueueSignal(t)
  <2>1. UNCHANGED ring /\ ((Phase = "d_size") <=> (Phase' = "d_size"))
    BY <1>5 DEF EnqueueSignal, Phase, ring
  <2>2. Calls' = Calls /\ Vals' = Vals
    BY <1>5 DEF EnqueueSignal, Calls, Vals
  <2>3. QED
    BY <2>1, <2>2, FifoUnchanged
<1>6. CASE DequeueLock(t)
  <2>1. UNCHANGED ring /\ ((Phase = "d_size") <=> (Phase' = "d_size"))
    BY <1>6 DEF DequeueLock, Phase, ring
  <2>2. Calls' = Calls /\ Vals' = Vals
    BY <1>6 DEF DequeueLock, Calls, Vals
  <2>3. QED
    BY <2>1, <2>2, FifoUnchanged
<1>7. CASE DequeueWait(t)
  <2>1. UNCHANGED ring /\ ((Phase = "d_size") <=> (Phase' = "d_size"))
    BY <1>7 DEF DequeueWait, Phase, ring
  <2>2. Calls' = Calls /\ Vals' = Vals
    BY <1>7 DEF DequeueWait, Calls, Vals
  <2>3. QED
    BY <2>1, <2>2, FifoUnchanged
<1>8. CASE DequeueProceed(t)
  <2>1. UNCHANGED ring /\ ((Phase = "d_size") <=> (Phase' = "d_size"))
    BY <1>8 DEF DequeueProceed, Phase, ring
  <2>2. Calls' = Calls /\ Vals' = Vals
    BY <1>8 DEF DequeueProceed, Calls, Vals
  <2>3. QED
    BY <2>1, <2>2, FifoUnchanged
<1>9. CASE DequeueWoken(t)
  <2>1. UNCHANGED ring /\ ((Phase = "d_size") <=> (Phase' = "d_size"))
    BY <1>9 DEF DequeueWoken, Phase, ring
  <2>2. Calls' = Calls /\ Vals' = Vals
    BY <1>9 DEF DequeueWoken, Calls, Vals
  <2>3. QED
    BY <2>1, <2>2, FifoUnchanged
<1>10. CASE DequeueSignal(t)
  <2>1. UNCHANGED ring /\ ((Phase = "d_size") <=> (Phase' = "d_size"))
    BY <1>10 DEF DequeueSignal, Phase, ring
  <2>2. Calls' = Calls /\ Vals' = Vals
    BY <1>10 DEF DequeueSignal, Calls, Vals
  <2>3. QED
    BY <2>1, <2>2, FifoUnchanged
<1>11. QED
  BY <1>1, <1>2, <1>3, <1>4, <1>5, <1>6, <1>7, <1>8, <1>9, <1>10

\* Every step of the ring buffer is a step of BoundedFifo or invisible there.
LEMMA StepRefines == QueueInv /\ [Next]_vars => [Abstract!Next]_(Abstract!vars)
<1> SUFFICES ASSUME QueueInv, [Next]_vars
             PROVE  Abstract!Next \/ UNCHANGED <<Fifo, Calls, Vals>>
  BY DEF Abstract!vars
<1> USE Facts DEF Goto, MutualExclusion, Critical, EnqueueCritical,
                  DequeueCritical, CallOf
<1>1. ASSUME NEW t \in Thread, NEW x \in Item, CallEnqueue(t, x)
      PROVE  Abstract!CallEnqueue(t, x)
  <2>1. Fifo' = Fifo
    BY <1>1, FifoUnchanged DEF CallEnqueue, Phase
  <2>2. Calls[t] = "none" /\ Calls' = [Calls EXCEPT ![t] = "enqueue"]
    BY <1>1 DEF CallEnqueue, Calls
  <2>3. Vals' = [Vals EXCEPT ![t] = x]
    BY <1>1 DEF CallEnqueue, Vals
  <2>4. QED
    BY <2>1, <2>2, <2>3 DEF Abstract!CallEnqueue
<1>2. ASSUME NEW t \in Thread, CallDequeue(t) PROVE Abstract!CallDequeue(t)
  <2>1. Fifo' = Fifo
    BY <1>2, FifoUnchanged DEF CallDequeue, Phase
  <2>2. Calls[t] = "none" /\ Calls' = [Calls EXCEPT ![t] = "dequeue"]
    BY <1>2 DEF CallDequeue, Calls
  <2>3. Vals' = Vals
    BY <1>2 DEF CallDequeue, Vals
  <2>4. QED
    BY <2>1, <2>2, <2>3 DEF Abstract!CallDequeue
<1>3. ASSUME NEW t \in Thread, EnqueuePut(t) PROVE UNCHANGED <<Fifo, Calls, Vals>>
  <2>1. Calls' = Calls /\ Vals' = Vals
    BY <1>3 DEF EnqueuePut, Calls, Vals
  <2>2. QED
    BY <1>3, <2>1, PutFifo
<1>4. ASSUME NEW t \in Thread, DequeueTake(t) PROVE UNCHANGED <<Fifo, Calls, Vals>>
  <2>1. reg[t] = NoItem
    BY <1>4 DEF DequeueTake, LoopConditions
  <2>2. Calls' = Calls /\ Vals' = Vals
    BY <1>4, <2>1 DEF DequeueTake, Calls, Vals
  <2>3. QED
    BY <1>4, <2>2, TakeFifo
<1>5. ASSUME NEW t \in Thread, EnqueueSize(t) PROVE Abstract!Enqueue(t)
  <2>1. Calls[t] = "enqueue" /\ Calls' = [Calls EXCEPT ![t] = "done"]
    BY <1>5 DEF EnqueueSize, Calls
  <2>2. Vals' = Vals /\ Vals[t] = reg[t]
    BY <1>5 DEF EnqueueSize, Vals
  <2>3. QED
    BY <1>5, <2>1, <2>2, SizeAppends DEF Abstract!Enqueue
<1>6. ASSUME NEW t \in Thread, DequeueSize(t) PROVE Abstract!Dequeue(t)
  <2>1. Calls[t] = "dequeue" /\ Calls' = [Calls EXCEPT ![t] = "done"]
    BY <1>6 DEF DequeueSize, Calls
  <2>2. Vals' = [Vals EXCEPT ![t] = reg[t]]
    BY <1>6 DEF DequeueSize, Vals
  <2>3. QED
    BY <1>6, <2>1, <2>2, SizeRemoves DEF Abstract!Dequeue
<1>7. ASSUME NEW t \in Thread, EnqueueUnlock(t) \/ DequeueUnlock(t)
      PROVE  Abstract!Return(t)
  <2>1. Fifo' = Fifo
    BY <1>7, FifoUnchanged DEF EnqueueUnlock, DequeueUnlock, Phase
  <2>2. Calls[t] = "done" /\ Calls' = [Calls EXCEPT ![t] = "none"]
    BY <1>7 DEF EnqueueUnlock, DequeueUnlock, Calls
  <2>3. Vals' = [Vals EXCEPT ![t] = NoItem]
    BY <1>7 DEF EnqueueUnlock, DequeueUnlock, Vals
  <2>4. QED
    BY <2>1, <2>2, <2>3 DEF Abstract!Return
<1>8. ASSUME NEW t \in Thread, SpuriousWakeup(t)
      PROVE  UNCHANGED <<Fifo, Calls, Vals>>
  BY <1>8, FifoUnchanged DEF SpuriousWakeup, Phase, Calls, Vals
<1>9. CASE UNCHANGED vars
  BY <1>9, FifoUnchanged DEF vars, ring, Phase, Calls, Vals
<1>10. ASSUME NEW t \in Thread, Enqueuing(t) \/ Dequeuing(t)
       PROVE  Abstract!Next \/ UNCHANGED <<Fifo, Calls, Vals>>
  BY <1>3, <1>4, <1>5, <1>6, <1>7, <1>10, SilentSteps
     DEF Enqueuing, Dequeuing, Abstract!Next
<1>11. QED
  BY <1>1, <1>2, <1>8, <1>9, <1>10 DEF Next, Abstract!Next

LEMMA InitRefines == Init => Abstract!Init
<1> SUFFICES ASSUME Init PROVE Abstract!Init
  OBVIOUS
<1>1. Fifo = << >>
  BY DEF Init, Fifo
<1>2. Calls = [t \in Thread |-> "none"] /\ Vals = [t \in Thread |-> NoItem]
  BY DEF Init, Calls, Vals, CallOf
<1>3. QED
  BY <1>1, <1>2 DEF Abstract!Init

\* ts_queue.hpp implements a bounded FIFO queue: for every capacity, set of
\* threads and set of items, each enqueue and dequeue takes effect at one
\* instant, between its call and its return, in first-in-first-out order.
THEOREM QueueRefines == Spec => ImplementsFifo
<1>1. QueueInv /\ [Next]_vars => [Abstract!Next]_(Abstract!vars)
  BY StepRefines
<1>2. QED
  BY <1>1, InitRefines, QueueCorrect, PTL DEF Spec, ImplementsFifo, Abstract!Spec

-----------------------------------------------------------------------------
(* Wakeups.  While the mutex is held the count of NoLostWakeup is off by   *)
(* one, where a call has changed size and has not yet signalled, or was    *)
(* woken up and has not yet changed size.                                  *)

WokenForItem == {t \in Thread \ cond_dequeue : pc[t] = "d_wait"}
WokenForRoom == {t \in Thread \ cond_enqueue : pc[t] = "e_wait"}

ItemsDue == IF Phase \in {"e_signal", "d_test", "d_take", "d_size"} THEN 1 ELSE 0
RoomDue  == IF Phase \in {"d_signal", "e_test", "e_put", "e_size"} THEN 1 ELSE 0

\* Threads are blocked for one of n things only if the threads woken up, and
\* the one that is due, are enough to take them all.
Covered(n, blocked, woken, due) ==
    /\ IsFiniteSet(woken)
    /\ blocked # {} => n <= Cardinality(woken) + due

WakeupInv == /\ Covered(size, cond_dequeue, WokenForItem, ItemsDue)
             /\ Covered(buffer_size - size, cond_enqueue, WokenForRoom, RoomDue)

\* Nobody is woken up, and no more is there that is not due, or nothing is; or
\* one thread is woken up; or one that was goes on, which is due to it.
Covers(n, n2, blocked, blocked2, woken, woken2, due, due2) ==
    \/ /\ woken2 = woken
       /\ blocked2 # {} => n2 = 0 \/ (blocked # {} /\ n2 - due2 <= n - due)
    \/ \E w : /\ w \notin woken /\ woken2 = woken \cup {w}
              /\ blocked # {} /\ n2 = n /\ due2 >= due - 1
    \/ \E w \in woken : /\ woken2 = woken \ {w}
                        /\ blocked2 = blocked /\ n2 = n /\ due2 >= due + 1

\* Then nobody is left waiting for what nobody was woken up to take.
LEMMA CoveredStep ==
    ASSUME NEW n \in Int, NEW n2 \in Int, NEW B, NEW B2, NEW W, NEW W2,
           NEW d \in {0, 1}, NEW d2 \in {0, 1},
           Covered(n, B, W, d), Covers(n, n2, B, B2, W, W2, d, d2)
    PROVE  Covered(n2, B2, W2, d2)
<1>1. IsFiniteSet(W) /\ Cardinality(W) \in Nat /\ (B # {} => n <= Cardinality(W) + d)
  BY FS_CardinalityType DEF Covered
<1>2. CASE W2 = W /\ (B2 # {} => n2 = 0 \/ (B # {} /\ n2 - d2 <= n - d))
  BY <1>1, <1>2 DEF Covered
<1>3. ASSUME NEW w, w \notin W, W2 = W \cup {w}, B # {}, n2 = n, d2 >= d - 1
      PROVE  Covered(n2, B2, W2, d2)
  <2>1. IsFiniteSet(W2) /\ Cardinality(W2) = Cardinality(W) + 1
    BY <1>1, <1>3, FS_AddElement
  <2>2. QED
    BY <1>1, <1>3, <2>1 DEF Covered
<1>4. ASSUME NEW w \in W, W2 = W \ {w}, B2 = B, n2 = n, d2 >= d + 1
      PROVE  Covered(n2, B2, W2, d2)
  <2>1. IsFiniteSet(W2) /\ Cardinality(W2) = Cardinality(W) - 1
    BY <1>1, <1>4, FS_RemoveElement
  <2>2. QED
    BY <1>1, <1>4, <2>1 DEF Covered
<1>5. QED
  BY <1>2, <1>3, <1>4 DEF Covers

\* What a step does to the threads that wait for an item, and for room.
CoversItems == Covers(size, size', cond_dequeue, cond_dequeue',
                      WokenForItem, WokenForItem', ItemsDue, ItemsDue')
CoversRoom == Covers(buffer_size - size, buffer_size - size', cond_enqueue,
                     cond_enqueue', WokenForRoom, WokenForRoom', RoomDue, RoomDue')

\* A step that neither blocks nor wakes up anybody.
Quiet ==
    /\ UNCHANGED <<cond_enqueue, cond_dequeue, WokenForItem, WokenForRoom>>
    /\ size' - ItemsDue' <= size - ItemsDue
    /\ (buffer_size - size') - RoomDue' <= (buffer_size - size) - RoomDue

\* Every statement of enqueue and dequeue does that, for both conditions.
LEMMA WakeupStep == QueueInv /\ [Next]_vars => CoversItems /\ CoversRoom
<1> SUFFICES ASSUME QueueInv, [Next]_vars PROVE CoversItems /\ CoversRoom
  OBVIOUS
<1>1. /\ LoopConditions /\ MutualExclusion
      /\ size \in 0 .. buffer_size /\ buffer_size \in Nat
      /\ pc \in [Thread -> Outside \cup Critical]
      /\ cond_enqueue \subseteq Thread /\ cond_dequeue \subseteq Thread
      /\ NoThread \notin Thread
  BY Facts DEF QueueInv, TypeOK
<1>2. Quiet => CoversItems /\ CoversRoom
  BY DEF Quiet, Covers, CoversItems, CoversRoom
<1> USE DEF Goto, Acquire, MutualExclusion, Critical, EnqueueCritical,
            DequeueCritical, Phase, ItemsDue, RoomDue,
            ring, conds
<1>3. ASSUME NEW t \in Thread, CallDequeue(t) \/ \E x \in Item : CallEnqueue(t, x)
      PROVE  Quiet
  <2>1. /\ pc[t] = "idle" /\ UNCHANGED <<mutex, size, cond_enqueue, cond_dequeue>>
        /\ pc' = [pc EXCEPT ![t] = "d_lock"] \/ pc' = [pc EXCEPT ![t] = "e_lock"]
    BY <1>3 DEF CallDequeue, CallEnqueue
  <2>2. mutex # t /\ mutex \in Thread \cup {NoThread}
    BY <1>1, <2>1 DEF QueueInv, TypeOK
  <2>3. WokenForItem' = WokenForItem /\ WokenForRoom' = WokenForRoom
    BY <1>1, <2>1 DEF WokenForItem, WokenForRoom
  <2>4. ItemsDue' = ItemsDue /\ RoomDue' = RoomDue
    <3>1. mutex # NoThread => pc'[mutex] = pc[mutex]
      BY <1>1, <2>1, <2>2
    <3>2. QED
      BY <2>1, <3>1
  <2>5. ItemsDue \in Int /\ RoomDue \in Int
    OBVIOUS
  <2> HIDE DEF ItemsDue, RoomDue
  <2>6. QED
    BY <1>1, <2>1, <2>3, <2>4, <2>5 DEF Quiet
<1>4. ASSUME NEW t \in Thread, EnqueueLock(t) PROVE Quiet
  BY <1>1, <1>4 DEF EnqueueLock, Quiet, WokenForItem, WokenForRoom
<1>5. ASSUME NEW t \in Thread, EnqueueProceed(t) PROVE Quiet
  BY <1>1, <1>5 DEF EnqueueProceed, Quiet, WokenForItem, WokenForRoom
<1>6. ASSUME NEW t \in Thread, EnqueuePut(t) PROVE Quiet
  BY <1>1, <1>6 DEF EnqueuePut, Quiet, WokenForItem, WokenForRoom
<1>7. ASSUME NEW t \in Thread, EnqueueSize(t) PROVE Quiet
  BY <1>1, <1>7 DEF EnqueueSize, Quiet, WokenForItem, WokenForRoom
<1>8. ASSUME NEW t \in Thread, EnqueueUnlock(t) PROVE Quiet
  BY <1>1, <1>8 DEF EnqueueUnlock, Quiet, WokenForItem, WokenForRoom
<1>9. ASSUME NEW t \in Thread, DequeueLock(t) PROVE Quiet
  BY <1>1, <1>9 DEF DequeueLock, Quiet, WokenForItem, WokenForRoom
<1>10. ASSUME NEW t \in Thread, DequeueProceed(t) PROVE Quiet
  BY <1>1, <1>10 DEF DequeueProceed, Quiet, WokenForItem, WokenForRoom
<1>11. ASSUME NEW t \in Thread, DequeueTake(t) PROVE Quiet
  BY <1>1, <1>11 DEF DequeueTake, Quiet, WokenForItem, WokenForRoom
<1>12. ASSUME NEW t \in Thread, DequeueSize(t) PROVE Quiet
  BY <1>1, <1>12 DEF DequeueSize, Quiet, WokenForItem, WokenForRoom
<1>13. ASSUME NEW t \in Thread, DequeueUnlock(t) PROVE Quiet
  BY <1>1, <1>13 DEF DequeueUnlock, Quiet, WokenForItem, WokenForRoom
<1>14. ASSUME NEW t \in Thread, EnqueueWait(t) PROVE CoversItems /\ CoversRoom
  <2>1. /\ size' = size /\ size = buffer_size /\ cond_dequeue' = cond_dequeue
        /\ ItemsDue' = ItemsDue
        /\ WokenForItem' = WokenForItem /\ WokenForRoom' = WokenForRoom
    BY <1>1, <1>14 DEF EnqueueWait, ring, WokenForItem, WokenForRoom
  <2>2. size \in Int /\ ItemsDue \in Int
    BY <1>1
  <2> QED
    BY <1>1, <2>1, <2>2 DEF CoversItems, CoversRoom, Covers
<1>15. ASSUME NEW t \in Thread, DequeueWait(t) PROVE CoversItems /\ CoversRoom
  <2>1. /\ size' = size /\ size = 0 /\ cond_enqueue' = cond_enqueue
        /\ RoomDue' = RoomDue
        /\ WokenForItem' = WokenForItem /\ WokenForRoom' = WokenForRoom
    BY <1>1, <1>15 DEF DequeueWait, ring, WokenForItem, WokenForRoom
  <2>2. RoomDue \in Int
    OBVIOUS
  <2> QED
    BY <1>1, <2>1, <2>2 DEF CoversItems, CoversRoom, Covers
<1>16. ASSUME NEW t \in Thread, EnqueueWoken(t) PROVE CoversItems /\ CoversRoom
  <2>1. /\ size' = size /\ UNCHANGED conds
        /\ ItemsDue' = 0 /\ ItemsDue = 0 /\ RoomDue' = 1 /\ RoomDue = 0
        /\ WokenForItem' = WokenForItem
        /\ WokenForRoom' = WokenForRoom \ {t} /\ t \in WokenForRoom
    BY <1>1, <1>16 DEF EnqueueWoken, ring, conds, WokenForItem, WokenForRoom
  <2> QED
    BY <1>1, <2>1 DEF CoversItems, CoversRoom, Covers, conds
<1>17. ASSUME NEW t \in Thread, DequeueWoken(t) PROVE CoversItems /\ CoversRoom
  <2>1. /\ size' = size /\ UNCHANGED conds
        /\ ItemsDue' = 1 /\ ItemsDue = 0 /\ RoomDue' = 0 /\ RoomDue = 0
        /\ WokenForRoom' = WokenForRoom
        /\ WokenForItem' = WokenForItem \ {t} /\ t \in WokenForItem
    BY <1>1, <1>17 DEF DequeueWoken, ring, conds, WokenForItem, WokenForRoom
  <2> QED
    BY <1>1, <2>1 DEF CoversItems, CoversRoom, Covers, conds
<1>18. ASSUME NEW t \in Thread, EnqueueSignal(t) PROVE CoversItems /\ CoversRoom
  <2>1. /\ size' = size /\ UNCHANGED cond_enqueue
        /\ ItemsDue' = 0 /\ ItemsDue = 1 /\ RoomDue' = 0 /\ RoomDue = 0
        /\ WokenForRoom' = WokenForRoom
    BY <1>1, <1>18 DEF EnqueueSignal, ring, WokenForRoom
  <2>2. CoversRoom
    BY <1>1, <2>1 DEF CoversRoom, Covers
  <2>3. CASE cond_dequeue = {}
    <3>1. cond_dequeue' = {} /\ WokenForItem' = WokenForItem
      BY <1>1, <1>18, <2>3 DEF EnqueueSignal, Signal, WokenForItem
    <3>2. QED
      BY <2>2, <3>1 DEF CoversItems, Covers
  <2>4. CASE cond_dequeue # {}
    <3>1. PICK w \in cond_dequeue : cond_dequeue' = cond_dequeue \ {w}
      BY <1>18, <2>4 DEF EnqueueSignal, Signal
    <3>2. WokenForItem' = WokenForItem \cup {w} /\ w \notin WokenForItem
      BY <1>1, <1>18, <3>1 DEF EnqueueSignal, WokenForItem
    <3>3. QED
      BY <1>1, <2>1, <2>2, <2>4, <3>2 DEF CoversItems, Covers
  <2> QED
    BY <2>3, <2>4
<1>19. ASSUME NEW t \in Thread, DequeueSignal(t) PROVE CoversItems /\ CoversRoom
  <2>1. /\ size' = size /\ UNCHANGED cond_dequeue
        /\ ItemsDue' = 0 /\ ItemsDue = 0 /\ RoomDue' = 0 /\ RoomDue = 1
        /\ WokenForItem' = WokenForItem
    BY <1>1, <1>19 DEF DequeueSignal, ring, WokenForItem
  <2>2. CoversItems
    BY <1>1, <2>1 DEF CoversItems, Covers
  <2>3. CASE cond_enqueue = {}
    <3>1. cond_enqueue' = {} /\ WokenForRoom' = WokenForRoom
      BY <1>1, <1>19, <2>3 DEF DequeueSignal, Signal, WokenForRoom
    <3>2. QED
      BY <2>2, <3>1 DEF CoversRoom, Covers
  <2>4. CASE cond_enqueue # {}
    <3>1. PICK w \in cond_enqueue : cond_enqueue' = cond_enqueue \ {w}
      BY <1>19, <2>4 DEF DequeueSignal, Signal
    <3>2. WokenForRoom' = WokenForRoom \cup {w} /\ w \notin WokenForRoom
      BY <1>1, <1>19, <3>1 DEF DequeueSignal, WokenForRoom
    <3>3. QED
      BY <1>1, <2>1, <2>2, <2>4, <3>2 DEF CoversRoom, Covers
  <2> QED
    BY <2>3, <2>4
<1>20. ASSUME NEW t \in Thread, SpuriousWakeup(t) PROVE CoversItems /\ CoversRoom
  <2>1. /\ size' = size /\ ItemsDue' = ItemsDue /\ RoomDue' = RoomDue
        /\ ItemsDue \in Int /\ RoomDue \in Int
    BY <1>1, <1>20 DEF SpuriousWakeup, ring
  <2>2. CASE t \in cond_enqueue
    <3>1. /\ cond_dequeue' = cond_dequeue /\ WokenForItem' = WokenForItem
          /\ WokenForRoom' = WokenForRoom \cup {t} /\ t \notin WokenForRoom
      BY <1>1, <1>20, <2>2 DEF SpuriousWakeup, WokenForItem, WokenForRoom
    <3>2. QED
      BY <1>1, <2>1, <2>2, <3>1 DEF CoversItems, CoversRoom, Covers
  <2>3. CASE t \in cond_dequeue
    <3>1. /\ cond_enqueue' = cond_enqueue /\ WokenForRoom' = WokenForRoom
          /\ WokenForItem' = WokenForItem \cup {t} /\ t \notin WokenForItem
      BY <1>1, <1>20, <2>3 DEF SpuriousWakeup, WokenForItem, WokenForRoom
    <3>2. QED
      BY <1>1, <2>1, <2>3, <3>1 DEF CoversItems, CoversRoom, Covers
  <2> QED
    BY <1>20, <2>2, <2>3 DEF SpuriousWakeup
<1>21. CASE UNCHANGED vars
  BY <1>1, <1>21 DEF vars, CoversItems, CoversRoom, Covers, WokenForItem, WokenForRoom
<1>22. QED
  BY <1>2, <1>3, <1>4, <1>5, <1>6, <1>7, <1>8, <1>9, <1>10, <1>11, <1>12, <1>13, <1>14,
     <1>15, <1>16, <1>17, <1>18, <1>19, <1>20, <1>21 DEF Next, Enqueuing, Dequeuing

\* Nobody waits at first.
LEMMA WakeupInit == Init => WakeupInv
<1> SUFFICES ASSUME Init PROVE WakeupInv
  OBVIOUS
<1>1. /\ WokenForItem = {} /\ WokenForRoom = {}
      /\ cond_dequeue = {} /\ cond_enqueue = {}
  BY DEF Init, WokenForItem, WokenForRoom
<1>2. QED
  BY <1>1, FS_EmptySet DEF WakeupInv, Covered

\* No signal of ts_queue.hpp is lost, for any capacity and number of threads:
\* enqueue and dequeue signal once for each change of size, a woken thread
\* changes it once, and a call that finds what it waits for takes no more.
THEOREM WakeupsCorrect == Spec => []NoLostWakeup
<1>1. QueueInv /\ QueueInv' /\ WakeupInv /\ [Next]_vars => WakeupInv'
  <2> SUFFICES ASSUME QueueInv, QueueInv', WakeupInv, [Next]_vars PROVE WakeupInv'
    OBVIOUS
  <2>1. CoversItems /\ CoversRoom
    BY WakeupStep
  <2>2. size \in Int /\ size' \in Int /\ buffer_size \in Int
    BY BufferAssumption DEF QueueInv, TypeOK
  <2>3. /\ ItemsDue \in {0, 1} /\ ItemsDue' \in {0, 1}
        /\ RoomDue \in {0, 1} /\ RoomDue' \in {0, 1}
    BY DEF ItemsDue, RoomDue
  <2>4. Covered(size, cond_dequeue, WokenForItem, ItemsDue)'
    BY <2>1, <2>2, <2>3, CoveredStep DEF WakeupInv, CoversItems
  <2>5. buffer_size - size \in Int /\ buffer_size - size' \in Int
    BY <2>2
  <2>6. Covered(buffer_size - size, cond_enqueue, WokenForRoom, RoomDue)'
    BY <2>1, <2>3, <2>5, CoveredStep DEF WakeupInv, CoversRoom
  <2>7. QED
    BY <2>4, <2>6 DEF WakeupInv
<1>2. QueueInv /\ WakeupInv => NoLostWakeup
  <2> SUFFICES ASSUME QueueInv, WakeupInv, mutex = NoThread PROVE NoLostWakeup
    BY DEF NoLostWakeup
  <2>1. ItemsDue = 0 /\ RoomDue = 0
    BY DEF ItemsDue, RoomDue, Phase
  <2>2. /\ IsFiniteSet(WokenForItem) /\ IsFiniteSet(WokenForRoom)
        /\ cond_dequeue # {} => size <= Cardinality(WokenForItem) + 0
        /\ cond_enqueue # {} => buffer_size - size <= Cardinality(WokenForRoom) + 0
    BY <2>1 DEF WakeupInv, Covered
  <2>3. Cardinality(WokenForItem) \in Nat /\ Cardinality(WokenForRoom) \in Nat
    BY <2>2, FS_CardinalityType
  <2>4. /\ cond_dequeue # {} => size <= Cardinality(WokenForItem)
        /\ cond_enqueue # {} => buffer_size - size <= Cardinality(WokenForRoom)
    BY <2>2, <2>3
  <2>5. QED
    BY <2>4 DEF NoLostWakeup, WokenForItem, WokenForRoom
<1>3. QED
  BY <1>1, <1>2, QueueCorrect, WakeupInit, PTL DEF Spec
=============================================================================
