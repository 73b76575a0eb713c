---------------------------- MODULE BoundedFifo ----------------------------
(***************************************************************************)
(* What a queue promises the threads that call it: first in, first out,    *)
(* within bounds if it has any.  A call is three steps: it is made, it     *)
(* takes effect at one instant (an enqueue only while there is room, a     *)
(* dequeue only while there is an item) and it returns.                    *)
(***************************************************************************)
EXTENDS Naturals, Sequences

CONSTANTS Thread,      \* the threads that may call the queue
          Item,        \* the values that may be queued
          Room,        \* the lengths at which there is room for one more
          NoItem       \* no argument and no result

VARIABLES fifo,        \* the queued items, oldest first
          call,        \* what each thread is doing with the queue
          val          \* its argument (enqueue) or result (dequeue)

vars == <<fifo, call, val>>

Init == /\ fifo = <<>>
        /\ call = [t \in Thread |-> "none"]
        /\ val  = [t \in Thread |-> NoItem]

CallEnqueue(t, x) == /\ call[t] = "none"
                     /\ call' = [call EXCEPT ![t] = "enqueue"]
                     /\ val'  = [val EXCEPT ![t] = x]
                     /\ UNCHANGED fifo

CallDequeue(t) == /\ call[t] = "none"
                  /\ call' = [call EXCEPT ![t] = "dequeue"]
                  /\ UNCHANGED <<fifo, val>>

Enqueue(t) == /\ call[t] = "enqueue"
              /\ Len(fifo) \in Room
              /\ fifo' = Append(fifo, val[t])
              /\ call' = [call EXCEPT ![t] = "done"]
              /\ UNCHANGED val

Dequeue(t) == /\ call[t] = "dequeue"
              /\ fifo # <<>>
              /\ fifo' = Tail(fifo)
              /\ val'  = [val EXCEPT ![t] = Head(fifo)]
              /\ call' = [call EXCEPT ![t] = "done"]

Return(t) == /\ call[t] = "done"
             /\ call' = [call EXCEPT ![t] = "none"]
             /\ val'  = [val EXCEPT ![t] = NoItem]
             /\ UNCHANGED fifo

Next == \E t \in Thread : \/ \E x \in Item : CallEnqueue(t, x)
                          \/ CallDequeue(t)
                          \/ Enqueue(t)
                          \/ Dequeue(t)
                          \/ Return(t)

Spec == Init /\ [][Next]_vars
=============================================================================
