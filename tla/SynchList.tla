----------------------------- MODULE SynchList -----------------------------
(***************************************************************************)
(* The synchronised list (threads/synchlist.cc): a List behind a Lock and  *)
(* a Condition with Mesa semantics (threads/synch.cc).  Each wait on the   *)
(* condition has a semaphore of its own, `waiter`, created by the thread   *)
(* that waits and posted by the one that signals.                          *)
(***************************************************************************)
EXTENDS Synch

CONSTANTS Item,      \* what is put on the list
          NoItem     \* no argument, no result

VARIABLES list,      \* the items, oldest first
          waitQueue, \* the Condition: the threads whose semaphore is queued
          waiter     \* the semaphore of each thread's wait

listVars == <<list, waitQueue, waiter>>

ListInit == /\ list = <<>>
            /\ waitQueue = <<>>
            /\ waiter = [t \in Thread |-> NewSemaphore(0)]

-----------------------------------------------------------------------------
ListAcquire(t) ==
    /\ \/ At(t, "append.acquire") /\ Acquire(t, "list", "append.put")
       \/ At(t, "remove.acquire") /\ Acquire(t, "list", "remove.test")
       \/ At(t, "apply.acquire")  /\ Acquire(t, "list", "apply.run")
    /\ UNCHANGED <<callVars, listVars>>

\* Mutant: the item goes to the front.
AppendAtFront(t) ==
    /\ At(t, "append.put") /\ Goto(t, "append.signal")
    /\ list' = <<cur[t].arg>> \o list
    /\ UNCHANGED <<synchVars, callVars, waitQueue, waiter>>

\* Append: the item goes to the end of the list ...
AppendPut(t) ==
    /\ At(t, "append.put") /\ Goto(t, "append.signal")
    /\ list' = Append(list, cur[t].arg)
    /\ UNCHANGED <<synchVars, callVars, waitQueue, waiter>>

\* Mutant: a waiter is woken only when the list was empty.
SignalOnlyFirst(t) ==
    /\ At(t, "append.signal") /\ Goto(t, "list.disown")
    /\ \/ /\ waitQueue = <<>> \/ Len(list) > 1
          /\ UNCHANGED <<waitQueue, waiter>>
       \/ /\ waitQueue # <<>> /\ Len(list) <= 1
          /\ waiter' = [waiter EXCEPT ![Head(waitQueue)] = Up(@)]
          /\ waitQueue' = Tail(waitQueue)
    /\ UNCHANGED <<synchVars, callVars, list>>

\* ... and one waiter, if any, is woken (Condition::Signal).
AppendSignal(t) ==
    /\ At(t, "append.signal") /\ Goto(t, "list.disown")
    /\ \/ /\ waitQueue = <<>>
          /\ UNCHANGED <<waitQueue, waiter>>
       \/ /\ waitQueue # <<>>
          /\ waiter' = [waiter EXCEPT ![Head(waitQueue)] = Up(@)]
          /\ waitQueue' = Tail(waitQueue)
    /\ UNCHANGED <<synchVars, callVars, list>>

\* RemoveFront: wait while the list is empty, then take the first item.
RemoveTest(t) ==
    /\ At(t, "remove.test")
    /\ Goto(t, IF list = <<>> THEN "remove.wait" ELSE "remove.take")
    /\ UNCHANGED <<synchVars, callVars, listVars>>

RemoveTake(t) ==
    /\ At(t, "remove.take") /\ Goto(t, "list.disown")
    /\ Returns(t, Head(list))
    /\ list' = Tail(list)
    /\ UNCHANGED <<synchVars, cur, waitQueue, waiter>>

\* Condition::Wait: enlist a new semaphore and release the lock, ...
RemoveWait(t) ==
    /\ At(t, "remove.wait") /\ Goto(t, "remove.unlock")
    /\ waiter' = [waiter EXCEPT ![t] = NewSemaphore(0)]
    /\ waitQueue' = Append(waitQueue, t)
    /\ Disown(t, "list")
    /\ UNCHANGED <<sem, callVars, list>>

RemoveUnlock(t) ==
    /\ At(t, "remove.unlock") /\ Goto(t, "remove.sleep")
    /\ V("list")
    /\ UNCHANGED <<holder, callVars, listVars>>

\* ... then wait on the semaphore and acquire the lock again.
RemoveSleep(t) ==
    /\ At(t, "remove.sleep")
    /\ ~ Asleep(waiter[t], t)
    /\ waiter' = [waiter EXCEPT ![t] = Down(@, t)]
    /\ pc' = IF waiter[t].value = 0 THEN pc
                                    ELSE [pc EXCEPT ![t] = "remove.acquire"]
    /\ UNCHANGED <<synchVars, callVars, list, waitQueue>>

\* Apply visits every item under the lock.
ApplyRun(t) ==
    /\ At(t, "apply.run") /\ Goto(t, "list.disown")
    /\ Returns(t, list)
    /\ UNCHANGED <<synchVars, cur, listVars>>

ListDisown(t) ==
    /\ At(t, "list.disown") /\ Goto(t, "list.unlock")
    /\ Disown(t, "list")
    /\ UNCHANGED <<sem, callVars, listVars>>

ListUnlock(t) ==
    /\ At(t, "list.unlock") /\ Goto(t, "idle")
    /\ V("list")
    /\ UNCHANGED <<holder, callVars, listVars>>

ListStep(t) ==
    \/ ListAcquire(t)
    \/ AppendPut(t)  \/ AppendSignal(t)
    \/ RemoveTest(t) \/ RemoveTake(t)
    \/ RemoveWait(t) \/ RemoveUnlock(t) \/ RemoveSleep(t)
    \/ ApplyRun(t)
    \/ ListDisown(t) \/ ListUnlock(t)
=============================================================================
