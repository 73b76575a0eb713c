---------------------------- MODULE AtomicStore ----------------------------
(***************************************************************************)
(* What the synchronous disk promises its callers: sectors that are read   *)
(* and written as a whole.  A call is three steps: it is made, it takes    *)
(* effect at one instant, and it returns.                                  *)
(***************************************************************************)
CONSTANTS Thread,   \* the threads that may call
          Sector,   \* the places of the store
          Value,    \* the contents of a sector
          NoValue   \* no argument and no result

VARIABLES store,    \* the contents of every sector
          call,     \* the call of each thread and how far it has come
          val       \* the value it writes or has read

vars == <<store, call, val>>

None == [op |-> "none", sector |-> NoValue]

Init == /\ store \in [Sector -> Value]
        /\ call = [t \in Thread |-> None]
        /\ val = [t \in Thread |-> NoValue]

CallRead(t, s) == /\ call[t] = None
                  /\ call' = [call EXCEPT ![t] = [op |-> "read", sector |-> s]]
                  /\ UNCHANGED <<store, val>>

CallWrite(t, s, v) == /\ call[t] = None
                      /\ call' = [call EXCEPT ![t] = [op |-> "write", sector |-> s]]
                      /\ val' = [val EXCEPT ![t] = v]
                      /\ UNCHANGED store

Read(t) == /\ call[t].op = "read"
           /\ val' = [val EXCEPT ![t] = store[call[t].sector]]
           /\ call' = [call EXCEPT ![t].op = "done"]
           /\ UNCHANGED store

Write(t) == /\ call[t].op = "write"
            /\ store' = [store EXCEPT ![call[t].sector] = val[t]]
            /\ call' = [call EXCEPT ![t].op = "done"]
            /\ UNCHANGED val

Return(t) == /\ call[t].op = "done"
             /\ call' = [call EXCEPT ![t] = None]
             /\ val' = [val EXCEPT ![t] = NoValue]
             /\ UNCHANGED store

Next == \E t \in Thread : \/ \E s \in Sector : \/ CallRead(t, s)
                                               \/ \E v \in Value : CallWrite(t, s, v)
                          \/ Read(t) \/ Write(t) \/ Return(t)

Spec == Init /\ [][Next]_vars
=============================================================================
