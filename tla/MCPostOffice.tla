---------------------------- MODULE MCPostOffice ----------------------------
(* PostOffice for TLC: two machines, two user threads on one and one on    *)
(* the other.                                                              *)
EXTENDS PostOffice, TLC

CONSTANTS m0, m1, u1, u2, v1, w0, w1

MCHome == u1 :> m0 @@ u2 :> m0 @@ w0 :> m0 @@ v1 :> m1 @@ w1 :> m1
MCWorker == m0 :> w0 @@ m1 :> w1

Send(t, n, m, b) == [op |-> "Send", arg |-> Mail(t, n, m, b)]
Get(b) == [op |-> "Receive", arg |-> [box |-> b]]

MCWorkload ==
    { \* Kernel::NetworkTest: a message and an acknowledgement each way
      (u1 :> <<Send(u1, 1, m1, 0), Get(0), Send(u1, 2, m1, 1), Get(1)>> @@ u2 :> <<>>
          @@ v1 :> <<Send(v1, 1, m0, 0), Get(0), Send(v1, 2, m0, 1), Get(1)>>),
      \* two senders on one machine, two boxes on the other
      (u1 :> <<Send(u1, 1, m1, 0), Send(u1, 2, m1, 0)>>
          @@ u2 :> <<Send(u2, 1, m1, 1)>>
          @@ v1 :> <<Get(0)>>) }
=============================================================================
