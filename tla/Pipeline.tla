------------------------------ MODULE Pipeline ------------------------------
(***************************************************************************)
(* One run of the Pthread project (one_run in main.cpp): a reader feeds    *)
(* the input queue, producers move items to the worker queue, consumers    *)
(* move them to the writer queue and a writer prints them.  A SIGALRM      *)
(* handler, the consumer controller, starts and cancels consumers; nothing *)
(* keeps a second SIGALRM from being handled by another thread before the  *)
(* first is done.  A call of a TSQueue is one step here: TSQueueProofs     *)
(* shows that it takes effect at one instant.                              *)
(***************************************************************************)
EXTENDS Integers, Sequences, FiniteSets

CONSTANTS Lines,                \* expected_lines: items in the input file
          ReaderQueueSize, WriterQueueSize,
          Runs,                 \* parameters main() calls one_run with
          Producer,             \* the producer threads
          Consumer,             \* bound: consumer objects, and consumer
                                \* threads, alive at one time
          Signal,               \* SIGALRMs that may be handled at one time
          MaxOverlaps,          \* bound: handlers entered inside another one
          Null,                 \* no item in hand, no consumer
          HoistedRead           \* the compiler may hoist producers' get_size()

ASSUME SizeAssumption ==
    /\ Lines \in Nat \ {0}
    /\ {ReaderQueueSize, WriterQueueSize} \subseteq Nat \ {0}
    /\ Runs \subseteq [wk_qs : Nat \ {0}, cs_h_th : 0 .. 100, cs_l_th : 0 .. 100]
ASSUME SignalAssumption == MaxOverlaps \in Nat
ASSUME HoistAssumption == HoistedRead \in BOOLEAN

VARIABLES
    run,                                      \* the parameters of this run
    expected_lines,                           \* of the reader
    input_queue, worker_queue, writer_queue,  \* of Item pointers
    ppc, pitem,                               \* each producer and its `it`
    cpc, citem, self,                         \* each consumer thread, its `it`
                                              \* and the object it runs
    alive, is_cancel,                         \* Consumer objects, one member
    consumers,                                \* the controller's vector
    global_ctr,                               \* whether the pointer is set
    sigalrm,                                  \* what SIGALRM does
    hpc, mine, seen,                          \* each handler and its locals
    overlaps,                                 \* handlers entered inside another
    output,                                   \* what the writer has written
    main,                                     \* where one_run is
    crashed                                   \* freed memory was dereferenced

queues   == <<input_queue, worker_queue, writer_queue>>
prods    == <<ppc, pitem>>
conses   == <<cpc, citem, self, alive, is_cancel>>
handlers == <<hpc, mine, seen>>
control  == <<consumers, global_ctr, sigalrm, handlers, overlaps>>
vars     == <<run, expected_lines, queues, prods, conses, control, output, main,
              crashed>>

\* The constructor's parameters are (low_threshold, high_threshold); one_run
\* passes cs_h_th's size as the first and cs_l_th's as the second.
low_threshold  == (run.wk_qs * run.cs_h_th) \div 100
high_threshold == (run.wk_qs * run.cs_l_th) \div 100

\* An item is its key and the transforms applied to its value so far.
Item == [key : 1 .. Lines, val : {<<>>, <<"p">>, <<"p", "c">>}]

ASSUME ThreadAssumption == IsFiniteSet(Producer) /\ IsFiniteSet(Consumer)
ASSUME NullAssumption == Null \notin Item /\ Null \notin Consumer

Transformed(it, f) == [it EXCEPT !.val = Append(@, f)]

Room(q, max) == Len(q) < max

-----------------------------------------------------------------------------
Init == /\ run \in Runs
        /\ expected_lines = Lines
        /\ input_queue = <<>> /\ worker_queue = <<>> /\ writer_queue = <<>>
        /\ ppc = [p \in Producer |-> "poll"]
        /\ pitem = [p \in Producer |-> Null]
        /\ cpc = [t \in Consumer |-> "none"]
        /\ citem = [t \in Consumer |-> Null]
        /\ self = [t \in Consumer |-> Null]
        /\ alive = {}
        /\ is_cancel = [c \in Consumer |-> FALSE]
        /\ consumers = <<>>
        /\ global_ctr = TRUE
        /\ sigalrm = "ignored"
        /\ hpc = [h \in Signal |-> "idle"]
        /\ mine = [h \in Signal |-> Null]
        /\ seen = [h \in Signal |-> <<>>]
        /\ overlaps = 0
        /\ output = <<>>
        /\ main = "join_reader"
        /\ crashed = FALSE

\* The process runs until one_run returns and exit(0) is called.
Running == ~crashed /\ main # "exit"
\* The queues exist until one_run deletes them.
QueuesAlive == Running /\ main # "queues_deleted"

-----------------------------------------------------------------------------
ReadLine == /\ QueuesAlive
            /\ expected_lines > 0
            /\ Room(input_queue, ReaderQueueSize)
            /\ input_queue' = Append(input_queue,
                                [key |-> Lines - expected_lines + 1, val |-> <<>>])
            /\ expected_lines' = expected_lines - 1
            /\ UNCHANGED <<run, worker_queue, writer_queue, prods, conses, control,
                           output, main, crashed>>

\* get_size() takes no lock.  Nothing in the producer's empty iteration stops
\* the compiler from reading size once: g++ -O3 emits a jump to itself.
ProducerPoll(p) ==
    /\ QueuesAlive
    /\ ppc[p] = "poll"
    /\ \/ /\ input_queue # <<>>
          /\ ppc' = [ppc EXCEPT ![p] = "dequeue"]
       \/ /\ input_queue = <<>> /\ HoistedRead
          /\ ppc' = [ppc EXCEPT ![p] = "spin"]
    /\ UNCHANGED <<run, expected_lines, queues, pitem, conses, control, output,
                   main, crashed>>

ProducerDequeue(p) ==
    /\ QueuesAlive
    /\ ppc[p] = "dequeue"
    /\ input_queue # <<>>
    /\ pitem' = [pitem EXCEPT ![p] = Head(input_queue)]
    /\ input_queue' = Tail(input_queue)
    /\ ppc' = [ppc EXCEPT ![p] = "enqueue"]
    /\ UNCHANGED <<run, expected_lines, worker_queue, writer_queue, conses, control,
                   output, main, crashed>>

ProducerEnqueue(p) ==
    /\ QueuesAlive
    /\ ppc[p] = "enqueue"
    /\ Room(worker_queue, run.wk_qs)
    /\ worker_queue' = Append(worker_queue, Transformed(pitem[p], "p"))
    /\ pitem' = [pitem EXCEPT ![p] = Null]
    /\ ppc' = [ppc EXCEPT ![p] = "poll"]
    /\ UNCHANGED <<run, expected_lines, input_queue, writer_queue, conses, control,
                   output, main, crashed>>

-----------------------------------------------------------------------------
\* What is undefined may go well or end the process.
MayCrash(undefined) == crashed' \in {FALSE, undefined}

\* while (!consumer->is_cancel), and the `delete consumer` after the loop.
\* Two threads may run one object: freed memory keeps its contents until it is
\* a consumer again, and the second of them frees it once more.
ConsumerTest(t) ==
    /\ Running
    /\ cpc[t] = "test"
    /\ \/ /\ ~ is_cancel[self[t]]
          /\ cpc' = [cpc EXCEPT ![t] = "poll"]
          /\ UNCHANGED <<self, alive, crashed>>
       \/ /\ is_cancel[self[t]]
          /\ cpc' = [cpc EXCEPT ![t] = "none"]
          /\ self' = [self EXCEPT ![t] = Null]
          /\ alive' = alive \ {self[t]}
          /\ MayCrash(self[t] \notin alive)
    /\ UNCHANGED <<run, expected_lines, queues, prods, citem, is_cancel, control,
                   output, main>>

ConsumerPoll(t) ==
    /\ QueuesAlive
    /\ cpc[t] = "poll"
    /\ cpc' = [cpc EXCEPT ![t] = IF worker_queue # <<>> THEN "dequeue" ELSE "test"]
    /\ UNCHANGED <<run, expected_lines, queues, prods, citem, self, alive,
                   is_cancel, control, output, main, crashed>>

ConsumerDequeue(t) ==
    /\ QueuesAlive
    /\ cpc[t] = "dequeue"
    /\ worker_queue # <<>>
    /\ citem' = [citem EXCEPT ![t] = Head(worker_queue)]
    /\ worker_queue' = Tail(worker_queue)
    /\ cpc' = [cpc EXCEPT ![t] = "enqueue"]
    /\ UNCHANGED <<run, expected_lines, input_queue, writer_queue, prods, self,
                   alive, is_cancel, control, output, main, crashed>>

\* Mutant: a cancelled consumer quits with its item in hand.
ConsumerEnqueueQuits(t) ==
    /\ QueuesAlive
    /\ cpc[t] = "enqueue"
    /\ \/ is_cancel[self[t]] /\ UNCHANGED writer_queue
       \/ /\ ~is_cancel[self[t]] /\ Room(writer_queue, WriterQueueSize)
          /\ writer_queue' = Append(writer_queue, Transformed(citem[t], "c"))
    /\ citem' = [citem EXCEPT ![t] = Null]
    /\ cpc' = [cpc EXCEPT ![t] = "test"]
    /\ UNCHANGED <<run, expected_lines, input_queue, worker_queue, prods, self,
                   alive, is_cancel, control, output, main, crashed>>

ConsumerEnqueue(t) ==
    /\ QueuesAlive
    /\ cpc[t] = "enqueue"
    /\ Room(writer_queue, WriterQueueSize)
    /\ writer_queue' = Append(writer_queue, Transformed(citem[t], "c"))
    /\ citem' = [citem EXCEPT ![t] = Null]
    /\ cpc' = [cpc EXCEPT ![t] = "test"]
    /\ UNCHANGED <<run, expected_lines, input_queue, worker_queue, prods, self,
                   alive, is_cancel, control, output, main, crashed>>

-----------------------------------------------------------------------------
\* ConsumerController::process: the handler is set, then the timer.  sa_flags
\* is not initialized: with SA_RESETHAND in it the handler serves one signal.
ArmTimer == /\ Running
            /\ sigalrm = "ignored"
            /\ sigalrm' \in {"handler", "handler_once"}
            /\ UNCHANGED <<run, expected_lines, queues, prods, conses, consumers,
                           global_ctr, handlers, overlaps, output, main, crashed>>

\* The default action of SIGALRM, when the handler has been reset.
AlarmKills == /\ Running
              /\ sigalrm = "default"
              /\ crashed' = TRUE
              /\ UNCHANGED <<run, expected_lines, queues, prods, conses, control,
                             output, main>>

Inside(h) == hpc[h] # "idle"
Interrupted(h) == \E g \in Signal \ {h} : Inside(g)

\* SIGALRM: the handler tests global_ctr, and the size of the queue it reads
\* decides what it does.  The signal is the process's: while one thread handles
\* it, another may be given the next one (and the same thread, if SA_NODEFER is
\* in sa_flags).
HandlerEnter(h) ==
    /\ Running
    /\ sigalrm \in {"handler", "handler_once"}
    /\ ~ Inside(h) /\ global_ctr
    /\ Interrupted(h) => overlaps < MaxOverlaps
    /\ overlaps' = IF Interrupted(h) THEN overlaps + 1 ELSE overlaps
    /\ sigalrm' = IF sigalrm = "handler_once" THEN "default" ELSE sigalrm
    /\ LET wk_sz == Len(worker_queue)
       IN  hpc' = [hpc EXCEPT ![h] = IF wk_sz > high_threshold THEN "up"
                                     ELSE IF wk_sz < low_threshold THEN "down" ELSE "idle"]
    /\ UNCHANGED <<run, expected_lines, queues, prods, conses, consumers,
                   global_ctr, mine, seen, output, main, crashed>>

\* The handler returns.
HandlerExit(h) == /\ hpc' = [hpc EXCEPT ![h] = "idle"]
                  /\ mine' = [mine EXCEPT ![h] = Null]
                  /\ seen' = [seen EXCEPT ![h] = <<>>]

\* new Consumer, and push_back() reads the vector's end.
ScaleUp(h) ==
    /\ Running /\ global_ctr
    /\ hpc[h] = "up"
    /\ \E c \in Consumer \ alive :
         /\ alive' = alive \cup {c}
         /\ is_cancel' = [is_cancel EXCEPT ![c] = FALSE]
         /\ mine' = [mine EXCEPT ![h] = c]
    /\ hpc' = [hpc EXCEPT ![h] = "push_back"]
    /\ seen' = [seen EXCEPT ![h] = consumers]
    /\ UNCHANGED <<run, expected_lines, queues, prods, cpc, citem, self, consumers,
                   global_ctr, sigalrm, overlaps, output, main, crashed>>

\* push_back() writes the vector: of two handlers that change it at once, one
\* loses its change (or, if the vector is being moved, its memory).
PushBack(h) ==
    /\ Running /\ global_ctr
    /\ hpc[h] = "push_back"
    /\ consumers' = Append(seen[h], mine[h])
    /\ MayCrash(seen[h] # consumers)
    /\ hpc' = [hpc EXCEPT ![h] = "start"]
    /\ mine' = [mine EXCEPT ![h] = Null]
    /\ seen' = [seen EXCEPT ![h] = <<>>]
    /\ UNCHANGED <<run, expected_lines, queues, prods, conses, global_ctr,
                   sigalrm, overlaps, output, main>>

\* The last element, or what lies before the first.
Back(s) == IF s = <<>> THEN Null ELSE s[Len(s)]

\* What pthread_create may make for the object c: a thread; nothing when none is
\* left at the bound (start() does not look at its result) or c is no object.
Threads(c) == LET T == {t \in Consumer : cpc[t] = "none"}
              IN  IF c = Null \/ T = {} THEN {Null}
                  ELSE IF c \in T THEN {c} ELSE T

\* consumers.back()->start(): the last consumer, not the one this handler made.
StartBack(h) ==
    /\ Running /\ global_ctr
    /\ hpc[h] = "start"
    /\ LET c == Back(consumers)
       IN  /\ \E t \in Threads(c) :
                /\ cpc' = [u \in Consumer |-> IF u = t THEN "test" ELSE cpc[u]]
                /\ self' = [u \in Consumer |-> IF u = t THEN c ELSE self[u]]
           /\ MayCrash(c \notin alive)
    /\ HandlerExit(h)
    /\ UNCHANGED <<run, expected_lines, queues, prods, citem, alive, is_cancel,
                   consumers, global_ctr, sigalrm, overlaps, output, main>>

\* Bound: with every member of Consumer alive the handler does nothing.
NoMoreConsumers(h) ==
    /\ Running /\ global_ctr
    /\ hpc[h] = "up"
    /\ Consumer \subseteq alive
    /\ HandlerExit(h)
    /\ UNCHANGED <<run, expected_lines, queues, prods, conses, consumers,
                   global_ctr, sigalrm, overlaps, output, main, crashed>>

\* The handler compares cm_sz, the size it reads.
ScaleDownTest == LET cm_sz == Len(consumers) IN cm_sz > 1

ScaleDown(h) ==
    /\ Running /\ global_ctr
    /\ hpc[h] = "down" /\ ScaleDownTest
    /\ hpc' = [hpc EXCEPT ![h] = "cancel"]
    /\ UNCHANGED <<run, expected_lines, queues, prods, conses, consumers,
                   global_ctr, sigalrm, mine, seen, overlaps, output, main, crashed>>

\* consumers.back()->cancel(), first statement.
SetCancel(h) ==
    /\ Running /\ global_ctr
    /\ hpc[h] = "cancel"
    /\ LET c == Back(consumers)
       IN  /\ is_cancel' = [d \in Consumer |-> d = c \/ is_cancel[d]]
           /\ mine' = [mine EXCEPT ![h] = c]
           /\ MayCrash(c \notin alive)
    /\ hpc' = [hpc EXCEPT ![h] = "pthread_cancel"]
    /\ UNCHANGED <<run, expected_lines, queues, prods, cpc, citem, self, alive,
                   consumers, global_ctr, sigalrm, seen, overlaps, output,
                   main>>

\* Second statement: pthread_cancel(t) reads a member of the consumer, which
\* may have seen is_cancel and deleted itself, or was never started.  Its thread
\* reaches no cancellation point with cancellation enabled and ends by is_cancel
\* only.  Then pop_back() reads the vector.
PthreadCancel(h) ==
    /\ Running
    /\ hpc[h] = "pthread_cancel"
    /\ MayCrash(mine[h] \notin {self[t] : t \in Consumer})
    /\ hpc' = [hpc EXCEPT ![h] = "pop_back"]
    /\ mine' = [mine EXCEPT ![h] = Null]
    /\ seen' = [seen EXCEPT ![h] = consumers]
    /\ UNCHANGED <<run, expected_lines, queues, prods, conses, consumers, global_ctr,
                   sigalrm, overlaps, output, main>>

\* Mutant: the cancelled consumer stays in the vector.
PopBackForgotten(h) ==
    /\ Running /\ global_ctr
    /\ hpc[h] = "pop_back"
    /\ HandlerExit(h)
    /\ UNCHANGED <<run, expected_lines, queues, prods, conses, consumers,
                   global_ctr, sigalrm, overlaps, output, main, crashed>>

\* pop_back() writes it.
PopBack(h) ==
    /\ Running /\ global_ctr
    /\ hpc[h] = "pop_back"
    /\ consumers' = SubSeq(seen[h], 1, Len(seen[h]) - 1)
    /\ MayCrash(seen[h] = <<>> \/ seen[h] # consumers)
    /\ HandlerExit(h)
    /\ UNCHANGED <<run, expected_lines, queues, prods, conses, global_ctr, sigalrm,
                   overlaps, output, main>>

HandlerNothing(h) ==
    /\ Running /\ global_ctr
    /\ hpc[h] = "down" /\ ~ScaleDownTest
    /\ HandlerExit(h)
    /\ UNCHANGED <<run, expected_lines, queues, prods, conses, consumers,
                   global_ctr, sigalrm, overlaps, output, main, crashed>>

\* one_run deleted the controller after the handler tested global_ctr.
HandlerDangles(h) ==
    /\ Running /\ ~global_ctr
    /\ Inside(h)
    /\ HandlerExit(h)
    /\ MayCrash(TRUE)
    /\ UNCHANGED <<run, expected_lines, queues, prods, conses, consumers,
                   global_ctr, sigalrm, overlaps, output, main>>

Alarm == AlarmKills \/ \E h \in Signal : HandlerEnter(h)

HandlerStep(h) ==
    \/ ScaleUp(h) \/ PushBack(h) \/ StartBack(h) \/ NoMoreConsumers(h)
    \/ ScaleDown(h) \/ SetCancel(h) \/ PthreadCancel(h) \/ PopBack(h)
    \/ HandlerNothing(h) \/ HandlerDangles(h)

-----------------------------------------------------------------------------
WriteLine == /\ QueuesAlive
             /\ Len(output) < Lines
             /\ writer_queue # <<>>
             /\ output' = Append(output, Head(writer_queue))
             /\ writer_queue' = Tail(writer_queue)
             /\ UNCHANGED <<run, expected_lines, input_queue, worker_queue, prods,
                            conses, control, main, crashed>>

JoinReader == /\ Running
              /\ main = "join_reader" /\ expected_lines = 0
              /\ main' = "join_writer"
              /\ UNCHANGED <<run, expected_lines, queues, prods, conses, control,
                             output, crashed>>

\* Mutant: main does not wait for the writer.
JoinWriterNoWait == /\ Running
                    /\ main = "join_writer"
                    /\ main' = "delete_ctr"
                    /\ UNCHANGED <<run, expected_lines, queues, prods, conses, control,
                                   output, crashed>>

JoinWriter == /\ Running
              /\ main = "join_writer" /\ Len(output) = Lines
              /\ main' = "delete_ctr"
              /\ UNCHANGED <<run, expected_lines, queues, prods, conses, control,
                             output, crashed>>

DeleteController == /\ Running
                    /\ main = "delete_ctr"
                    /\ global_ctr' = FALSE
                    /\ main' = "delete_queues"
                    /\ UNCHANGED <<run, expected_lines, queues, prods, conses, consumers,
                                   sigalrm, handlers, overlaps, output, crashed>>

DeleteQueues == /\ Running
                /\ main = "delete_queues"
                /\ main' = "queues_deleted"
                /\ UNCHANGED <<run, expected_lines, queues, prods, conses, control,
                               output, crashed>>

\* The producers and consumers were never joined: until the process exits
\* they use the deleted queues.
DanglingQueueUse == /\ Running /\ main = "queues_deleted"
                    /\ \/ \E p \in Producer : ppc[p] # "spin"
                       \/ \E c \in Consumer : cpc[c] \in {"poll", "dequeue", "enqueue"}
                    /\ crashed' = TRUE
                    /\ UNCHANGED <<run, expected_lines, queues, prods, conses, control,
                                   output, main>>

Exit == /\ Running
        /\ main = "queues_deleted"
        /\ main' = "exit"
        /\ UNCHANGED <<run, expected_lines, queues, prods, conses, control, output, crashed>>

\* The process is gone.
Ended == ~Running /\ UNCHANGED vars

-----------------------------------------------------------------------------
ProducerStep(p) == ProducerPoll(p) \/ ProducerDequeue(p) \/ ProducerEnqueue(p)
ConsumerStep(t) == ConsumerTest(t) \/ ConsumerPoll(t) \/ ConsumerDequeue(t)
                   \/ ConsumerEnqueue(t)
Main == \/ JoinReader \/ JoinWriter \/ DeleteController \/ DeleteQueues \/ Exit

Next == \/ ReadLine \/ WriteLine \/ ArmTimer \/ Alarm \/ Main
        \/ \E h \in Signal : HandlerStep(h)
        \/ \E p \in Producer : ProducerStep(p)
        \/ \E t \in Consumer : ConsumerStep(t)
        \/ DanglingQueueUse
        \/ Ended

\* Every thread keeps running and the timer keeps firing.
Fairness == /\ WF_vars(ReadLine) /\ WF_vars(WriteLine)
            /\ WF_vars(ArmTimer) /\ WF_vars(Alarm) /\ WF_vars(Main)
            /\ \A h \in Signal : WF_vars(HandlerStep(h))
            /\ \A p \in Producer : WF_vars(ProducerStep(p))
            /\ \A t \in Consumer : WF_vars(ConsumerStep(t))

Spec == Init /\ [][Next]_vars
FairSpec == Spec /\ Fairness

-----------------------------------------------------------------------------
TypeOK ==
    /\ run \in Runs
    /\ expected_lines \in 0 .. Lines
    /\ input_queue \in Seq(Item) /\ Len(input_queue) <= ReaderQueueSize
    /\ worker_queue \in Seq(Item) /\ Len(worker_queue) <= run.wk_qs
    /\ writer_queue \in Seq(Item) /\ Len(writer_queue) <= WriterQueueSize
    /\ ppc \in [Producer -> {"poll", "dequeue", "enqueue", "spin"}]
    /\ pitem \in [Producer -> Item \cup {Null}]
    /\ cpc \in [Consumer -> {"none", "test", "poll", "dequeue", "enqueue"}]
    /\ citem \in [Consumer -> Item \cup {Null}]
    /\ self \in [Consumer -> Consumer \cup {Null}]
    /\ alive \in SUBSET Consumer
    /\ is_cancel \in [Consumer -> BOOLEAN]
    /\ consumers \in Seq(Consumer)
    /\ {global_ctr, crashed} \subseteq BOOLEAN
    /\ sigalrm \in {"ignored", "handler", "handler_once", "default"}
    /\ hpc \in [Signal -> {"idle", "up", "push_back", "start", "down", "cancel",
                           "pthread_cancel", "pop_back"}]
    /\ mine \in [Signal -> Consumer \cup {Null}]
    /\ seen \in [Signal -> Seq(Consumer)]
    /\ overlaps \in 0 .. MaxOverlaps
    /\ output \in Seq(Item)
    /\ main \in {"join_reader", "join_writer", "delete_ctr", "delete_queues",
                 "queues_deleted", "exit"}

Count(q, k) == Cardinality({i \in 1 .. Len(q) : q[i].key = k})
Holders(item, k) == {t \in DOMAIN item : item[t] # Null /\ item[t].key = k}

\* Where the item with key k is, counted once for every place that has it.
Copies(k) == Count(input_queue, k) + Cardinality(Holders(pitem, k))
             + Count(worker_queue, k) + Cardinality(Holders(citem, k))
             + Count(writer_queue, k) + Count(output, k)

AllVal(q, v) == \A i \in 1 .. Len(q) : q[i].val = v

\* No item is lost, duplicated or transformed twice, however producers race
\* between get_size() and dequeue() and however consumers are cancelled: each
\* line read is in exactly one place, transformed as far as that place implies.
ExactlyOnce ==
    /\ \A k \in 1 .. Lines :
          Copies(k) = IF k <= Lines - expected_lines THEN 1 ELSE 0
    /\ AllVal(input_queue, <<>>) /\ AllVal(worker_queue, <<"p">>)
    /\ AllVal(writer_queue, <<"p", "c">>) /\ AllVal(output, <<"p", "c">>)

\* The last consumer of the vector is being started or has just been cancelled.
Changing == \E h \in Signal : hpc[h] \in {"start", "pthread_cancel", "pop_back"}
Cancelling == \E h \in Signal : hpc[h] \in {"cancel", "pthread_cancel", "pop_back"}

\* As long as no handler was entered inside another one: while the controller
\* exists, its vector is exactly the consumers whose threads run and were not
\* cancelled, each once, but for the last element between push_back() and start()
\* and between cancel() and pop_back(); and the last of them is not cancelled.
VectorOwnsLive ==
    LET kept == IF Changing THEN Len(consumers) - 1 ELSE Len(consumers)
    IN  global_ctr /\ overlaps = 0 =>
        /\ {consumers[i] : i \in 1 .. kept}
             = {self[t] : t \in {u \in Consumer : cpc[u] # "none" /\ ~is_cancel[self[u]]}}
        /\ \A i, j \in 1 .. Len(consumers) : i # j => consumers[i] # consumers[j]
        /\ Cancelling => Len(consumers) > 1

\* one_run joins the reader and the writer but not the producers and the
\* consumers: when it starts deleting what they share, they have nothing left
\* to do, and a crash from there on cannot cost a line of output.
TeardownLosesNothing ==
    main \in {"delete_queues", "queues_deleted", "exit"} =>
      /\ input_queue = <<>> /\ worker_queue = <<>> /\ writer_queue = <<>>
      /\ \A p \in Producer : pitem[p] = Null
      /\ \A c \in Consumer : citem[c] = Null
      /\ {output[i].key : i \in 1 .. Len(output)} = 1 .. Lines

Finished == main = "exit"

\* No producer reads the size of the queue again, with lines left in it.
Spun == input_queue # <<>> /\ \A p \in Producer : ppc[p] = "spin"

\* No consumer runs, and the lines left are too few for one to be started.
Starved == /\ worker_queue # <<>> /\ Len(worker_queue) <= high_threshold
           /\ \A t \in Consumer : cpc[t] = "none"

\* "the writer thread finished after output expected lines of item"
\* (writer.hpp): the run ends, or a dangling pointer kills it, unless for ever
\* lines wait for producers that the compiler made read get_size() once, or for
\* a consumer that the controller does not start for so few of them.
RunEnds == <>[](Finished \/ crashed \/ Spun \/ Starved)
=============================================================================
