--------------------------- MODULE PipelineProofs ---------------------------
(***************************************************************************)
(* One run of the Pthread project, for every number of lines, every size   *)
(* of the queues, all thresholds and all finite sets of producers and      *)
(* consumers.                                                              *)
(***************************************************************************)
EXTENDS Pipeline, FiniteSetTheorems, SequenceTheorems, TLAPS

-----------------------------------------------------------------------------
(* Counting items.                                                         *)

\* 1 for an item with key k.
Has(x, k) == IF x.key = k THEN 1 ELSE 0

\* The indices at which q has key k.
At(q, k) == {i \in 1 .. Len(q) : q[i].key = k}

LEMMA AtFinite ==
    ASSUME NEW q \in Seq(Item), NEW k
    PROVE  IsFiniteSet(At(q, k)) /\ Count(q, k) \in Nat /\ Count(q, k) = Cardinality(At(q, k))
<1>1. IsFiniteSet(1 .. Len(q))
  BY FS_Interval
<1>2. At(q, k) \in SUBSET (1 .. Len(q))
  BY DEF At
<1>3. IsFiniteSet(At(q, k))
  BY <1>1, <1>2, FS_Subset
<1>4. QED
  BY <1>3, FS_CardinalityType DEF Count, At

\* Appending an item counts it.
LEMMA CountAppend ==
    ASSUME NEW q \in Seq(Item), NEW x \in Item, NEW k
    PROVE  Count(Append(q, x), k) = Count(q, k) + Has(x, k)
<1> DEFINE n == Len(q)
           r == Append(q, x)
<1>1. n \in Nat /\ r \in Seq(Item) /\ Len(r) = n + 1 /\ r[n + 1] = x
  OBVIOUS
<1>2. \A i \in 1 .. n : r[i] = q[i]
  OBVIOUS
<1> HIDE DEF r
<1>3. /\ IsFiniteSet(At(q, k)) /\ Count(q, k) = Cardinality(At(q, k))
      /\ Count(r, k) = Cardinality(At(r, k)) /\ Count(q, k) \in Nat
  BY <1>1, AtFinite
<1>4. ASSUME x.key = k PROVE Count(r, k) = Count(q, k) + Has(x, k)
  <2>1. \A i \in 1 .. n + 1 : i \in 1 .. n \/ i = n + 1
    BY <1>1
  <2>2. At(r, k) = At(q, k) \cup {n + 1}
    BY <1>1, <1>2, <1>4, <2>1 DEF At
  <2>3. n + 1 \notin At(q, k)
    BY <1>1 DEF At
  <2>4. Cardinality(At(r, k)) = Cardinality(At(q, k)) + 1
    BY <1>3, <2>2, <2>3, FS_AddElement
  <2>5. QED
    BY <1>4, <1>3, <2>4 DEF Has
<1>5. ASSUME x.key # k PROVE Count(r, k) = Count(q, k) + Has(x, k)
  <2>1. \A i \in 1 .. n + 1 : i \in 1 .. n \/ i = n + 1
    BY <1>1
  <2>2. At(r, k) = At(q, k)
    BY <1>1, <1>2, <1>5, <2>1 DEF At
  <2>3. QED
    BY <1>5, <1>3, <2>2 DEF Has
<1>6. QED
  BY <1>4, <1>5 DEF r

\* Removing the first item uncounts it.
LEMMA CountTail ==
    ASSUME NEW q \in Seq(Item), q # <<>>, NEW k
    PROVE  Count(q, k) = Count(Tail(q), k) + Has(Head(q), k)
<1> DEFINE rest == {i \in 2 .. Len(q) : q[i].key = k}
           shift == [i \in At(Tail(q), k) |-> i + 1]
<1>1. /\ Tail(q) \in Seq(Item) /\ Len(Tail(q)) = Len(q) - 1
      /\ Len(q) \in Nat \ {0} /\ Head(q) = q[1]
  OBVIOUS
<1>2. \A i \in 1 .. Len(q) - 1 : Tail(q)[i] = q[i + 1]
  OBVIOUS
<1>3. shift \in Bijection(At(Tail(q), k), rest)
  <2>1. \A i \in At(Tail(q), k) : i \in 1 .. Len(q) - 1 /\ i + 1 \in rest
    BY <1>1, <1>2 DEF At
  <2>2. ASSUME NEW j \in rest PROVE j - 1 \in At(Tail(q), k) /\ (j - 1) + 1 = j
    <3>1. j \in 2 .. Len(q) /\ q[j].key = k
      OBVIOUS
    <3>2. j - 1 \in 1 .. Len(q) - 1 /\ (j - 1) + 1 = j
      BY <1>1, <3>1
    <3>3. Tail(q)[j - 1] = q[j]
      BY <1>2, <3>2
    <3>4. QED
      BY <1>1, <3>1, <3>2, <3>3 DEF At
  <2>3. shift \in [At(Tail(q), k) -> rest]
    BY <2>1
  <2>4. \A a, b \in At(Tail(q), k) : shift[a] = shift[b] => a = b
    BY <2>1
  <2>5. ASSUME NEW j \in rest PROVE \E i \in At(Tail(q), k) : shift[i] = j
    BY <2>2
  <2>6. QED
    BY <2>3, <2>4, <2>5 DEF Bijection, Injection, Surjection, IsInjective
<1> HIDE DEF rest, shift
<1>4. IsFiniteSet(rest) /\ Cardinality(rest) = Cardinality(At(Tail(q), k))
  <2>1. ExistsBijection(At(Tail(q), k), rest)
    BY <1>3 DEF ExistsBijection
  <2>2. QED
    BY <1>1, <2>1, AtFinite, FS_Bijection
<1>5. /\ Count(q, k) = Cardinality(At(q, k))
      /\ Count(Tail(q), k) = Cardinality(At(Tail(q), k))
      /\ Count(Tail(q), k) \in Nat
  BY <1>1, AtFinite
<1>6. \A i \in 1 .. Len(q) : i = 1 \/ i \in 2 .. Len(q)
  BY <1>1
<1>7. ASSUME q[1].key = k PROVE Count(q, k) = Count(Tail(q), k) + 1
  <2>1. At(q, k) = rest \cup {1} /\ 1 \notin rest
    BY <1>1, <1>6, <1>7 DEF At, rest
  <2>2. Cardinality(rest \cup {1}) = Cardinality(rest) + 1
    BY <1>4, <2>1, FS_AddElement
  <2>3. QED
    BY <1>4, <1>5, <2>1, <2>2
<1>8. ASSUME q[1].key # k PROVE Count(q, k) = Count(Tail(q), k)
  <2>1. At(q, k) = rest
    BY <1>1, <1>6, <1>8 DEF At, rest
  <2>2. QED
    BY <1>4, <1>5, <2>1
<1>9. QED
  BY <1>1, <1>5, <1>7, <1>8 DEF Has

\* Two states of the threads' hands that differ at t.
SameBut(T, t, item, after) ==
    /\ item \in [T -> Item \cup {Null}] /\ after \in [T -> Item \cup {Null}]
    /\ \A u \in T \ {t} : after[u] = item[u]

\* A thread with an item in hand is counted, one without is not.
LEMMA HoldersDiffer ==
    ASSUME NEW T, IsFiniteSet(T), NEW t \in T, NEW item, NEW after,
           SameBut(T, t, item, after), item[t] = Null, after[t] \in Item, NEW k
    PROVE  /\ Cardinality(Holders(item, k)) \in Nat
           /\ Cardinality(Holders(after, k))
                = Cardinality(Holders(item, k)) + Has(after[t], k)
<1>1. IsFiniteSet(Holders(item, k)) /\ t \notin Holders(item, k)
  BY FS_Subset DEF Holders, SameBut
<1>2. CASE after[t].key = k
  <2>1. Holders(after, k) = Holders(item, k) \cup {t}
    BY <1>2, NullAssumption DEF Holders, SameBut
  <2>2. QED
    BY <1>1, <1>2, <2>1, FS_AddElement, FS_CardinalityType DEF Has
<1>3. CASE after[t].key # k
  <2>1. Holders(after, k) = Holders(item, k)
    BY <1>3, NullAssumption DEF Holders, SameBut
  <2>2. QED
    BY <1>1, <1>3, <2>1, FS_CardinalityType DEF Has
<1>4. QED
  BY <1>2, <1>3

-----------------------------------------------------------------------------
(* The inductive invariant.                                                *)

\* A thread has an item in hand exactly between dequeue() and enqueue(), and
\* it is transformed as far as its queue implies.
InHand ==
    /\ \A p \in Producer : IF ppc[p] = "enqueue"
                           THEN pitem[p] \in Item /\ pitem[p].val = <<>>
                           ELSE pitem[p] = Null
    /\ \A c \in Consumer : IF cpc[c] = "enqueue"
                           THEN citem[c] \in Item /\ citem[c].val = <<"p">>
                           ELSE citem[c] = Null

\* What one_run has waited for.
Joined ==
    /\ main # "join_reader" => expected_lines = 0
    /\ main \in {"delete_ctr", "delete_queues", "queues_deleted", "exit"}
         => Len(output) = Lines

\* A thread runs an object, and push_back() is given one.
Pointers ==
    /\ \A t \in Consumer : self[t] = Null <=> cpc[t] = "none"
    /\ \A h \in Signal : hpc[h] = "push_back" => mine[h] # Null

\* The consumers whose threads run and were not cancelled.
Live == {t \in Consumer : cpc[t] # "none" /\ ~ is_cancel[t]}

Elements(n) == {consumers[i] : i \in 1 .. n}

Distinct == \A i, j \in 1 .. Len(consumers) : i # j => consumers[i] # consumers[j]

\* VectorOwnsLive, when each thread runs the object it was made for.
Owns == /\ Distinct
        /\ Elements(IF Changing THEN Len(consumers) - 1 ELSE Len(consumers)) = Live
        /\ Cancelling => Len(consumers) > 1

\* A consumer that has been made and not started.
Fresh(c) == c \in alive /\ cpc[c] = "none" /\ ~ is_cancel[c]

\* What the handler read is still so.
Knows(h) ==
    /\ hpc[h] = "push_back" => seen[h] = consumers /\ Fresh(mine[h])
    /\ hpc[h] = "start" => consumers # <<>> /\ Fresh(Back(consumers))
    /\ hpc[h] = "pop_back" => seen[h] = consumers

\* One handler at a time.
Alone == \A g, h \in Signal : Inside(g) /\ Inside(h) => g = h

\* Each thread runs the object it was made for.
OwnObject == \A t \in Consumer : cpc[t] # "none" => self[t] = t /\ t \in alive

\* As long as handlers have not overlapped.
Serial == overlaps = 0 => /\ Alone /\ OwnObject
                          /\ global_ctr => Owns /\ \A h \in Signal : Knows(h)

PipeInv == TypeOK /\ InHand /\ Joined /\ Pointers /\ ExactlyOnce /\ Serial
-----------------------------------------------------------------------------
(* Moving items.                                                           *)

\* The value a consumer makes of a producer's.
LEMMA SecondTransform == Append(<<"p">>, "c") = <<"p", "c">>
<1> DEFINE s == Append(<<"p">>, "c")
           t == <<"p", "c">>
<1>1. <<"p">> \in Seq({"p", "c"}) /\ t \in Seq({"p", "c"})
  OBVIOUS
<1>2. s \in Seq({"p", "c"}) /\ Len(s) = 2 /\ s[1] = "p" /\ s[2] = "c"
  BY <1>1, AppendProperties
<1>3. Len(t) = 2 /\ t[1] = "p" /\ t[2] = "c"
  OBVIOUS
<1> HIDE DEF s, t
<1>4. \A i \in 1 .. Len(s) : s[i] = t[i]
  BY <1>2, <1>3
<1>5. s = t
  BY <1>1, <1>2, <1>3, <1>4, SeqEqual
<1>6. QED
  BY <1>5 DEF s, t

\* What the transformers make of an item.
LEMMA TransformedItem ==
    ASSUME NEW x \in Item, NEW f
    PROVE  /\ Transformed(x, f).key = x.key
           /\ Transformed(x, f).val = Append(x.val, f)
           /\ Append(x.val, f) \in {<<"p">>, <<"p", "c">>} => Transformed(x, f) \in Item
<1> DEFINE v == Append(x.val, f)
<1>1. Transformed(x, f) = [key |-> x.key, val |-> v]
  BY DEF Item, Transformed
<1>2. x.key \in 1 .. Lines
  BY DEF Item
<1> HIDE DEF v
<1>3. v \in {<<"p">>, <<"p", "c">>} => [key |-> x.key, val |-> v] \in Item
  BY <1>2 DEF Item
<1>4. QED
  BY <1>1, <1>3 DEF v

\* A producer's item is transformed once, a consumer's twice.
LEMMA TransformedTwice ==
    ASSUME NEW x \in Item
    PROVE  /\ x.val = <<>> => Transformed(x, "p") \in Item /\ Transformed(x, "p").val = <<"p">>
           /\ x.val = <<"p">> => /\ Transformed(x, "c") \in Item
                                 /\ Transformed(x, "c").val = <<"p", "c">>
<1>1. Append(<<>>, "p") = <<"p">>
  OBVIOUS
<1>2. QED
  BY <1>1, SecondTransform, TransformedItem

\* The line read next.
LEMMA LineItem ==
    ASSUME NEW k \in 1 .. Lines
    PROVE  [key |-> k, val |-> <<>>] \in Item
BY DEF Item

LEMMA QueueAppend ==
    ASSUME NEW q \in Seq(Item), NEW x \in Item, NEW v, AllVal(q, v), x.val = v
    PROVE  /\ Append(q, x) \in Seq(Item) /\ Len(Append(q, x)) = Len(q) + 1
           /\ AllVal(Append(q, x), v)
BY DEF AllVal

LEMMA QueueTail ==
    ASSUME NEW q \in Seq(Item), q # <<>>, NEW v, AllVal(q, v)
    PROVE  /\ Tail(q) \in Seq(Item) /\ Len(Tail(q)) = Len(q) - 1 /\ Len(q) > 0
           /\ AllVal(Tail(q), v)
           /\ Head(q) \in Item /\ Head(q).val = v
BY DEF AllVal

\* The data of the state: where items are.
data == <<expected_lines, queues, pitem, citem, output>>

\* What InHand and ExactlyOnce say of the queues and hands.
LEMMA Counts ==
    ASSUME PipeInv, NEW k
    PROVE  /\ Count(input_queue, k) \in Nat /\ Count(worker_queue, k) \in Nat
           /\ Count(writer_queue, k) \in Nat /\ Count(output, k) \in Nat
           /\ Cardinality(Holders(pitem, k)) \in Nat
           /\ Cardinality(Holders(citem, k)) \in Nat
<1>1. /\ IsFiniteSet(Holders(pitem, k)) /\ IsFiniteSet(Holders(citem, k))
  <2>1. Holders(pitem, k) \in SUBSET Producer /\ Holders(citem, k) \in SUBSET Consumer
    BY DEF PipeInv, TypeOK, Holders
  <2>2. QED
    BY <2>1, ThreadAssumption, FS_Subset
<1>2. QED
  BY <1>1, AtFinite, FS_CardinalityType DEF PipeInv, TypeOK

LEMMA CopiesNext ==
    ASSUME NEW k
    PROVE  Copies(k)' = Count(input_queue', k) + Cardinality(Holders(pitem', k))
                        + Count(worker_queue', k) + Cardinality(Holders(citem', k))
                        + Count(writer_queue', k) + Count(output', k)
BY DEF Copies, Count, Holders

\* ReadLine adds the copy of the next line.
LEMMA ReadCopies ==
    ASSUME PipeInv, ReadLine, NEW k \in 1 .. Lines
    PROVE  Copies(k)' = Copies(k) + (IF k = Lines - expected_lines + 1 THEN 1 ELSE 0)
<1> DEFINE x == [key |-> Lines - expected_lines + 1, val |-> <<>>]
<1>1. x \in Item /\ input_queue \in Seq(Item)
  BY SizeAssumption, LineItem DEF PipeInv, TypeOK, ReadLine
<1>2. Has(x, k) = IF k = Lines - expected_lines + 1 THEN 1 ELSE 0
  BY DEF Has
<1>3. input_queue' = Append(input_queue, x)
  BY DEF ReadLine
<1> HIDE DEF x
<1>4. Count(input_queue', k) = Count(input_queue, k) + Has(x, k)
  BY <1>1, <1>3, CountAppend
<1>5. UNCHANGED <<worker_queue, writer_queue, pitem, citem, output>>
  BY DEF ReadLine, prods, conses
<1>6. QED
  BY <1>2, <1>4, <1>5, CopiesNext, Counts DEF Copies

\* The steps that move an item leave the number of its copies.
LEMMA MoveCopies ==
    ASSUME PipeInv, NEW k \in 1 .. Lines,
           \/ \E p \in Producer : ProducerDequeue(p) \/ ProducerEnqueue(p)
           \/ \E c \in Consumer : ConsumerDequeue(c) \/ ConsumerEnqueue(c)
           \/ WriteLine
    PROVE  Copies(k)' = Copies(k)
<1> USE DEF queues, prods, conses
<1>1. /\ {input_queue, worker_queue, writer_queue, output} \subseteq Seq(Item)
      /\ pitem \in [Producer -> Item \cup {Null}] /\ citem \in [Consumer -> Item \cup {Null}]
  BY DEF PipeInv, TypeOK
<1>2. ASSUME NEW p \in Producer, ProducerDequeue(p) PROVE Copies(k)' = Copies(k)
  <2> DEFINE x == Head(input_queue)
  <2>1. x \in Item /\ pitem[p] = Null
    BY <1>1, <1>2 DEF ProducerDequeue, PipeInv, InHand
  <2>2. Count(input_queue, k) = Count(input_queue', k) + Has(x, k)
    BY <1>1, <1>2, CountTail DEF ProducerDequeue
  <2>3. Cardinality(Holders(pitem', k)) = Cardinality(Holders(pitem, k)) + Has(x, k)
    <3>1. SameBut(Producer, p, pitem, pitem') /\ pitem'[p] = x
      BY <1>1, <1>2, <2>1 DEF ProducerDequeue, SameBut
    <3>2. QED
      BY <2>1, <3>1, HoldersDiffer, ThreadAssumption
  <2>4. UNCHANGED <<worker_queue, writer_queue, citem, output>> /\ Has(x, k) \in Nat
    BY <1>2 DEF ProducerDequeue, Has
  <2>5. input_queue' \in Seq(Item)
    BY <1>1, <1>2 DEF ProducerDequeue
  <2>6. Count(input_queue', k) \in Nat
    BY <2>5, AtFinite
  <2>7. QED
    BY <2>2, <2>3, <2>4, <2>6, CopiesNext, Counts DEF Copies
<1>3. ASSUME NEW p \in Producer, ProducerEnqueue(p) PROVE Copies(k)' = Copies(k)
  <2> DEFINE x == Transformed(pitem[p], "p")
  <2>1. pitem[p] \in Item /\ x \in Item /\ x.key = pitem[p].key
    BY <1>1, <1>3, TransformedItem, TransformedTwice DEF ProducerEnqueue, PipeInv, InHand
  <2>2. worker_queue' = Append(worker_queue, x)
    BY <1>3 DEF ProducerEnqueue
  <2> HIDE DEF x
  <2>3. Count(worker_queue', k) = Count(worker_queue, k) + Has(pitem[p], k)
    BY <1>1, <2>1, <2>2, CountAppend DEF Has
  <2>4. /\ Cardinality(Holders(pitem', k)) \in Nat
        /\ Cardinality(Holders(pitem, k)) = Cardinality(Holders(pitem', k)) + Has(pitem[p], k)
    <3>1. SameBut(Producer, p, pitem', pitem) /\ pitem'[p] = Null
      BY <1>1, <1>3, <2>1 DEF ProducerEnqueue, SameBut
    <3>2. QED
      BY <2>1, <3>1, HoldersDiffer, ThreadAssumption
  <2>5. UNCHANGED <<input_queue, writer_queue, citem, output>> /\ Has(pitem[p], k) \in Nat
    BY <1>3 DEF ProducerEnqueue, Has
  <2>6. QED
    BY <2>3, <2>4, <2>5, CopiesNext, Counts DEF Copies
<1>4. ASSUME NEW c \in Consumer, ConsumerDequeue(c) PROVE Copies(k)' = Copies(k)
  <2> DEFINE x == Head(worker_queue)
  <2>1. x \in Item /\ citem[c] = Null
    BY <1>1, <1>4 DEF ConsumerDequeue, PipeInv, InHand
  <2>2. Count(worker_queue, k) = Count(worker_queue', k) + Has(x, k)
    BY <1>1, <1>4, CountTail DEF ConsumerDequeue
  <2>3. Cardinality(Holders(citem', k)) = Cardinality(Holders(citem, k)) + Has(x, k)
    <3>1. SameBut(Consumer, c, citem, citem') /\ citem'[c] = x
      BY <1>1, <1>4, <2>1 DEF ConsumerDequeue, SameBut
    <3>2. QED
      BY <2>1, <3>1, HoldersDiffer, ThreadAssumption
  <2>4. UNCHANGED <<input_queue, writer_queue, pitem, output>> /\ Has(x, k) \in Nat
    BY <1>4 DEF ConsumerDequeue, Has
  <2>5. worker_queue' \in Seq(Item)
    BY <1>1, <1>4 DEF ConsumerDequeue
  <2>6. Count(worker_queue', k) \in Nat
    BY <2>5, AtFinite
  <2>7. QED
    BY <2>2, <2>3, <2>4, <2>6, CopiesNext, Counts DEF Copies
<1>5. ASSUME NEW c \in Consumer, ConsumerEnqueue(c) PROVE Copies(k)' = Copies(k)
  <2> DEFINE x == Transformed(citem[c], "c")
  <2>1. citem[c] \in Item /\ x \in Item /\ x.key = citem[c].key
    BY <1>1, <1>5, TransformedItem, TransformedTwice DEF ConsumerEnqueue, PipeInv, InHand
  <2>2. writer_queue' = Append(writer_queue, x)
    BY <1>5 DEF ConsumerEnqueue
  <2> HIDE DEF x
  <2>3. Count(writer_queue', k) = Count(writer_queue, k) + Has(citem[c], k)
    BY <1>1, <2>1, <2>2, CountAppend DEF Has
  <2>4. /\ Cardinality(Holders(citem', k)) \in Nat
        /\ Cardinality(Holders(citem, k)) = Cardinality(Holders(citem', k)) + Has(citem[c], k)
    <3>1. SameBut(Consumer, c, citem', citem) /\ citem'[c] = Null
      BY <1>1, <1>5, <2>1 DEF ConsumerEnqueue, SameBut
    <3>2. QED
      BY <2>1, <3>1, HoldersDiffer, ThreadAssumption
  <2>5. UNCHANGED <<input_queue, worker_queue, pitem, output>> /\ Has(citem[c], k) \in Nat
    BY <1>5 DEF ConsumerEnqueue, Has
  <2>6. QED
    BY <2>3, <2>4, <2>5, CopiesNext, Counts DEF Copies
<1>6. CASE WriteLine
  <2> DEFINE x == Head(writer_queue)
  <2>1. x \in Item
    BY <1>1, <1>6 DEF WriteLine
  <2>2. Count(writer_queue, k) = Count(writer_queue', k) + Has(x, k)
    BY <1>1, <1>6, CountTail DEF WriteLine
  <2>3. Count(output', k) = Count(output, k) + Has(x, k)
    BY <1>1, <1>6, <2>1, CountAppend DEF WriteLine
  <2>4. UNCHANGED <<input_queue, worker_queue, pitem, citem>> /\ Has(x, k) \in Nat
    BY <1>6 DEF WriteLine, Has
  <2>5. writer_queue' \in Seq(Item)
    BY <1>1, <1>6 DEF WriteLine
  <2>6. Count(writer_queue', k) \in Nat
    BY <2>5, AtFinite
  <2>7. QED
    BY <2>2, <2>3, <2>4, <2>6, CopiesNext, Counts DEF Copies
<1>7. QED
  BY <1>2, <1>3, <1>4, <1>5, <1>6
-----------------------------------------------------------------------------
(* The invariant holds initially.                                          *)

LEMMA PipeInit == Init => PipeInv
<1> SUFFICES ASSUME Init PROVE PipeInv
  OBVIOUS
<1>1. TypeOK
  <2>1. {global_ctr, crashed} \subseteq BOOLEAN /\ is_cancel \in [Consumer -> BOOLEAN]
    BY DEF Init
  <2>2. /\ run \in Runs /\ run.wk_qs \in Nat
        /\ expected_lines \in 0 .. Lines /\ overlaps \in 0 .. MaxOverlaps
    BY SizeAssumption, SignalAssumption DEF Init
  <2>3. /\ input_queue \in Seq(Item) /\ Len(input_queue) <= ReaderQueueSize
        /\ worker_queue \in Seq(Item) /\ Len(worker_queue) <= run.wk_qs
        /\ writer_queue \in Seq(Item) /\ Len(writer_queue) <= WriterQueueSize
        /\ output \in Seq(Item) /\ consumers \in Seq(Consumer)
        /\ seen \in [Signal -> Seq(Consumer)]
    BY <2>2, SizeAssumption DEF Init
  <2>4. QED
    BY <2>1, <2>2, <2>3 DEF Init, TypeOK
<1>2. InHand /\ Joined /\ Pointers
  BY DEF Init, InHand, Joined, Pointers
<1>3. ExactlyOnce
  <2>1. \A k : At(<<>>, k) = {}
    BY DEF At
  <2>2. \A k : Count(<<>>, k) = 0
    BY <2>1, FS_EmptySet DEF Count, At
  <2>3. \A k : Holders(pitem, k) = {} /\ Holders(citem, k) = {}
    BY DEF Init, Holders
  <2>4. ASSUME NEW k PROVE Copies(k) = 0
    <3>1. Cardinality(Holders(pitem, k)) = 0 /\ Cardinality(Holders(citem, k)) = 0
      BY <2>3, FS_EmptySet
    <3>2. QED
      BY <2>2, <3>1 DEF Init, Copies
  <2>5. \A v : AllVal(<<>>, v)
    BY DEF AllVal
  <2>6. \A k \in 1 .. Lines : ~ (k <= Lines - expected_lines)
    BY SizeAssumption DEF Init
  <2>7. QED
    BY <2>4, <2>5, <2>6 DEF Init, ExactlyOnce
<1>4. Serial
  <2>1. Live = {} /\ Len(consumers) = 0 /\ ~ Changing /\ ~ Cancelling
    BY DEF Init, Live, Changing, Cancelling
  <2>2. Distinct /\ Elements(0) = {}
    BY <2>1 DEF Distinct, Elements
  <2>3. Owns
    BY <2>1, <2>2 DEF Owns
  <2>4. QED
    BY <2>3 DEF Init, Serial, Alone, Inside, OwnObject, Knows
<1>5. QED
  BY <1>1, <1>2, <1>3, <1>4 DEF PipeInv

-----------------------------------------------------------------------------
(* Items stay where they are counted.                                      *)

\* A step that moves no item keeps their number and what is known of them.
LEMMA OnceKept ==
    ASSUME ExactlyOnce, UNCHANGED data
    PROVE  ExactlyOnce'
BY DEF ExactlyOnce, data, queues, Copies, Count, Holders, AllVal

\* The handlers move no item.
LEMMA HandlersKeep ==
    ASSUME Alarm \/ \E h \in Signal : HandlerStep(h)
    PROVE  UNCHANGED <<run, expected_lines, queues, prods, citem, output, main>>
<1>1. ASSUME NEW h \in Signal, HandlerStep(h)
      PROVE  UNCHANGED <<run, expected_lines, queues, prods, citem, output, main>>
  BY <1>1 DEF HandlerStep, ScaleUp, PushBack, StartBack, NoMoreConsumers, ScaleDown,
         SetCancel, PthreadCancel, PopBack, HandlerNothing, HandlerDangles, conses
<1>2. CASE Alarm
  BY <1>2 DEF Alarm, AlarmKills, HandlerEnter, conses
<1>3. QED
  BY <1>1, <1>2

LEMMA OnceNext == PipeInv /\ [Next]_vars => ExactlyOnce'
<1> SUFFICES ASSUME PipeInv, [Next]_vars PROVE ExactlyOnce'
  OBVIOUS
<1> USE DEF queues, prods, conses
<1>1. /\ input_queue \in Seq(Item) /\ worker_queue \in Seq(Item)
      /\ writer_queue \in Seq(Item) /\ output \in Seq(Item)
      /\ AllVal(input_queue, <<>>) /\ AllVal(worker_queue, <<"p">>)
      /\ AllVal(writer_queue, <<"p", "c">>) /\ AllVal(output, <<"p", "c">>)
      /\ expected_lines \in 0 .. Lines /\ Lines \in Nat
  BY SizeAssumption DEF PipeInv, TypeOK, ExactlyOnce
<1>2. \A k \in 1 .. Lines : Copies(k) = IF k <= Lines - expected_lines THEN 1 ELSE 0
  BY DEF PipeInv, ExactlyOnce
<1>3. CASE ReadLine
  <2> DEFINE x == [key |-> Lines - expected_lines + 1, val |-> <<>>]
  <2>1. x \in Item /\ x.val = <<>>
    BY <1>1, <1>3, LineItem DEF ReadLine
  <2>2. /\ input_queue' = Append(input_queue, x)
        /\ UNCHANGED <<worker_queue, writer_queue, output>>
        /\ expected_lines' = expected_lines - 1 /\ expected_lines > 0
    BY <1>3 DEF ReadLine
  <2> HIDE DEF x
  <2>3. AllVal(input_queue', <<>>)
    BY <1>1, <2>1, <2>2, QueueAppend
  <2>4. ASSUME NEW k \in 1 .. Lines
        PROVE  Copies(k)' = IF k <= Lines - expected_lines' THEN 1 ELSE 0
    <3>1. Copies(k)' = Copies(k) + (IF k = Lines - expected_lines + 1 THEN 1 ELSE 0)
      BY <1>3, ReadCopies
    <3>2. QED
      BY <1>1, <1>2, <2>2, <3>1
  <2>5. QED
    BY <1>1, <2>2, <2>3, <2>4 DEF ExactlyOnce, AllVal
<1>4. ASSUME \/ \E p \in Producer : ProducerDequeue(p) \/ ProducerEnqueue(p)
             \/ \E c \in Consumer : ConsumerDequeue(c) \/ ConsumerEnqueue(c)
             \/ WriteLine
      PROVE  ExactlyOnce'
  <2>1. expected_lines' = expected_lines
    BY <1>4 DEF ProducerDequeue, ProducerEnqueue, ConsumerDequeue, ConsumerEnqueue, WriteLine
  <2>2. \A k \in 1 .. Lines : Copies(k)' = Copies(k)
    BY <1>4, MoveCopies
  <2>3. /\ AllVal(input_queue', <<>>) /\ AllVal(worker_queue', <<"p">>)
        /\ AllVal(writer_queue', <<"p", "c">>) /\ AllVal(output', <<"p", "c">>)
    <3>1. ASSUME NEW p \in Producer, ProducerDequeue(p)
          PROVE  AllVal(input_queue', <<>>) /\ UNCHANGED <<worker_queue, writer_queue, output>>
      BY <1>1, <3>1, QueueTail DEF ProducerDequeue
    <3>2. ASSUME NEW p \in Producer, ProducerEnqueue(p)
          PROVE  AllVal(worker_queue', <<"p">>) /\ UNCHANGED <<input_queue, writer_queue, output>>
      <4>1. pitem[p] \in Item /\ pitem[p].val = <<>>
        BY <3>2 DEF PipeInv, InHand, ProducerEnqueue
      <4>2. QED
        BY <1>1, <3>2, <4>1, TransformedTwice, QueueAppend DEF ProducerEnqueue
    <3>3. ASSUME NEW c \in Consumer, ConsumerDequeue(c)
          PROVE  AllVal(worker_queue', <<"p">>) /\ UNCHANGED <<input_queue, writer_queue, output>>
      BY <1>1, <3>3, QueueTail DEF ConsumerDequeue
    <3>4. ASSUME NEW c \in Consumer, ConsumerEnqueue(c)
          PROVE  /\ AllVal(writer_queue', <<"p", "c">>)
                 /\ UNCHANGED <<input_queue, worker_queue, output>>
      <4>1. citem[c] \in Item /\ citem[c].val = <<"p">>
        BY <3>4 DEF PipeInv, InHand, ConsumerEnqueue
      <4>2. QED
        BY <1>1, <3>4, <4>1, TransformedTwice, QueueAppend DEF ConsumerEnqueue
    <3>5. CASE WriteLine
      <4>1. AllVal(writer_queue', <<"p", "c">>)
        BY <1>1, <3>5, QueueTail DEF WriteLine
      <4>2. Head(writer_queue) \in Item /\ Head(writer_queue).val = <<"p", "c">>
        BY <1>1, <3>5, QueueTail DEF WriteLine
      <4>3. AllVal(output', <<"p", "c">>)
        BY <1>1, <3>5, <4>2, QueueAppend DEF WriteLine
      <4>4. QED
        BY <1>1, <3>5, <4>1, <4>3 DEF WriteLine
    <3>6. QED
      BY <1>1, <1>4, <3>1, <3>2, <3>3, <3>4, <3>5
  <2>4. QED
    BY <1>2, <2>1, <2>2, <2>3 DEF ExactlyOnce, AllVal
<1>5. ASSUME UNCHANGED data PROVE ExactlyOnce'
  BY <1>5, OnceKept DEF PipeInv
<1>6. ASSUME NEW p \in Producer, ProducerStep(p) PROVE ExactlyOnce'
  BY <1>4, <1>5, <1>6 DEF ProducerStep, ProducerPoll, data
<1>7. ASSUME NEW c \in Consumer, ConsumerStep(c) PROVE ExactlyOnce'
  BY <1>4, <1>5, <1>7 DEF ConsumerStep, ConsumerTest, ConsumerPoll, data
<1>8. CASE ArmTimer \/ Main \/ DanglingQueueUse \/ Ended \/ UNCHANGED vars
  <2>1. UNCHANGED data
    BY <1>8 DEF data, ArmTimer, Main, JoinReader, JoinWriter, DeleteController,
           DeleteQueues, Exit, DanglingQueueUse, Ended, vars
  <2>2. QED
    BY <1>5, <2>1
<1>10. CASE Alarm \/ \E h \in Signal : HandlerStep(h)
  BY <1>5, <1>10, HandlersKeep DEF data
<1>9. QED
  BY <1>3, <1>4, <1>6, <1>7, <1>8, <1>10 DEF Next
-----------------------------------------------------------------------------
(* Types, hands and joins.                                                 *)

\* The types of what the handlers change.
ControlTypes ==
    /\ cpc \in [Consumer -> {"none", "test", "poll", "dequeue", "enqueue"}]
    /\ self \in [Consumer -> Consumer \cup {Null}]
    /\ alive \in SUBSET Consumer
    /\ is_cancel \in [Consumer -> BOOLEAN]
    /\ consumers \in Seq(Consumer)
    /\ {global_ctr, crashed} \subseteq BOOLEAN
    /\ sigalrm \in {"ignored", "handler", "handler_once", "default"}
    /\ hpc \in [Signal -> {"idle", "up", "push_back", "start", "down", "cancel",
                           "pthread_cancel", "pop_back"}]
    /\ mine \in [Signal -> Consumer \cup {Null}]
    /\ seen \in [Signal -> Seq(Consumer)]
    /\ overlaps \in 0 .. MaxOverlaps

\* What the handlers do to the consumers and to their own variables.
LEMMA HandlerTypes ==
    ASSUME PipeInv, Alarm \/ \E h \in Signal : HandlerStep(h)
    PROVE  TypeOK'
<1> USE DEF MayCrash, HandlerExit, conses, control, handlers, ControlTypes
<1>1. ControlTypes
  BY DEF PipeInv, TypeOK
<1>2. ASSUME NEW h \in Signal, ScaleUp(h) PROVE ControlTypes'
  BY <1>1, <1>2 DEF ScaleUp
<1>3. ASSUME NEW h \in Signal, PushBack(h) PROVE ControlTypes'
  <2>1. mine[h] \in Consumer /\ seen[h] \in Seq(Consumer)
    BY <1>1, <1>3 DEF PushBack, PipeInv, Pointers
  <2>2. Append(seen[h], mine[h]) \in Seq(Consumer) /\ <<>> \in Seq(Consumer)
    BY <2>1
  <2>3. QED
    BY <1>1, <1>3, <2>2 DEF PushBack
<1>4. \A s \in Seq(Consumer) : Back(s) \in Consumer \cup {Null}
  BY DEF Back
<1>5. ASSUME NEW h \in Signal, StartBack(h) PROVE ControlTypes'
  <2> DEFINE c == Back(consumers)
  <2>1. c \in Consumer \cup {Null}
    BY <1>1, <1>4
  <2>2. PICK t \in Threads(c) :
               /\ cpc' = [u \in Consumer |-> IF u = t THEN "test" ELSE cpc[u]]
               /\ self' = [u \in Consumer |-> IF u = t THEN c ELSE self[u]]
    BY <1>5 DEF StartBack
  <2> HIDE DEF c
  <2>3. /\ cpc' \in [Consumer -> {"none", "test", "poll", "dequeue", "enqueue"}]
        /\ self' \in [Consumer -> Consumer \cup {Null}]
    BY <1>1, <2>1, <2>2
  <2>4. /\ hpc' = [hpc EXCEPT ![h] = "idle"] /\ mine' = [mine EXCEPT ![h] = Null]
        /\ seen' = [seen EXCEPT ![h] = <<>>] /\ crashed' \in BOOLEAN
        /\ UNCHANGED <<alive, is_cancel, consumers, global_ctr, sigalrm, overlaps>>
    BY <1>5 DEF StartBack
  <2>5. QED
    BY <1>1, <2>3, <2>4
<1>6. ASSUME NEW h \in Signal, NoMoreConsumers(h) \/ HandlerNothing(h) \/ HandlerDangles(h)
      PROVE  ControlTypes'
  <2>1. /\ UNCHANGED <<cpc, self, alive, is_cancel, consumers, global_ctr, sigalrm, overlaps>>
        /\ hpc' = [hpc EXCEPT ![h] = "idle"] /\ mine' = [mine EXCEPT ![h] = Null]
        /\ seen' = [seen EXCEPT ![h] = <<>>]
    BY <1>6 DEF NoMoreConsumers, HandlerNothing, HandlerDangles
  <2>2. crashed' \in BOOLEAN
    BY <1>1, <1>6 DEF NoMoreConsumers, HandlerNothing, HandlerDangles
  <2>3. QED
    BY <1>1, <2>1, <2>2
<1>7. ASSUME NEW h \in Signal, ScaleDown(h) PROVE ControlTypes'
  BY <1>1, <1>7 DEF ScaleDown
<1>8. ASSUME NEW h \in Signal, SetCancel(h) PROVE ControlTypes'
  <2>1. \A d \in Consumer : (d = Back(consumers) \/ is_cancel[d]) \in BOOLEAN
    OBVIOUS
  <2>2. QED
    BY <1>1, <1>4, <1>8, <2>1 DEF SetCancel
<1>9. ASSUME NEW h \in Signal, PthreadCancel(h) PROVE ControlTypes'
  BY <1>1, <1>9 DEF PthreadCancel
<1>10. ASSUME NEW h \in Signal, PopBack(h) PROVE ControlTypes'
  <2>1. seen[h] \in Seq(Consumer) /\ <<>> \in Seq(Consumer)
    BY <1>1
  <2>2. SubSeq(seen[h], 1, Len(seen[h]) - 1) \in Seq(Consumer)
    <3>1. CASE seen[h] = <<>>
      BY <3>1
    <3>2. CASE seen[h] # <<>>
      BY <2>1, <3>2
    <3>3. QED
      BY <3>1, <3>2
  <2>3. QED
    BY <1>1, <1>10, <2>1, <2>2 DEF PopBack
<1>11. ASSUME NEW h \in Signal, HandlerEnter(h) PROVE ControlTypes'
  <2>1. overlaps' \in 0 .. MaxOverlaps
    BY <1>1, <1>11, SignalAssumption DEF HandlerEnter
  <2>2. QED
    BY <1>1, <1>11, <2>1 DEF HandlerEnter
<1>12. ASSUME AlarmKills PROVE ControlTypes'
  <2>1. /\ UNCHANGED <<cpc, self, alive, is_cancel, consumers, global_ctr, sigalrm, hpc>>
        /\ UNCHANGED <<mine, seen, overlaps>> /\ crashed' \in BOOLEAN
    BY <1>12 DEF AlarmKills
  <2>2. /\ {global_ctr, crashed}' \subseteq BOOLEAN
    BY <1>1, <2>1
  <2>3. QED
    BY <1>1, <2>1, <2>2
<1> HIDE DEF ControlTypes, MayCrash, HandlerExit, conses, control, handlers
<1>13. ControlTypes'
  BY <1>2, <1>3, <1>5, <1>6, <1>7, <1>8, <1>9, <1>10, <1>11, <1>12 DEF Alarm, HandlerStep
<1>14. UNCHANGED <<run, expected_lines, queues, prods, citem, output, main>>
  BY HandlersKeep
<1>15. TypeOK
  BY DEF PipeInv
<1>16. QED
  BY <1>13, <1>14, <1>15 DEF ControlTypes, TypeOK, queues, prods

LEMMA TypeNext == PipeInv /\ [Next]_vars => TypeOK'
<1> SUFFICES ASSUME PipeInv, [Next]_vars PROVE TypeOK'
  OBVIOUS
<1> USE DEF queues, prods, conses, control, handlers, Room
<1>1. /\ TypeOK /\ InHand
      /\ AllVal(input_queue, <<>>) /\ AllVal(worker_queue, <<"p">>)
      /\ AllVal(writer_queue, <<"p", "c">>)
      /\ ReaderQueueSize \in Nat /\ run.wk_qs \in Nat /\ WriterQueueSize \in Nat
      /\ Lines \in Nat
  BY SizeAssumption DEF PipeInv, ExactlyOnce, TypeOK
<1>2. CASE ReadLine
  <2> DEFINE x == [key |-> Lines - expected_lines + 1, val |-> <<>>]
  <2>1. x \in Item
    BY <1>1, <1>2, LineItem DEF ReadLine, TypeOK
  <2>2. input_queue' = Append(input_queue, x) /\ Len(input_queue) < ReaderQueueSize
    BY <1>2 DEF ReadLine
  <2> HIDE DEF x
  <2>3. input_queue' \in Seq(Item) /\ Len(input_queue') <= ReaderQueueSize
    BY <1>1, <2>1, <2>2 DEF TypeOK
  <2>4. expected_lines' \in 0 .. Lines
    BY <1>1, <1>2 DEF ReadLine, TypeOK
  <2>5. UNCHANGED <<run, worker_queue, writer_queue, prods, conses, control, output, main,
                    crashed>>
    BY <1>2 DEF ReadLine
  <2>6. QED
    BY <1>1, <2>3, <2>4, <2>5 DEF TypeOK
<1>3. ASSUME NEW p \in Producer, ProducerPoll(p) PROVE TypeOK'
  BY <1>1, <1>3 DEF ProducerPoll, TypeOK
<1>4. ASSUME NEW p \in Producer, ProducerDequeue(p) PROVE TypeOK'
  <2>1. /\ input_queue' \in Seq(Item) /\ Len(input_queue') <= ReaderQueueSize
        /\ Head(input_queue) \in Item
    BY <1>1, <1>4, QueueTail DEF ProducerDequeue, TypeOK
  <2>2. QED
    BY <1>1, <1>4, <2>1 DEF ProducerDequeue, TypeOK
<1>5. ASSUME NEW p \in Producer, ProducerEnqueue(p) PROVE TypeOK'
  <2>1. Transformed(pitem[p], "p") \in Item
    BY <1>1, <1>5, TransformedTwice DEF ProducerEnqueue, InHand
  <2>2. worker_queue' \in Seq(Item) /\ Len(worker_queue') <= run.wk_qs
    BY <1>1, <1>5, <2>1 DEF ProducerEnqueue, TypeOK
  <2>3. QED
    BY <1>1, <1>5, <2>2 DEF ProducerEnqueue, TypeOK
<1>6. ASSUME NEW c \in Consumer, ConsumerTest(c) PROVE TypeOK'
  BY <1>1, <1>6 DEF ConsumerTest, MayCrash, TypeOK
<1>7. ASSUME NEW c \in Consumer, ConsumerPoll(c) PROVE TypeOK'
  BY <1>1, <1>7 DEF ConsumerPoll, TypeOK
<1>8. ASSUME NEW c \in Consumer, ConsumerDequeue(c) PROVE TypeOK'
  <2>1. /\ worker_queue' \in Seq(Item) /\ Len(worker_queue') <= run.wk_qs
        /\ Head(worker_queue) \in Item
    BY <1>1, <1>8, QueueTail DEF ConsumerDequeue, TypeOK
  <2>2. QED
    BY <1>1, <1>8, <2>1 DEF ConsumerDequeue, TypeOK
<1>9. ASSUME NEW c \in Consumer, ConsumerEnqueue(c) PROVE TypeOK'
  <2>1. Transformed(citem[c], "c") \in Item
    BY <1>1, <1>9, TransformedTwice DEF ConsumerEnqueue, InHand
  <2>2. writer_queue' \in Seq(Item) /\ Len(writer_queue') <= WriterQueueSize
    BY <1>1, <1>9, <2>1 DEF ConsumerEnqueue, TypeOK
  <2>3. QED
    BY <1>1, <1>9, <2>2 DEF ConsumerEnqueue, TypeOK
<1>10. CASE Alarm \/ \E h \in Signal : HandlerStep(h)
  BY <1>10, HandlerTypes
<1>11. CASE ArmTimer
  BY <1>1, <1>11 DEF ArmTimer, TypeOK
<1>19. CASE WriteLine
  <2>1. /\ writer_queue' \in Seq(Item) /\ Len(writer_queue') <= WriterQueueSize
        /\ Head(writer_queue) \in Item
    BY <1>1, <1>19, QueueTail DEF WriteLine, TypeOK
  <2>2. output' \in Seq(Item)
    BY <1>1, <1>19, <2>1 DEF WriteLine, TypeOK
  <2>3. QED
    BY <1>1, <1>19, <2>1, <2>2 DEF WriteLine, TypeOK
<1>20. CASE Main
  BY <1>1, <1>20 DEF Main, JoinReader, JoinWriter, DeleteController, DeleteQueues, Exit, TypeOK
<1>21. CASE DanglingQueueUse
  BY <1>1, <1>21 DEF DanglingQueueUse, TypeOK
<1>22. CASE Ended \/ UNCHANGED vars
  BY <1>1, <1>22 DEF Ended, vars, TypeOK
<1>23. QED
  BY <1>2, <1>3, <1>4, <1>5, <1>6, <1>7, <1>8, <1>9, <1>10, <1>11, <1>19,
     <1>20, <1>21, <1>22 DEF Next, ProducerStep, ConsumerStep

LEMMA HandNext == PipeInv /\ [Next]_vars => InHand'
<1> SUFFICES ASSUME PipeInv, [Next]_vars PROVE InHand'
  OBVIOUS
<1> USE DEF queues, prods, conses
<1>1. /\ InHand
      /\ input_queue \in Seq(Item) /\ worker_queue \in Seq(Item)
      /\ ppc \in [Producer -> {"poll", "dequeue", "enqueue", "spin"}]
      /\ pitem \in [Producer -> Item \cup {Null}]
      /\ cpc \in [Consumer -> {"none", "test", "poll", "dequeue", "enqueue"}]
      /\ citem \in [Consumer -> Item \cup {Null}]
      /\ AllVal(input_queue, <<>>) /\ AllVal(worker_queue, <<"p">>)
  BY DEF PipeInv, TypeOK, ExactlyOnce
<1>2. ASSUME NEW p \in Producer, ProducerPoll(p) PROVE InHand'
  BY <1>1, <1>2 DEF ProducerPoll, InHand
<1>3. ASSUME NEW p \in Producer, ProducerDequeue(p) PROVE InHand'
  <2>1. Head(input_queue) \in Item /\ Head(input_queue).val = <<>>
    BY <1>1, <1>3, QueueTail DEF ProducerDequeue
  <2>2. QED
    BY <1>1, <1>3, <2>1 DEF ProducerDequeue, InHand
<1>4. ASSUME NEW p \in Producer, ProducerEnqueue(p) PROVE InHand'
  BY <1>1, <1>4 DEF ProducerEnqueue, InHand
<1>5. ASSUME NEW c \in Consumer, ConsumerTest(c) \/ ConsumerPoll(c) PROVE InHand'
  BY <1>1, <1>5 DEF ConsumerTest, ConsumerPoll, InHand
<1>6. ASSUME NEW c \in Consumer, ConsumerDequeue(c) PROVE InHand'
  <2>1. Head(worker_queue) \in Item /\ Head(worker_queue).val = <<"p">>
    BY <1>1, <1>6, QueueTail DEF ConsumerDequeue
  <2>2. QED
    BY <1>1, <1>6, <2>1 DEF ConsumerDequeue, InHand
<1>7. ASSUME NEW c \in Consumer, ConsumerEnqueue(c) PROVE InHand'
  BY <1>1, <1>7 DEF ConsumerEnqueue, InHand
<1>8. ASSUME NEW h \in Signal, StartBack(h) PROVE InHand'
  <2>1. UNCHANGED <<ppc, pitem, citem>>
    BY <1>8 DEF StartBack
  <2>2. PICK t \in Threads(Back(consumers)) :
               cpc' = [u \in Consumer |-> IF u = t THEN "test" ELSE cpc[u]]
    BY <1>8 DEF StartBack
  <2>3. t \in Consumer => cpc[t] = "none"
    BY <2>2, NullAssumption DEF Threads
  <2>4. \A u \in Consumer : cpc'[u] = "enqueue" <=> cpc[u] = "enqueue"
    BY <2>2, <2>3
  <2>5. QED
    BY <1>1, <2>1, <2>4 DEF InHand
<1>9. ASSUME UNCHANGED <<ppc, pitem, cpc, citem>> PROVE InHand'
  BY <1>1, <1>9 DEF InHand
<1>10. CASE ReadLine \/ WriteLine \/ ArmTimer \/ Main \/ DanglingQueueUse \/ Ended
            \/ UNCHANGED vars
  BY <1>9, <1>10 DEF ReadLine, WriteLine, ArmTimer, Main, JoinReader, JoinWriter,
         DeleteController, DeleteQueues, Exit, DanglingQueueUse, Ended, vars
<1>11. CASE Alarm \/ \E h \in Signal : HandlerStep(h)
  <2>1. UNCHANGED <<ppc, pitem, citem>>
    BY <1>11, HandlersKeep
  <2>2. ASSUME NEW h \in Signal, HandlerStep(h), ~ StartBack(h) PROVE UNCHANGED cpc
    BY <2>2 DEF HandlerStep, ScaleUp, PushBack, NoMoreConsumers, ScaleDown, SetCancel,
           PthreadCancel, PopBack, HandlerNothing, HandlerDangles
  <2>3. CASE Alarm
    BY <1>9, <2>1, <2>3 DEF Alarm, AlarmKills, HandlerEnter
  <2>4. QED
    BY <1>8, <1>9, <1>11, <2>1, <2>2, <2>3
<1>12. QED
  BY <1>2, <1>3, <1>4, <1>5, <1>6, <1>7, <1>10, <1>11 DEF Next, ProducerStep, ConsumerStep

LEMMA JoinedNext == PipeInv /\ [Next]_vars => Joined'
<1> SUFFICES ASSUME PipeInv, [Next]_vars PROVE Joined'
  OBVIOUS
<1>1. Joined /\ expected_lines \in 0 .. Lines /\ output \in Seq(Item) /\ Lines \in Nat
  BY SizeAssumption DEF PipeInv, TypeOK
<1>2. CASE ReadLine
  BY <1>1, <1>2 DEF ReadLine, Joined
<1>3. CASE WriteLine
  BY <1>1, <1>3 DEF WriteLine, Joined
<1>4. CASE Main
  BY <1>1, <1>4 DEF Main, JoinReader, JoinWriter, DeleteController, DeleteQueues, Exit, Joined
<1>5. ASSUME UNCHANGED <<expected_lines, output, main>> PROVE Joined'
  BY <1>1, <1>5 DEF Joined
<1>6. ASSUME NEW p \in Producer, ProducerStep(p) PROVE Joined'
  BY <1>5, <1>6 DEF ProducerStep, ProducerPoll, ProducerDequeue, ProducerEnqueue
<1>7. ASSUME NEW c \in Consumer, ConsumerStep(c) PROVE Joined'
  BY <1>5, <1>7 DEF ConsumerStep, ConsumerTest, ConsumerPoll, ConsumerDequeue,
         ConsumerEnqueue
<1>8. CASE ArmTimer \/ DanglingQueueUse \/ Ended \/ UNCHANGED vars
  BY <1>5, <1>8 DEF ArmTimer, DanglingQueueUse, Ended, vars
<1>9. CASE Alarm \/ \E h \in Signal : HandlerStep(h)
  BY <1>5, <1>9, HandlersKeep
<1>10. QED
  BY <1>2, <1>3, <1>4, <1>6, <1>7, <1>8, <1>9 DEF Next
-----------------------------------------------------------------------------
(* The controller's vector.                                                *)

LEMMA PointersNext == PipeInv /\ [Next]_vars => Pointers'
<1> SUFFICES ASSUME PipeInv, [Next]_vars PROVE Pointers'
  OBVIOUS
<1> USE DEF prods, conses, control, handlers, HandlerExit
<1>1. /\ Pointers
      /\ cpc \in [Consumer -> {"none", "test", "poll", "dequeue", "enqueue"}]
      /\ self \in [Consumer -> Consumer \cup {Null}]
      /\ hpc \in [Signal -> {"idle", "up", "push_back", "start", "down", "cancel",
                             "pthread_cancel", "pop_back"}]
      /\ mine \in [Signal -> Consumer \cup {Null}] /\ alive \in SUBSET Consumer
  BY DEF PipeInv, TypeOK
<1>2. ASSUME NEW t \in Consumer, ConsumerStep(t) PROVE Pointers'
  BY <1>1, <1>2 DEF ConsumerStep, ConsumerTest, ConsumerPoll, ConsumerDequeue,
         ConsumerEnqueue, Pointers
<1>3. ASSUME NEW h \in Signal, StartBack(h) PROVE Pointers'
  <2> DEFINE c == Back(consumers)
  <2>1. PICK t \in Threads(c) :
               /\ cpc' = [u \in Consumer |-> IF u = t THEN "test" ELSE cpc[u]]
               /\ self' = [u \in Consumer |-> IF u = t THEN c ELSE self[u]]
    BY <1>3 DEF StartBack
  <2>2. t \in Consumer => c # Null
    BY <2>1, NullAssumption DEF Threads
  <2>3. \A u \in Consumer : self'[u] = Null <=> cpc'[u] = "none"
    BY <1>1, <2>1, <2>2 DEF Pointers
  <2>4. \A g \in Signal : hpc'[g] = "push_back" => mine'[g] # Null
    BY <1>1, <1>3 DEF StartBack, Pointers
  <2>5. QED
    BY <2>3, <2>4 DEF Pointers
<1>4. ASSUME NEW h \in Signal, ScaleUp(h) PROVE Pointers'
  BY <1>1, <1>4, NullAssumption DEF ScaleUp, Pointers
<1>5. ASSUME NEW h \in Signal,
             \/ PushBack(h) \/ NoMoreConsumers(h) \/ ScaleDown(h) \/ SetCancel(h)
             \/ PthreadCancel(h) \/ PopBack(h) \/ HandlerNothing(h) \/ HandlerDangles(h)
      PROVE  Pointers'
  BY <1>1, <1>5 DEF PushBack, NoMoreConsumers, ScaleDown, SetCancel, PthreadCancel,
         PopBack, HandlerNothing, HandlerDangles, Pointers
<1>6. CASE Alarm
  BY <1>1, <1>6 DEF Alarm, AlarmKills, HandlerEnter, Pointers
<1>7. ASSUME UNCHANGED <<conses, handlers>> PROVE Pointers'
  BY <1>1, <1>7 DEF Pointers
<1>8. CASE ReadLine \/ WriteLine \/ ArmTimer \/ DanglingQueueUse \/ Ended \/ UNCHANGED vars
  BY <1>7, <1>8 DEF ReadLine, WriteLine, ArmTimer, DanglingQueueUse, Ended, vars
<1>9. CASE Main
  BY <1>7, <1>9 DEF Main, JoinReader, JoinWriter, DeleteController, DeleteQueues, Exit
<1>10. ASSUME NEW p \in Producer, ProducerStep(p) PROVE Pointers'
  BY <1>7, <1>10 DEF ProducerStep, ProducerPoll, ProducerDequeue, ProducerEnqueue
<1>11. QED
  BY <1>2, <1>3, <1>4, <1>5, <1>6, <1>8, <1>9, <1>10 DEF Next, HandlerStep

\* VectorOwnsLive is what Owns says, when each thread runs its own object.
LEMMA VectorState == PipeInv => VectorOwnsLive
<1> SUFFICES ASSUME PipeInv, global_ctr, overlaps = 0 PROVE VectorOwnsLive
  BY DEF VectorOwnsLive
<1>1. OwnObject /\ Owns
  BY DEF PipeInv, Serial
<1>2. {self[t] : t \in {u \in Consumer : cpc[u] # "none" /\ ~is_cancel[self[u]]}} = Live
  BY <1>1 DEF OwnObject, Live
<1>3. QED
  BY <1>1, <1>2 DEF VectorOwnsLive, Owns, Distinct, Elements

\* What the steps need of the invariant, while handlers have not overlapped.
Before == /\ cpc \in [Consumer -> {"none", "test", "poll", "dequeue", "enqueue"}]
          /\ self \in [Consumer -> Consumer \cup {Null}]
          /\ alive \in SUBSET Consumer
          /\ is_cancel \in [Consumer -> BOOLEAN]
          /\ consumers \in Seq(Consumer)
          /\ hpc \in [Signal -> {"idle", "up", "push_back", "start", "down", "cancel",
                                 "pthread_cancel", "pop_back"}]
          /\ seen \in [Signal -> Seq(Consumer)]
          /\ mine \in [Signal -> Consumer \cup {Null}]
          /\ Alone /\ OwnObject
          /\ global_ctr => Owns /\ \A h \in Signal : Knows(h)

After == Alone /\ OwnObject /\ (global_ctr => Owns /\ \A h \in Signal : Knows(h))

LEMMA BeforeHolds == PipeInv /\ overlaps = 0 => Before
BY DEF PipeInv, TypeOK, Serial, Before

\* The one handler tells what Changing and Cancelling are.
LEMMA OneHandler ==
    ASSUME Before, NEW h \in Signal, Inside(h)
    PROVE  /\ Changing <=> hpc[h] \in {"start", "pthread_cancel", "pop_back"}
           /\ Cancelling <=> hpc[h] \in {"cancel", "pthread_cancel", "pop_back"}
           /\ \A g \in Signal \ {h} : hpc[g] = "idle"
<1>1. \A g \in Signal \ {h} : hpc[g] = "idle"
  BY DEF Before, Alone, Inside
<1>2. QED
  BY <1>1 DEF Changing, Cancelling

\* A step of the one handler leaves it the one handler.
LEMMA OneHandlerNext ==
    ASSUME Before, NEW h \in Signal, Inside(h), NEW pc, hpc' = [hpc EXCEPT ![h] = pc]
    PROVE  /\ Alone'
           /\ hpc'[h] = pc /\ \A g \in Signal \ {h} : hpc'[g] = "idle"
           /\ Changing' <=> pc \in {"start", "pthread_cancel", "pop_back"}
           /\ Cancelling' <=> pc \in {"cancel", "pthread_cancel", "pop_back"}
<1>1. hpc'[h] = pc /\ \A g \in Signal \ {h} : hpc'[g] = "idle"
  BY OneHandler DEF Before
<1>2. QED
  BY <1>1 DEF Alone, Inside, Changing, Cancelling

LEMMA ScaleUpSerial ==
    ASSUME Before, NEW h \in Signal, ScaleUp(h)
    PROVE  After'
<1>1. PICK c \in Consumer \ alive :
             /\ alive' = alive \cup {c} /\ is_cancel' = [is_cancel EXCEPT ![c] = FALSE]
             /\ mine' = [mine EXCEPT ![h] = c]
  BY DEF ScaleUp
<1>2. /\ hpc[h] = "up" /\ hpc' = [hpc EXCEPT ![h] = "push_back"]
      /\ seen' = [seen EXCEPT ![h] = consumers]
      /\ UNCHANGED <<cpc, self, consumers, global_ctr>> /\ global_ctr
  BY DEF ScaleUp
<1>3. /\ Alone' /\ ~ Changing /\ ~ Changing' /\ ~ Cancelling'
      /\ \A g \in Signal \ {h} : hpc'[g] = "idle"
  BY <1>2, OneHandler, OneHandlerNext DEF Inside
<1>4. cpc[c] = "none"
  BY <1>1 DEF Before, OwnObject
<1>5. Live' = Live
  BY <1>1, <1>2, <1>4 DEF Live, Before
<1>6. Owns'
  BY <1>2, <1>3, <1>5 DEF Before, Owns, Distinct, Elements
<1>7. OwnObject'
  BY <1>1, <1>2 DEF Before, OwnObject
<1>8. seen'[h] = consumers' /\ mine'[h] = c /\ hpc'[h] = "push_back"
  BY <1>1, <1>2 DEF Before
<1>9. Fresh(c)'
  BY <1>1, <1>2, <1>4 DEF Before, Fresh
<1>10. \A g \in Signal : Knows(g)'
  BY <1>3, <1>8, <1>9 DEF Knows, Fresh
<1>11. QED
  BY <1>3, <1>6, <1>7, <1>10 DEF After

LEMMA PushBackSerial ==
    ASSUME Before, NEW h \in Signal, PushBack(h)
    PROVE  After'
<1> DEFINE c == mine[h]
           n == Len(consumers)
<1>1. /\ hpc[h] = "push_back" /\ hpc' = [hpc EXCEPT ![h] = "start"] /\ global_ctr
      /\ consumers' = Append(seen[h], c)
      /\ UNCHANGED <<cpc, self, alive, is_cancel, global_ctr>>
  BY DEF PushBack, conses
<1>2. /\ Alone' /\ ~ Changing /\ Changing' /\ ~ Cancelling'
      /\ hpc'[h] = "start" /\ \A g \in Signal \ {h} : hpc'[g] = "idle"
  BY <1>1, OneHandler, OneHandlerNext DEF Inside
<1>3. seen[h] = consumers /\ Fresh(c) /\ c \in Consumer
  BY <1>1 DEF Before, Knows, Fresh
<1>4. Distinct /\ Elements(n) = Live /\ consumers \in Seq(Consumer) /\ n \in Nat
  BY <1>1, <1>2 DEF Before, Owns
<1>5. /\ Len(consumers') = n + 1 /\ consumers'[n + 1] = c /\ consumers' # <<>>
      /\ \A i \in 1 .. n : consumers'[i] = consumers[i]
  BY <1>1, <1>3, <1>4
<1>6. c \notin Live
  BY <1>3 DEF Fresh, Live
<1>7. \A i \in 1 .. n : consumers[i] # c
  BY <1>4, <1>6 DEF Elements
<1>8. \A i \in 1 .. n + 1 : i \in 1 .. n \/ i = n + 1
  BY <1>4
<1> HIDE DEF n, c
<1>9. Distinct'
  BY <1>4, <1>5, <1>7, <1>8 DEF Distinct, n
<1>10. Live' = Live
  BY <1>1 DEF Live
<1>11. {consumers'[i] : i \in 1 .. n} = {consumers[i] : i \in 1 .. n}
  BY <1>5
<1>12. Len(consumers') - 1 = n
  BY <1>4, <1>5
<1>13. Owns'
  BY <1>2, <1>4, <1>9, <1>10, <1>11, <1>12 DEF Owns, Elements
<1>14. Back(consumers') = c
  BY <1>5 DEF Back
<1>15. \A g \in Signal : Knows(g)'
  BY <1>1, <1>2, <1>3, <1>5, <1>14 DEF Knows, Fresh
<1>16. OwnObject'
  BY <1>1 DEF Before, OwnObject
<1>17. QED
  BY <1>2, <1>13, <1>15, <1>16 DEF After

LEMMA StartBackSerial ==
    ASSUME Before, NEW h \in Signal, StartBack(h)
    PROVE  After'
<1> DEFINE c == Back(consumers)
           n == Len(consumers)
<1>1. /\ hpc[h] = "start" /\ hpc' = [hpc EXCEPT ![h] = "idle"] /\ global_ctr
      /\ UNCHANGED <<alive, is_cancel, consumers, global_ctr>>
  BY DEF StartBack, HandlerExit
<1>2. /\ Alone' /\ Changing /\ ~ Changing' /\ ~ Cancelling'
      /\ \A g \in Signal : hpc'[g] = "idle"
  BY <1>1, OneHandler, OneHandlerNext DEF Inside
<1>3. consumers # <<>> /\ Fresh(c) /\ c \in Consumer /\ c = consumers[n]
  BY <1>1 DEF Before, Knows, Fresh, Back
<1>4. Distinct /\ Elements(n - 1) = Live /\ consumers \in Seq(Consumer) /\ n \in Nat \ {0}
  BY <1>1, <1>2, <1>3 DEF Before, Owns
<1>5. Threads(c) = {c}
  BY <1>3, NullAssumption DEF Threads, Fresh
<1>6. /\ cpc' = [u \in Consumer |-> IF u = c THEN "test" ELSE cpc[u]]
      /\ self' = [u \in Consumer |-> IF u = c THEN c ELSE self[u]]
  BY <1>5 DEF StartBack
<1>7. \A i \in 1 .. n : i \in 1 .. n - 1 \/ i = n
  BY <1>4
<1>8. \A i \in 1 .. n - 1 : i \in 1 .. n
  BY <1>4
<1> HIDE DEF n, c
<1>9. Live' = Live \cup {c}
  BY <1>1, <1>3, <1>6 DEF Live, Fresh
<1>10. {consumers[i] : i \in 1 .. n} = {consumers[i] : i \in 1 .. n - 1} \cup {consumers[n]}
  <2>1. n \in 1 .. n
    BY <1>4
  <2>2. QED
    BY <1>7, <1>8, <2>1
<1>11. {consumers'[i] : i \in 1 .. n} = Live' /\ Len(consumers') = n
  BY <1>1, <1>3, <1>4, <1>9, <1>10 DEF Elements, n
<1>12. Owns'
  BY <1>1, <1>2, <1>4, <1>11 DEF Owns, Distinct, Elements
<1>13. OwnObject'
  BY <1>1, <1>3, <1>6 DEF Before, OwnObject, Fresh
<1>14. \A g \in Signal : Knows(g)'
  BY <1>2 DEF Knows
<1>15. QED
  BY <1>2, <1>12, <1>13, <1>14 DEF After

LEMMA SetCancelSerial ==
    ASSUME Before, NEW h \in Signal, SetCancel(h)
    PROVE  After'
<1> DEFINE c == Back(consumers)
           n == Len(consumers)
<1>1. /\ hpc[h] = "cancel" /\ hpc' = [hpc EXCEPT ![h] = "pthread_cancel"] /\ global_ctr
      /\ is_cancel' = [d \in Consumer |-> d = c \/ is_cancel[d]]
      /\ UNCHANGED <<cpc, self, alive, consumers, global_ctr>>
  BY DEF SetCancel
<1>2. /\ Alone' /\ ~ Changing /\ Changing' /\ Cancelling /\ Cancelling'
      /\ hpc'[h] = "pthread_cancel" /\ \A g \in Signal \ {h} : hpc'[g] = "idle"
  BY <1>1, OneHandler, OneHandlerNext DEF Inside
<1>3. Distinct /\ Elements(n) = Live /\ consumers \in Seq(Consumer) /\ n \in Nat /\ n > 1
  BY <1>1, <1>2 DEF Before, Owns
<1>4. c = consumers[n] /\ c \in Consumer
  BY <1>3 DEF Back
<1>5. \A i \in 1 .. n : i \in 1 .. n - 1 \/ i = n
  BY <1>3
<1>6. \A i \in 1 .. n - 1 : i \in 1 .. n /\ i # n
  BY <1>3
<1>7. n \in 1 .. n
  BY <1>3
<1> HIDE DEF n, c
<1>8. Live' = Live \ {c}
  BY <1>1, <1>4 DEF Live
<1>9. {consumers[i] : i \in 1 .. n - 1} = {consumers[i] : i \in 1 .. n} \ {c}
  <2>1. \A i \in 1 .. n - 1 : consumers[i] # c
    BY <1>3, <1>4, <1>6, <1>7 DEF Distinct, n
  <2>2. QED
    BY <1>4, <1>5, <1>6, <2>1
<1>10. {consumers'[i] : i \in 1 .. n - 1} = Live' /\ Len(consumers') = n
  BY <1>1, <1>3, <1>8, <1>9 DEF Elements, n
<1>11. Owns'
  BY <1>1, <1>2, <1>3, <1>10 DEF Owns, Distinct, Elements
<1>12. OwnObject'
  BY <1>1 DEF Before, OwnObject
<1>13. \A g \in Signal : Knows(g)'
  BY <1>2 DEF Knows
<1>14. QED
  BY <1>2, <1>11, <1>12, <1>13 DEF After

LEMMA PopBackSerial ==
    ASSUME Before, NEW h \in Signal, PopBack(h)
    PROVE  After'
<1> DEFINE n == Len(consumers)
<1>1. /\ hpc[h] = "pop_back" /\ hpc' = [hpc EXCEPT ![h] = "idle"] /\ global_ctr
      /\ consumers' = SubSeq(seen[h], 1, Len(seen[h]) - 1)
      /\ UNCHANGED <<cpc, self, alive, is_cancel, global_ctr>>
  BY DEF PopBack, HandlerExit, conses
<1>2. /\ Alone' /\ Changing /\ ~ Changing' /\ Cancelling /\ ~ Cancelling'
      /\ \A g \in Signal : hpc'[g] = "idle"
  BY <1>1, OneHandler, OneHandlerNext DEF Inside
<1>3. seen[h] = consumers
  BY <1>1 DEF Before, Knows
<1>4. Distinct /\ Elements(n - 1) = Live /\ n > 1 /\ n \in Nat /\ consumers \in Seq(Consumer)
  BY <1>1, <1>2 DEF Before, Owns
<1>5. Len(consumers') = n - 1 /\ \A i \in 1 .. n - 1 : consumers'[i] = consumers[i]
  BY <1>1, <1>3, <1>4
<1>6. \A i \in 1 .. n - 1 : i \in 1 .. n
  BY <1>4
<1> HIDE DEF n
<1>7. Distinct'
  BY <1>4, <1>5, <1>6 DEF Distinct, n
<1>8. {consumers'[i] : i \in 1 .. n - 1} = {consumers[i] : i \in 1 .. n - 1}
  BY <1>5
<1>9. Live' = Live
  BY <1>1 DEF Live
<1>10. Owns'
  BY <1>2, <1>4, <1>5, <1>7, <1>8, <1>9 DEF Owns, Elements
<1>11. OwnObject' /\ \A g \in Signal : Knows(g)'
  BY <1>1, <1>2 DEF Before, OwnObject, Knows
<1>12. QED
  BY <1>2, <1>10, <1>11 DEF After

LEMMA OtherHandlerSerial ==
    ASSUME Before, NEW h \in Signal,
           \/ NoMoreConsumers(h) \/ ScaleDown(h) \/ PthreadCancel(h) \/ HandlerNothing(h)
           \/ HandlerDangles(h)
    PROVE  After'
<1> USE DEF HandlerExit, conses
<1>1. CASE NoMoreConsumers(h) \/ HandlerNothing(h) \/ HandlerDangles(h)
  <2>1. /\ Inside(h) /\ hpc' = [hpc EXCEPT ![h] = "idle"]
        /\ UNCHANGED <<cpc, self, alive, is_cancel, consumers, global_ctr>>
        /\ global_ctr => hpc[h] \in {"up", "down"}
    BY <1>1 DEF NoMoreConsumers, HandlerNothing, HandlerDangles, Inside
  <2>2. Alone' /\ ~ Changing' /\ ~ Cancelling' /\ \A g \in Signal : hpc'[g] = "idle"
    BY <2>1, OneHandlerNext
  <2>3. global_ctr => ~ Changing
    BY <2>1, OneHandler
  <2>4. Live' = Live
    BY <2>1 DEF Live
  <2>5. global_ctr => Owns'
    BY <2>1, <2>2, <2>3, <2>4 DEF Before, Owns, Distinct, Elements
  <2>6. OwnObject' /\ \A g \in Signal : Knows(g)'
    BY <2>1, <2>2 DEF Before, OwnObject, Knows
  <2>7. QED
    BY <2>1, <2>2, <2>5, <2>6 DEF After
<1>2. CASE ScaleDown(h)
  <2>1. /\ hpc[h] = "down" /\ hpc' = [hpc EXCEPT ![h] = "cancel"] /\ Len(consumers) > 1
        /\ UNCHANGED <<cpc, self, alive, is_cancel, consumers, global_ctr>> /\ global_ctr
    BY <1>2 DEF ScaleDown, ScaleDownTest
  <2>2. /\ Alone' /\ ~ Changing' /\ ~ Changing /\ hpc'[h] = "cancel"
        /\ \A g \in Signal \ {h} : hpc'[g] = "idle"
    BY <2>1, OneHandler, OneHandlerNext DEF Inside
  <2>3. Live' = Live
    BY <2>1 DEF Live
  <2>4. Owns'
    <3>1. Distinct /\ Elements(Len(consumers)) = Live
      BY <2>1, <2>2 DEF Before, Owns
    <3>2. Distinct' /\ {consumers'[i] : i \in 1 .. Len(consumers')} = Live'
      BY <2>1, <2>3, <3>1 DEF Distinct, Elements
    <3>3. QED
      BY <2>1, <2>2, <3>2 DEF Owns, Elements
  <2>5. OwnObject' /\ \A g \in Signal : Knows(g)'
    BY <2>1, <2>2 DEF Before, OwnObject, Knows
  <2>6. QED
    BY <2>2, <2>4, <2>5 DEF After
<1>3. CASE PthreadCancel(h)
  <2>1. /\ hpc[h] = "pthread_cancel" /\ hpc' = [hpc EXCEPT ![h] = "pop_back"]
        /\ seen' = [seen EXCEPT ![h] = consumers]
        /\ UNCHANGED <<cpc, self, alive, is_cancel, consumers, global_ctr>>
    BY <1>3 DEF PthreadCancel
  <2>2. /\ Alone' /\ Changing' /\ Changing /\ Cancelling /\ Cancelling'
        /\ hpc'[h] = "pop_back" /\ \A g \in Signal \ {h} : hpc'[g] = "idle"
    BY <2>1, OneHandler, OneHandlerNext DEF Inside
  <2>3. Live' = Live
    BY <2>1 DEF Live
  <2>4. global_ctr => Owns'
    BY <2>1, <2>2, <2>3 DEF Before, Owns, Distinct, Elements
  <2>5. seen'[h] = consumers'
    BY <2>1 DEF Before
  <2>6. OwnObject' /\ \A g \in Signal : Knows(g)'
    BY <2>1, <2>2, <2>5 DEF Before, OwnObject, Knows
  <2>7. QED
    BY <2>1, <2>2, <2>4, <2>6 DEF After
<1>4. QED
  BY <1>1, <1>2, <1>3

\* A signal taken while no handler is at work.
LEMMA EnterSerial ==
    ASSUME Before, NEW h \in Signal, HandlerEnter(h), ~ Interrupted(h)
    PROVE  After'
<1>1. /\ global_ctr /\ UNCHANGED <<cpc, self, alive, is_cancel, consumers, global_ctr>>
      /\ \A g \in Signal : hpc[g] = "idle"
  BY DEF HandlerEnter, Interrupted, Inside, conses
<1>2. /\ hpc'[h] \in {"up", "down", "idle"} /\ \A g \in Signal \ {h} : hpc'[g] = "idle"
  BY <1>1 DEF HandlerEnter, Before
<1>3. Alone' /\ ~ Changing /\ ~ Changing' /\ ~ Cancelling'
  BY <1>1, <1>2 DEF Alone, Inside, Changing, Cancelling
<1>4. Live' = Live
  BY <1>1 DEF Live
<1>5. Owns'
  BY <1>1, <1>3, <1>4 DEF Before, Owns, Distinct, Elements
<1>6. OwnObject' /\ \A g \in Signal : Knows(g)'
  BY <1>1, <1>2 DEF Before, OwnObject, Knows
<1>7. QED
  BY <1>3, <1>5, <1>6 DEF After

\* A consumer ends only when it has been cancelled.
LEMMA ConsumerSerial ==
    ASSUME Before, NEW t \in Consumer, ConsumerStep(t)
    PROVE  After'
<1>1. UNCHANGED <<is_cancel, consumers, global_ctr, hpc, mine, seen>>
  BY DEF ConsumerStep, ConsumerTest, ConsumerPoll, ConsumerDequeue, ConsumerEnqueue,
         control, handlers
<1>2. /\ Alone' /\ (Changing' <=> Changing) /\ (Cancelling' <=> Cancelling)
  BY <1>1 DEF Before, Alone, Inside, Changing, Cancelling
<1>3. /\ OwnObject' /\ Live' = Live
      /\ \A c \in alive : cpc[c] = "none" => c \in alive' /\ cpc'[c] = "none"
  <2>1. CASE ConsumerTest(t)
    <3>1. cpc[t] = "test" /\ self[t] = t /\ t \in alive
      BY <2>1 DEF ConsumerTest, Before, OwnObject
    <3>2. CASE is_cancel[t]
      <4>1. /\ cpc' = [cpc EXCEPT ![t] = "none"] /\ alive' = alive \ {t}
            /\ self' = [self EXCEPT ![t] = Null]
        BY <2>1, <3>1, <3>2 DEF ConsumerTest
      <4>2. QED
        BY <1>1, <3>1, <3>2, <4>1 DEF Before, OwnObject, Live
    <3>3. CASE ~ is_cancel[t]
      <4>1. cpc' = [cpc EXCEPT ![t] = "poll"] /\ UNCHANGED <<self, alive>>
        BY <2>1, <3>1, <3>3 DEF ConsumerTest
      <4>2. QED
        BY <1>1, <3>1, <4>1 DEF Before, OwnObject, Live
    <3>4. QED
      BY <3>2, <3>3
  <2>2. CASE ConsumerPoll(t) \/ ConsumerDequeue(t) \/ ConsumerEnqueue(t)
    <3>1. /\ UNCHANGED <<self, alive>> /\ cpc[t] # "none" /\ cpc'[t] # "none"
          /\ \A u \in Consumer \ {t} : cpc'[u] = cpc[u]
      BY <2>2 DEF ConsumerPoll, ConsumerDequeue, ConsumerEnqueue, Before
    <3>2. QED
      BY <1>1, <3>1 DEF Before, OwnObject, Live
  <2>3. QED
    BY <2>1, <2>2 DEF ConsumerStep
<1>4. \A c : Fresh(c) => Fresh(c)'
  BY <1>1, <1>3 DEF Fresh, Before
<1>5. \A h \in Signal : Knows(h) => Knows(h)'
  BY <1>1, <1>4 DEF Knows, Fresh, Back
<1>6. Owns => Owns'
  BY <1>1, <1>2, <1>3 DEF Owns, Distinct, Elements
<1>7. QED
  BY <1>1, <1>2, <1>3, <1>5, <1>6 DEF Before, After

LEMMA SerialNext == PipeInv /\ [Next]_vars => Serial'
<1> SUFFICES ASSUME PipeInv, [Next]_vars, overlaps' = 0 PROVE After'
  BY DEF Serial, After
<1>1. overlaps \in Nat /\ (UNCHANGED overlaps \/ \E h \in Signal : HandlerEnter(h))
  <2>1. overlaps \in Nat
    BY SignalAssumption DEF PipeInv, TypeOK
  <2>2. ASSUME NEW h \in Signal, HandlerStep(h) PROVE UNCHANGED overlaps
    BY <2>2 DEF HandlerStep, ScaleUp, PushBack, StartBack, NoMoreConsumers, ScaleDown,
       SetCancel, PthreadCancel, PopBack, HandlerNothing, HandlerDangles
  <2>3. ASSUME NEW p \in Producer, ProducerStep(p) PROVE UNCHANGED overlaps
    BY <2>3 DEF ProducerStep, ProducerPoll, ProducerDequeue, ProducerEnqueue, control
  <2>4. ASSUME NEW t \in Consumer, ConsumerStep(t) PROVE UNCHANGED overlaps
    BY <2>4 DEF ConsumerStep, ConsumerTest, ConsumerPoll, ConsumerDequeue, ConsumerEnqueue,
       control
  <2>5. ASSUME ReadLine \/ WriteLine \/ ArmTimer \/ AlarmKills \/ DanglingQueueUse \/ Ended
               \/ UNCHANGED vars
        PROVE  UNCHANGED overlaps
    BY <2>5 DEF ReadLine, WriteLine, ArmTimer, AlarmKills, DanglingQueueUse, Ended, vars,
       control
  <2>6. ASSUME Main PROVE UNCHANGED overlaps
    BY <2>6 DEF Main, JoinReader, JoinWriter, DeleteController, DeleteQueues, Exit, control
  <2>7. QED
    BY <2>1, <2>2, <2>3, <2>4, <2>5, <2>6 DEF Next, Alarm
<1>2. overlaps = 0 /\ Before
  <2>1. ASSUME NEW h \in Signal, HandlerEnter(h) PROVE overlaps = 0
    BY <1>1, <2>1 DEF HandlerEnter
  <2>2. QED
    BY <1>1, <2>1, BeforeHolds
<1>3. ASSUME NEW h \in Signal, HandlerStep(h) PROVE After'
  BY <1>2, <1>3, ScaleUpSerial, PushBackSerial, StartBackSerial, SetCancelSerial,
     PopBackSerial, OtherHandlerSerial DEF HandlerStep
<1>4. ASSUME NEW h \in Signal, HandlerEnter(h) PROVE After'
  <2>1. ~ Interrupted(h)
    BY <1>2, <1>4 DEF HandlerEnter
  <2>2. QED
    BY <1>2, <1>4, <2>1, EnterSerial
<1>5. ASSUME UNCHANGED <<cpc, self, alive, is_cancel, consumers, hpc, mine, seen>>,
             global_ctr' => global_ctr
      PROVE  After'
  BY <1>2, <1>5 DEF Before, After, Alone, Inside, OwnObject, Owns, Distinct, Elements, Live,
         Changing, Cancelling, Knows, Fresh, Back
<1> USE DEF prods, conses, control, handlers
<1>6. CASE ReadLine \/ WriteLine \/ ArmTimer \/ AlarmKills \/ DanglingQueueUse \/ Ended
           \/ UNCHANGED vars
  BY <1>5, <1>6 DEF ReadLine, WriteLine, ArmTimer, AlarmKills, DanglingQueueUse, Ended, vars
<1>7. CASE Main
  BY <1>5, <1>7 DEF Main, JoinReader, JoinWriter, DeleteController, DeleteQueues, Exit
<1>8. ASSUME NEW p \in Producer, ProducerStep(p) PROVE After'
  BY <1>5, <1>8 DEF ProducerStep, ProducerPoll, ProducerDequeue, ProducerEnqueue
<1>9. ASSUME NEW t \in Consumer, ConsumerStep(t) PROVE After'
  BY <1>2, <1>9, ConsumerSerial
<1>10. QED
  BY <1>3, <1>4, <1>6, <1>7, <1>8, <1>9 DEF Next, Alarm
-----------------------------------------------------------------------------
(* The results.                                                            *)

\* The inductive invariant: types, the item each program counter has in hand,
\* what has been joined, where the copies of each line are and, until handlers
\* overlap, what the handler knows of the consumers.
THEOREM PipeInvHolds == Spec => []PipeInv
BY PipeInit, TypeNext, HandNext, JoinedNext, OnceNext, PointersNext, SerialNext, PTL
   DEF Spec, PipeInv

\* No line is lost, duplicated or transformed twice between the input file and
\* the output file, for any number of producers and consumers, all sizes of the
\* queues and whatever consumers the controller cancels (one_run).
THEOREM EachLineOnce == Spec => []ExactlyOnce
BY PipeInvHolds, PTL DEF PipeInv

\* The queues never exceed their sizes and every variable keeps its type.
THEOREM PipelineTypes == Spec => []TypeOK
BY PipeInvHolds, PTL DEF PipeInv

\* The vector of consumer_controller.hpp holds exactly the live consumers, and
\* the last one is not cancelled, as long as no two handlers have overlapped.
THEOREM VectorCorrect == Spec => []VectorOwnsLive
BY PipeInvHolds, VectorState, PTL

\* A queue with an item counts it.
LEMMA Counted ==
    ASSUME NEW q \in Seq(Item), NEW i \in 1 .. Len(q), NEW k, q[i].key = k
    PROVE  k \in 1 .. Lines /\ Count(q, k) # 0
<1>1. q[i] \in Item
  OBVIOUS
<1>2. i \in At(q, k)
  BY DEF At
<1>3. Cardinality(At(q, k)) # 0
  BY <1>2, AtFinite, FS_EmptySet
<1>4. QED
  BY <1>1, <1>3, AtFinite DEF Item

\* An item at two places of a queue is counted twice.
LEMMA CountedTwice ==
    ASSUME NEW q \in Seq(Item), NEW i \in 1 .. Len(q), NEW j \in 1 .. Len(q), i # j,
           NEW k, q[i].key = k, q[j].key = k
    PROVE  Count(q, k) >= 2
<1> DEFINE both == {i} \cup {j}
<1>1. both \in SUBSET At(q, k)
  BY DEF At
<1>2. IsFiniteSet({i}) /\ Cardinality({i}) = 1 /\ j \notin {i}
  BY FS_Singleton
<1>3. Cardinality(both) = Cardinality({i}) + 1
  BY <1>2, FS_AddElement
<1> HIDE DEF both
<1>4. Cardinality(both) = 2
  BY <1>2, <1>3
<1>5. Cardinality(both) <= Cardinality(At(q, k))
  BY <1>1, AtFinite, FS_Subset
<1>6. Count(q, k) = Cardinality(At(q, k)) /\ Count(q, k) \in Nat
  BY AtFinite
<1>7. QED
  BY <1>4, <1>5, <1>6

\* A thread with an item is counted.
LEMMA HolderCounted ==
    ASSUME NEW T, IsFiniteSet(T), NEW item \in [T -> Item \cup {Null}], NEW t \in T,
           item[t] # Null
    PROVE  \E k \in 1 .. Lines : Cardinality(Holders(item, k)) # 0
<1>1. t \in Holders(item, item[t].key)
  BY DEF Holders
<1>2. IsFiniteSet(Holders(item, item[t].key))
  BY FS_Subset DEF Holders
<1>3. Cardinality(Holders(item, item[t].key)) # 0
  BY <1>1, <1>2, FS_EmptySet
<1>4. item[t].key \in 1 .. Lines
  BY DEF Item
<1>5. QED
  BY <1>3, <1>4

\* When every line has been written, no copy is left anywhere else.
LEMMA AllWritten ==
    ASSUME PipeInv, expected_lines = 0, Len(output) = Lines
    PROVE  /\ {output[i].key : i \in 1 .. Len(output)} = 1 .. Lines
           /\ \A k \in 1 .. Lines : Count(output, k) = 1
<1>1. output \in Seq(Item) /\ Lines \in Nat
  BY SizeAssumption DEF PipeInv, TypeOK
<1>2. ASSUME NEW k \in 1 .. Lines PROVE Count(output, k) <= 1
  <2>1. Copies(k) = 1
    BY <1>1 DEF PipeInv, ExactlyOnce
  <2>2. QED
    BY <2>1, Counts DEF Copies
<1>3. ASSUME NEW i \in 1 .. Lines PROVE output[i].key \in 1 .. Lines
  BY <1>1, Counted
<1>4. ASSUME NEW i \in 1 .. Lines, NEW j \in 1 .. Lines, output[i].key = output[j].key
      PROVE  i = j
  <2>1. SUFFICES ASSUME i # j PROVE FALSE
    OBVIOUS
  <2> DEFINE k == output[i].key
  <2>2. i \in 1 .. Len(output) /\ j \in 1 .. Len(output)
    OBVIOUS
  <2>3. k \in 1 .. Lines /\ output[i].key = k /\ output[j].key = k
    BY <1>3, <1>4
  <2> HIDE DEF k
  <2>4. Count(output, k) >= 2
    BY <1>1, <2>1, <2>2, <2>3, CountedTwice
  <2>5. Count(output, k) <= 1 /\ Count(output, k) \in Nat
    BY <1>1, <1>2, <2>3, AtFinite
  <2>6. QED
    BY <2>4, <2>5
<1> DEFINE keyOf == [i \in 1 .. Lines |-> output[i].key]
<1>5. keyOf \in Injection(1 .. Lines, 1 .. Lines)
  BY <1>3, <1>4 DEF Injection, IsInjective
<1>6. keyOf \in Surjection(1 .. Lines, 1 .. Lines)
  BY <1>1, <1>5, FS_Interval, FS_Injection
<1>7. \A k \in 1 .. Lines : \E i \in 1 .. Lines : output[i].key = k
  BY <1>6 DEF Surjection
<1> HIDE DEF keyOf
<1>8. ASSUME NEW k \in 1 .. Lines PROVE Count(output, k) = 1
  <2>1. PICK i \in 1 .. Len(output) : output[i].key = k
    BY <1>7
  <2>2. Count(output, k) # 0 /\ Count(output, k) \in Nat
    BY <1>1, <2>1, Counted, AtFinite
  <2>3. QED
    BY <1>2, <2>2
<1>9. {output[i].key : i \in 1 .. Len(output)} = 1 .. Lines
  BY <1>3, <1>7
<1>10. QED
  BY <1>8, <1>9

LEMMA TeardownState == PipeInv => TeardownLosesNothing
<1> SUFFICES ASSUME PipeInv, main \in {"delete_queues", "queues_deleted", "exit"}
             PROVE  /\ input_queue = <<>> /\ worker_queue = <<>> /\ writer_queue = <<>>
                    /\ \A p \in Producer : pitem[p] = Null
                    /\ \A c \in Consumer : citem[c] = Null
                    /\ {output[i].key : i \in 1 .. Len(output)} = 1 .. Lines
  BY DEF TeardownLosesNothing
<1>1. expected_lines = 0 /\ Len(output) = Lines
  BY DEF PipeInv, Joined
<1>2. ASSUME NEW k \in 1 .. Lines
      PROVE  /\ Count(input_queue, k) = 0 /\ Count(worker_queue, k) = 0
             /\ Count(writer_queue, k) = 0
             /\ Cardinality(Holders(pitem, k)) = 0 /\ Cardinality(Holders(citem, k)) = 0
  <2>1. Copies(k) = 1
    BY <1>1, SizeAssumption DEF PipeInv, ExactlyOnce
  <2>2. Count(output, k) = 1
    BY <1>1, AllWritten
  <2>3. QED
    BY <2>1, <2>2, Counts DEF Copies
<1>3. ASSUME NEW q \in Seq(Item), \A k \in 1 .. Lines : Count(q, k) = 0 PROVE q = <<>>
  <2>1. ASSUME NEW i \in 1 .. Len(q) PROVE FALSE
    BY <1>3, Counted
  <2>2. QED
    BY <2>1
<1>4. input_queue = <<>> /\ worker_queue = <<>> /\ writer_queue = <<>>
  BY <1>2, <1>3 DEF PipeInv, TypeOK
<1>5. \A p \in Producer : pitem[p] = Null
  BY <1>2, HolderCounted, ThreadAssumption DEF PipeInv, TypeOK
<1>6. \A c \in Consumer : citem[c] = Null
  BY <1>2, HolderCounted, ThreadAssumption DEF PipeInv, TypeOK
<1>7. QED
  BY <1>1, <1>4, <1>5, <1>6, AllWritten

\* one_run deletes what the unjoined producers and consumers share only when
\* every line is written and nothing is left on its way.
THEOREM TeardownCorrect == Spec => []TeardownLosesNothing
BY PipeInvHolds, TeardownState, PTL
=============================================================================
