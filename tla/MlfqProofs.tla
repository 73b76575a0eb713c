----------------------------- MODULE MlfqProofs -----------------------------
(***************************************************************************)
(* The MP3 scheduler, for every set of threads with any initial priorities *)
(* and all lengths of the ticks, the timer's period and the aging period.  *)
(***************************************************************************)
EXTENDS MlfqScheduler, NatLemmas, FiniteSetTheorems, TLAPS

-----------------------------------------------------------------------------
(* Inserting into a queue.                                                 *)

\* r is q with t put in at p.
Inserted(q, r, t, p) ==
    /\ p \in 1 .. Len(q) + 1
    /\ r \in Seq(Thread) /\ Len(r) = Len(q) + 1
    /\ r[p] = t
    /\ \A i \in 1 .. p - 1 : r[i] = q[i]
    /\ \A i \in p .. Len(q) : r[i + 1] = q[i]

\* Through y, x is less than z and a unit, which a larger step would have to find.
LEMMA LessThrough ==
    ASSUME NEW x \in Int, NEW y \in Int, NEW z \in Int, NEW u \in Nat \ {0}, x + u <= y, y < z + u
    PROVE  x < z + u
OBVIOUS

LEMMA AppendInserts ==
    ASSUME NEW q \in Seq(Thread), NEW t \in Thread
    PROVE  Inserted(q, Append(q, t), t, Len(q) + 1)
BY DEF Inserted

LEMMA InsertAtInserts ==
    ASSUME NEW q \in Seq(Thread), NEW t \in Thread, NEW p \in 1 .. Len(q)
    PROVE  Inserted(q, InsertAt(q, p, t), t, p)
<1> DEFINE a == SubSeq(q, 1, p - 1)
           b == SubSeq(q, p, Len(q))
<1>1. a \in Seq(Thread) /\ Len(a) = p - 1 /\ \A i \in 1 .. p - 1 : a[i] = q[i]
  OBVIOUS
<1>2. /\ b \in Seq(Thread) /\ Len(b) = Len(q) - p + 1
      /\ \A i \in 1 .. Len(q) - p + 1 : b[i] = q[p + i - 1]
  OBVIOUS
<1>3. InsertAt(q, p, t) = (a \o <<t>>) \o b
  BY DEF InsertAt
<1> HIDE DEF a, b
<1> DEFINE c == a \o <<t>>
<1>4. c \in Seq(Thread) /\ Len(c) = p /\ c[p] = t /\ \A i \in 1 .. p - 1 : c[i] = q[i]
  BY <1>1
<1> HIDE DEF c
<1>5. /\ c \o b \in Seq(Thread) /\ Len(c \o b) = Len(q) + 1
      /\ \A i \in 1 .. p : (c \o b)[i] = c[i]
  <2>1. c \o b \in Seq(Thread) /\ Len(c \o b) = Len(c) + Len(b)
    BY <1>2, <1>4
  <2>2. \A i \in 1 .. Len(c) : (c \o b)[i] = c[i]
    BY <1>2, <1>4
  <2>3. QED
    BY <1>2, <1>4, <2>1, <2>2
<1>6. ASSUME NEW i \in p .. Len(q) PROVE (c \o b)[i + 1] = q[i]
  <2>1. i + 1 \in p + 1 .. Len(c) + Len(b) /\ i + 1 - Len(c) \in 1 .. Len(q) - p + 1
    BY <1>2, <1>4
  <2>2. (c \o b)[i + 1] = b[i + 1 - Len(c)]
    BY <1>2, <1>4, <2>1
  <2>3. b[i + 1 - Len(c)] = q[p + (i + 1 - Len(c)) - 1]
    BY <1>2, <2>1
  <2>4. QED
    BY <1>4, <2>2, <2>3
<1>7. QED
  BY <1>3, <1>4, <1>5, <1>6 DEF Inserted, c

\* Insert puts t behind all that come before it, and ahead of one after it.
LEMMA InsertInserts ==
    ASSUME NEW q \in Seq(Thread), NEW t \in Thread, NEW greater
    PROVE  \E p \in 1 .. Len(q) + 1 :
              /\ Inserted(q, Insert(q, t, greater), t, p)
              /\ \A i \in 1 .. p - 1 : q[i] \notin greater
              /\ p <= Len(q) => q[p] \in greater
<1> DEFINE later == {i \in DOMAIN q : q[i] \in greater}
<1>1. DOMAIN q = 1 .. Len(q) /\ Len(q) \in Nat
  OBVIOUS
<1>2. CASE later = {}
  <2>1. Insert(q, t, greater) = Append(q, t)
    BY <1>2 DEF Insert
  <2>2. \A i \in 1 .. (Len(q) + 1) - 1 : q[i] \notin greater
    BY <1>1, <1>2
  <2>3. Len(q) + 1 \in 1 .. Len(q) + 1 /\ ~ (Len(q) + 1 <= Len(q))
    BY <1>1
  <2>4. QED
    BY <2>1, <2>2, <2>3, AppendInserts
<1>3. CASE later # {}
  <2> DEFINE p == Min(later)
  <2>1. later \subseteq Nat
    BY <1>1
  <2>2. PICK x \in later : \A y \in later : x <= y
    BY <1>3, <2>1, LeastElement
  <2>3. p \in later /\ \A y \in later : p <= y
    BY <2>2 DEF Min
  <2>4. Insert(q, t, greater) = InsertAt(q, p, t)
    BY <1>3 DEF Insert
  <2> HIDE DEF p
  <2>5. p \in 1 .. Len(q) /\ q[p] \in greater
    BY <1>1, <2>3
  <2>6. ASSUME NEW i \in 1 .. p - 1 PROVE q[i] \notin greater
    <3>1. i \in 1 .. Len(q) /\ ~ (p <= i)
      BY <1>1, <2>5
    <3>2. QED
      BY <1>1, <2>3, <3>1
  <2>7. Inserted(q, InsertAt(q, p, t), t, p)
    BY <2>5, InsertAtInserts
  <2>8. p \in 1 .. Len(q) + 1
    BY <1>1, <2>5
  <2>9. QED
    BY <2>4, <2>5, <2>6, <2>7, <2>8
<1>4. QED
  BY <1>2, <1>3

\* In q, nobody is behind one that needs a whole tick more.
Shortest(q, rem) ==
    \A i, j \in 1 .. Len(q) : i < j => rem[q[i]] < rem[q[j]] + Unit

\* after is lists with t in the queue of level l, and L1 as much in order.
Enqueued(after, lists, t, l, rem) ==
    /\ l \in 1 .. 3
    /\ after \in [1 .. 3 -> Seq(Thread)]
    /\ \A k \in 1 .. 3 : k # l => after[k] = lists[k]
    /\ \E p \in 1 .. Len(lists[l]) + 1 : Inserted(lists[l], after[l], t, p)
    /\ Shortest(lists[1], rem) => Shortest(after[1], rem)

\* Enqueue puts t into the queue of its priority, and keeps L1 in order.
LEMMA EnqueueInserts ==
    ASSUME NEW lists \in [1 .. 3 -> Seq(Thread)], NEW t \in Thread,
           NEW prio \in [Thread -> 0 .. 149], NEW rem \in [Thread -> Int]
    PROVE  Enqueued(Enqueue(lists, t, prio, rem), lists, t, LevelOf(prio[t]), rem)
<1> DEFINE l == LevelOf(prio[t])
           after == Enqueue(lists, t, prio, rem)
           longer == {u \in Thread : rem[t] + Unit <= rem[u]}
           lower  == {u \in Thread : prio[t] > prio[u]}
           q == lists[l]
           r == CASE l = 1 -> Insert(q, t, longer)
                  [] l = 2 -> Insert(q, t, lower)
                  [] l = 3 -> Append(q, t)
<1>1. l \in 1 .. 3 /\ q \in Seq(Thread)
  BY DEF LevelOf
<1>2. after = [lists EXCEPT ![l] = r]
  BY DEF Enqueue
<1>3. \E p \in 1 .. Len(q) + 1 :
        /\ Inserted(q, r, t, p)
        /\ l = 1 => /\ \A i \in 1 .. p - 1 : q[i] \notin longer
                    /\ p <= Len(q) => q[p] \in longer
  <2>1. /\ l = 1 => r = Insert(q, t, longer)
        /\ l = 2 => r = Insert(q, t, lower)
        /\ l = 3 => r = Append(q, t)
    OBVIOUS
  <2> HIDE DEF longer, lower, q, l, r
  <2>2. CASE l = 1
    <3>1. PICK p \in 1 .. Len(q) + 1 :
            /\ Inserted(q, Insert(q, t, longer), t, p)
            /\ \A i \in 1 .. p - 1 : q[i] \notin longer
            /\ p <= Len(q) => q[p] \in longer
      BY <1>1, InsertInserts
    <3>2. QED
      BY <2>1, <2>2, <3>1
  <2>3. CASE l = 2
    <3>1. PICK p \in 1 .. Len(q) + 1 : Inserted(q, Insert(q, t, lower), t, p)
      BY <1>1, InsertInserts
    <3>2. QED
      BY <2>1, <2>3, <3>1
  <2>4. CASE l = 3
    <3>1. Len(q) + 1 \in 1 .. Len(q) + 1
      BY <1>1
    <3>2. Inserted(q, Append(q, t), t, Len(q) + 1)
      BY <1>1, AppendInserts
    <3>3. l # 1
      BY <2>4
    <3>4. QED
      BY <2>1, <2>4, <3>1, <3>2, <3>3
  <2>5. QED
    BY <1>1, <2>2, <2>3, <2>4
<1>4. PICK p \in 1 .. Len(q) + 1 :
        /\ Inserted(q, r, t, p)
        /\ l = 1 => /\ \A i \in 1 .. p - 1 : q[i] \notin longer
                    /\ p <= Len(q) => q[p] \in longer
  BY <1>3
<1>5. r \in Seq(Thread)
  BY <1>4 DEF Inserted
<1>6. /\ after \in [1 .. 3 -> Seq(Thread)] /\ after[l] = r
      /\ \A k \in 1 .. 3 : k # l => after[k] = lists[k]
  <2> HIDE DEF r, q, l, after
  <2>1. QED
    BY <1>1, <1>2, <1>5
<1>7. ASSUME Shortest(lists[1], rem) PROVE Shortest(after[1], rem)
  <2>1. CASE l # 1
    BY <1>6, <1>7, <2>1
  <2>2. CASE l = 1
    <3>1. \A u \in Thread : u \in longer <=> rem[t] + Unit <= rem[u]
      OBVIOUS
    <3>2. Shortest(q, rem) /\ after[1] = r
      BY <1>6, <1>7, <2>2
    <3> HIDE DEF longer, lower, q, r, l, after
    <3>3. Len(q) \in Nat /\ Unit \in Nat \ {0} /\ p \in 1 .. Len(q) + 1
      BY <1>1, TickAssumption
    <3>4. \A i \in 1 .. Len(q) : q[i] \in Thread /\ rem[q[i]] \in Int
      BY <1>1
    <3>5. \A i \in 1 .. p - 1 : rem[q[i]] < rem[t] + Unit
      <4>1. TAKE i \in 1 .. p - 1
      <4>2. i \in 1 .. Len(q)
        BY <3>3
      <4>3. ~ (rem[t] + Unit <= rem[q[i]])
        BY <1>4, <2>2, <3>1, <3>4, <4>2
      <4>4. QED
        BY <3>3, <3>4, <4>2, <4>3
    <3>6. p <= Len(q) => rem[t] + Unit <= rem[q[p]]
      <4>1. SUFFICES ASSUME p <= Len(q) PROVE rem[t] + Unit <= rem[q[p]]
        OBVIOUS
      <4>2. p \in 1 .. Len(q) /\ q[p] \in longer
        BY <1>4, <2>2, <3>3, <4>1
      <4>3. QED
        BY <3>1, <3>4, <4>2
    <3>7. \A j \in p .. Len(q) : rem[t] < rem[q[j]] + Unit
      <4>1. TAKE j \in p .. Len(q)
      <4>2. j \in 1 .. Len(q) /\ p \in 1 .. Len(q) /\ p <= j
        BY <3>3
      <4>3. p = j \/ rem[q[p]] < rem[q[j]] + Unit
        BY <3>2, <4>2 DEF Shortest
      <4>4. rem[q[p]] \in Int /\ rem[q[j]] \in Int /\ rem[t] \in Int /\ rem[t] + Unit <= rem[q[p]]
        BY <1>1, <3>3, <3>4, <3>6, <4>2
      <4>5. rem[t] + Unit <= rem[q[p]] /\ rem[q[p]] < rem[q[j]] + Unit
        <5>1. rem[q[p]] < rem[q[p]] + Unit
          BY <3>3, <4>4
        <5>2. QED
          BY <4>3, <4>4, <5>1
      <4>6. QED
        BY <3>3, <4>4, <4>5, LessThrough
    <3>8. ASSUME NEW i \in 1 .. Len(r), NEW j \in 1 .. Len(r), i < j
          PROVE  rem[r[i]] < rem[r[j]] + Unit
      <4>1. /\ Len(r) = Len(q) + 1 /\ r[p] = t
            /\ \A k \in 1 .. p - 1 : r[k] = q[k]
            /\ \A k \in p .. Len(q) : r[k + 1] = q[k]
        BY <1>4 DEF Inserted
      <4>2. CASE j < p
        <5>1. i \in 1 .. p - 1 /\ j \in 1 .. p - 1 /\ i \in 1 .. Len(q) /\ j \in 1 .. Len(q)
          BY <3>3, <3>8, <4>2
        <5>2. QED
          BY <3>2, <3>8, <4>1, <5>1 DEF Shortest
      <4>3. CASE j = p
        <5>1. i \in 1 .. p - 1
          BY <3>3, <3>8, <4>3
        <5>2. QED
          BY <3>5, <4>1, <4>3, <5>1
      <4>4. CASE i = p
        <5>1. j - 1 \in p .. Len(q) /\ (j - 1) + 1 = j
          BY <3>3, <3>8, <4>1, <4>4
        <5>2. r[j] = q[j - 1]
          BY <4>1, <5>1
        <5>3. QED
          BY <3>7, <4>1, <4>4, <5>1, <5>2
      <4>5. CASE i < p /\ p < j
        <5>1. /\ i \in 1 .. p - 1 /\ i \in 1 .. Len(q)
              /\ j - 1 \in p .. Len(q) /\ j - 1 \in 1 .. Len(q)
              /\ (j - 1) + 1 = j /\ i < j - 1
          BY <3>3, <3>8, <4>1, <4>5
        <5>2. r[j] = q[j - 1] /\ r[i] = q[i]
          BY <4>1, <5>1
        <5>3. QED
          BY <3>2, <5>1, <5>2 DEF Shortest
      <4>6. CASE p < i
        <5>1. /\ i - 1 \in p .. Len(q) /\ i - 1 \in 1 .. Len(q) /\ (i - 1) + 1 = i
              /\ j - 1 \in p .. Len(q) /\ j - 1 \in 1 .. Len(q) /\ (j - 1) + 1 = j
              /\ i - 1 < j - 1
          BY <3>3, <3>8, <4>1, <4>6
        <5>2. r[j] = q[j - 1] /\ r[i] = q[i - 1]
          BY <4>1, <5>1
        <5>3. QED
          BY <3>2, <5>1, <5>2 DEF Shortest
      <4>7. QED
        BY <3>3, <3>8, <4>2, <4>3, <4>4, <4>5, <4>6
    <3>9. QED
      BY <3>2, <3>8 DEF Shortest
  <2>3. QED
    BY <2>1, <2>2
<1>8. \E m \in 1 .. Len(q) + 1 : Inserted(q, after[l], t, m)
  <2> HIDE DEF r, q, l, after
  <2>1. QED
    BY <1>4, <1>6
<1> HIDE DEF l, after
<1>9. Enqueued(after, lists, t, l, rem)
  BY <1>1, <1>6, <1>7, <1>8 DEF Enqueued
<1>10. QED
  BY <1>9 DEF l, after

-----------------------------------------------------------------------------
(* What the queues hold.                                                   *)

\* The lists hold the threads in S, each once, t in the list lv[t].
Holds(lists, lv, S) ==
    /\ lists \in [1 .. 3 -> Seq(Thread)]
    /\ \A l \in 1 .. 3 : \A i \in 1 .. Len(lists[l]) :
          lists[l][i] \in S /\ lv[lists[l][i]] = l
    /\ \A l \in 1 .. 3 : \A i, j \in 1 .. Len(lists[l]) :
          lists[l][i] = lists[l][j] => i = j
    /\ \A t \in S : \E i \in 1 .. Len(lists[lv[t]]) : lists[lv[t]][i] = t

\* Only the levels of the threads held matter.
LEMMA HoldsSame ==
    ASSUME NEW lists, NEW lv, NEW lw, NEW S, Holds(lists, lv, S),
           \A t \in S : lw[t] = lv[t]
    PROVE  Holds(lists, lw, S)
BY Zenon DEF Holds

\* A thread that is put into its list is held too.
LEMMA HoldsMore ==
    ASSUME NEW S \in SUBSET Thread, NEW lv \in [Thread -> 1 .. 3],
           NEW lists, Holds(lists, lv, S),
           NEW t \in Thread, t \notin S,
           NEW after \in [1 .. 3 -> Seq(Thread)],
           \A k \in 1 .. 3 : k # lv[t] => after[k] = lists[k],
           NEW p, Inserted(lists[lv[t]], after[lv[t]], t, p)
    PROVE  Holds(after, lv, S \cup {t})
<1> DEFINE l == lv[t]
           q == lists[l]
           r == after[l]
           n == Len(q)
<1>1. /\ l \in 1 .. 3 /\ q \in Seq(Thread) /\ n \in Nat
      /\ \A i \in 1 .. n : q[i] \in S /\ lv[q[i]] = l
      /\ \A i, j \in 1 .. n : q[i] = q[j] => i = j
  BY DEF Holds
<1>2. /\ p \in 1 .. n + 1 /\ Len(r) = n + 1 /\ r[p] = t
      /\ \A i \in 1 .. p - 1 : r[i] = q[i]
      /\ \A i \in p .. n : r[i + 1] = q[i]
  BY DEF Inserted
<1> HIDE DEF q, r, n
<1>3. \A i \in 1 .. n + 1 : \/ i = p
                            \/ i \in 1 .. p - 1 /\ i \in 1 .. n /\ r[i] = q[i]
                            \/ i - 1 \in p .. n /\ i - 1 \in 1 .. n /\ r[i] = q[i - 1]
  <2>1. TAKE i \in 1 .. n + 1
  <2>2. CASE i < p
    <3>1. i \in 1 .. p - 1 /\ i \in 1 .. n
      BY <1>1, <1>2, <2>2
    <3>2. QED
      BY <1>2, <3>1
  <2>3. CASE i > p
    <3>1. i - 1 \in p .. n /\ i - 1 \in 1 .. n /\ (i - 1) + 1 = i
      BY <1>1, <1>2, <2>3
    <3>2. r[i] = q[i - 1]
      BY <1>2, <3>1
    <3>3. QED
      BY <3>1, <3>2
  <2>4. QED
    BY <1>1, <1>2, <2>2, <2>3
<1>4. \A i \in 1 .. n + 1 : r[i] \in S \cup {t} /\ lv[r[i]] = l
  <2>1. TAKE i \in 1 .. n + 1
  <2>2. r[i] = t \/ \E j \in 1 .. n : r[i] = q[j]
    BY <1>2, <1>3
  <2>3. QED
    BY <1>1, <2>2
<1>5. ASSUME NEW i \in 1 .. n + 1, NEW j \in 1 .. n + 1, r[i] = r[j] PROVE i = j
  <2>1. \A k \in 1 .. n : q[k] # t
    BY <1>1
  <2>2. CASE i = p \/ j = p
    BY <1>2, <1>3, <1>5, <2>1, <2>2
  <2>3. CASE i # p /\ j # p
    <3> DEFINE At(k, m) == (k \in 1 .. p - 1 /\ m = k) \/ (m \in p .. n /\ m = k - 1)
    <3>0. \A k \in 1 .. n + 1 : k # p => \E m \in 1 .. n : r[k] = q[m] /\ At(k, m)
      <4>1. TAKE k \in 1 .. n + 1
      <4>2. HAVE k # p
      <4>3. CASE k \in 1 .. p - 1 /\ k \in 1 .. n /\ r[k] = q[k]
        BY <4>3
      <4>4. CASE k - 1 \in p .. n /\ k - 1 \in 1 .. n /\ r[k] = q[k - 1]
        BY <4>4
      <4>5. QED
        BY <1>3, <4>2, <4>3, <4>4
    <3> HIDE DEF At
    <3>1. PICK a \in 1 .. n : r[i] = q[a] /\ At(i, a)
      BY <3>0, <2>3
    <3>2. PICK b \in 1 .. n : r[j] = q[b] /\ At(j, b)
      BY <3>0, <2>3
    <3>3. a = b
      BY <1>1, <1>5, <3>1, <3>2
    <3>4. QED
      BY <1>1, <1>2, <3>1, <3>2, <3>3 DEF At
  <2>4. QED
    BY <2>2, <2>3
<1>6. \A i \in 1 .. n : \E j \in 1 .. n + 1 : r[j] = q[i]
  <2>1. TAKE i \in 1 .. n
  <2>2. CASE i < p
    <3>1. i \in 1 .. p - 1 /\ i \in 1 .. n + 1
      BY <1>1, <1>2, <2>2
    <3>2. QED
      BY <1>2, <3>1
  <2>3. CASE i >= p
    <3>1. i \in p .. n /\ i + 1 \in 1 .. n + 1
      BY <1>1, <1>2, <2>3
    <3>2. QED
      BY <1>2, <3>1
  <2>4. QED
    BY <1>1, <1>2, <2>2, <2>3
<1>7. \A k \in 1 .. 3 : k # l => after[k] = lists[k]
  OBVIOUS
<1>8. ASSUME NEW u \in S \cup {t}
      PROVE  \E i \in 1 .. Len(after[lv[u]]) : after[lv[u]][i] = u
  <2>1. CASE u = t
    <3>1. p \in 1 .. Len(after[l]) /\ after[l][p] = t
      BY <1>1, <1>2 DEF r
    <3>2. QED
      BY <2>1, <3>1
  <2>2. CASE u # t /\ lv[u] # l
    <3>1. u \in S /\ lv[u] \in 1 .. 3 /\ after[lv[u]] = lists[lv[u]]
      BY <1>7, <2>2
    <3>2. QED
      BY <3>1 DEF Holds
  <2>3. CASE u # t /\ lv[u] = l
    <3>1. PICK i \in 1 .. n : q[i] = u
      BY <2>3 DEF Holds, q, n
    <3>2. PICK j \in 1 .. n + 1 : r[j] = u
      BY <1>6, <3>1
    <3>3. QED
      BY <1>2, <2>3, <3>2 DEF r
  <2>4. QED
    BY <2>1, <2>2, <2>3
<1>9. \A k \in 1 .. 3 : \A i \in 1 .. Len(after[k]) :
          after[k][i] \in S \cup {t} /\ lv[after[k][i]] = k
  <2>1. TAKE k \in 1 .. 3
  <2>2. CASE k = l
    BY <1>2, <1>4, <2>2 DEF r
  <2>3. CASE k # l
    BY <1>7, <2>3 DEF Holds
  <2>4. QED
    BY <2>2, <2>3
<1>10. \A k \in 1 .. 3 : \A i, j \in 1 .. Len(after[k]) :
          after[k][i] = after[k][j] => i = j
  <2>1. TAKE k \in 1 .. 3
  <2>2. CASE k = l
    BY <1>2, <1>5, <2>2 DEF r
  <2>3. CASE k # l
    BY <1>7, <2>3 DEF Holds
  <2>4. QED
    BY <2>2, <2>3
<1>11. QED
  BY <1>8, <1>9, <1>10 DEF Holds

\* What is left when the first of a queue is taken.
LEMMA HoldsFewer ==
    ASSUME NEW S \in SUBSET Thread, NEW lv \in [Thread -> 1 .. 3],
           NEW lists, Holds(lists, lv, S),
           NEW l \in 1 .. 3, lists[l] # <<>>,
           NEW after \in [1 .. 3 -> Seq(Thread)],
           \A k \in 1 .. 3 : k # l => after[k] = lists[k],
           after[l] = Tail(lists[l])
    PROVE  /\ Head(lists[l]) \in S /\ lv[Head(lists[l])] = l
           /\ Holds(after, lv, S \ {Head(lists[l])})
<1> DEFINE q == lists[l]
           r == after[l]
           n == Len(q)
           t == Head(q)
<1>1. /\ q \in Seq(Thread) /\ n \in Nat \ {0} /\ t = q[1]
      /\ Len(r) = n - 1 /\ \A i \in 1 .. n - 1 : r[i] = q[i + 1]
  BY DEF Holds
<1>2. /\ \A i \in 1 .. n : q[i] \in S /\ lv[q[i]] = l
      /\ \A i, j \in 1 .. n : q[i] = q[j] => i = j
  BY DEF Holds
<1> HIDE DEF q, r, n, t
<1>3. 1 \in 1 .. n /\ \A i \in 1 .. n - 1 : i + 1 \in 1 .. n /\ i + 1 # 1
  BY <1>1
<1>4. t \in S /\ lv[t] = l
  BY <1>1, <1>2, <1>3
<1>5. \A i \in 1 .. n - 1 : r[i] \in S \ {t} /\ lv[r[i]] = l
  <2>1. TAKE i \in 1 .. n - 1
  <2>2. r[i] = q[i + 1] /\ i + 1 \in 1 .. n /\ i + 1 # 1
    BY <1>1, <1>3
  <2>3. q[i + 1] # q[1]
    BY <1>2, <1>3, <2>2
  <2>4. QED
    BY <1>1, <1>2, <2>2, <2>3
<1>6. \A i, j \in 1 .. n - 1 : r[i] = r[j] => i = j
  <2>1. TAKE i, j \in 1 .. n - 1
  <2>2. r[i] = q[i + 1] /\ r[j] = q[j + 1] /\ i + 1 \in 1 .. n /\ j + 1 \in 1 .. n
    BY <1>1, <1>3
  <2>3. r[i] = r[j] => i + 1 = j + 1
    BY <1>2, <2>2
  <2>4. QED
    BY <2>3
<1>7. \A k \in 1 .. 3 : k # l => after[k] = lists[k]
  OBVIOUS
<1>8. ASSUME NEW u \in S \ {t}
      PROVE  \E i \in 1 .. Len(after[lv[u]]) : after[lv[u]][i] = u
  <2>1. CASE lv[u] # l
    <3>1. u \in S /\ lv[u] \in 1 .. 3 /\ after[lv[u]] = lists[lv[u]]
      BY <1>7, <2>1
    <3>2. QED
      BY <3>1 DEF Holds
  <2>2. CASE lv[u] = l
    <3>1. PICK i \in 1 .. n : q[i] = u
      BY <2>2 DEF Holds, q, n
    <3>2. i - 1 \in 1 .. n - 1 /\ (i - 1) + 1 = i
      <4>1. i # 1 /\ n \in Nat
        BY <1>1, <1>8, <3>1
      <4>2. QED
        BY <3>1, <4>1
    <3>3. r[i - 1] = u
      BY <1>1, <3>1, <3>2
    <3>4. QED
      BY <1>1, <2>2, <3>2, <3>3 DEF r
  <2>3. QED
    BY <2>1, <2>2
<1>9. \A k \in 1 .. 3 : \A i \in 1 .. Len(after[k]) :
          after[k][i] \in S \ {t} /\ lv[after[k][i]] = k
  <2>1. TAKE k \in 1 .. 3
  <2>2. CASE k = l
    BY <1>1, <1>5, <2>2 DEF r
  <2>3. CASE k # l
    <3>1. after[k] = lists[k]
      BY <1>7, <2>3
    <3>2. QED
      BY <1>4, <2>3, <3>1 DEF Holds
  <2>4. QED
    BY <2>2, <2>3
<1>10. \A k \in 1 .. 3 : \A i, j \in 1 .. Len(after[k]) :
          after[k][i] = after[k][j] => i = j
  <2>1. TAKE k \in 1 .. 3
  <2>2. CASE k = l
    BY <1>1, <1>6, <2>2 DEF r
  <2>3. CASE k # l
    BY <1>7, <2>3 DEF Holds
  <2>4. QED
    BY <2>2, <2>3
<1>11. Holds(after, lv, S \ {t})
  BY <1>8, <1>9, <1>10 DEF Holds
<1>12. QED
  BY <1>4, <1>11 DEF t, q

-----------------------------------------------------------------------------
(* A sweep of a queue, thread by thread.                                   *)

LEMMA MaxIs ==
    ASSUME NEW s, NEW m \in Int, m \in s, \A y \in s : y \in Int /\ y <= m
    PROVE  Max(s) = m
<1>1. \E x \in s : \A y \in s : x >= y
  OBVIOUS
<1> DEFINE x == Max(s)
<1>2. x \in s /\ \A y \in s : x >= y
  BY <1>1 DEF Max
<1> HIDE DEF x
<1>3. x \in Int /\ x <= m /\ x >= m
  BY <1>2
<1>4. x = m
  BY <1>3
<1>5. QED
  BY <1>4 DEF x

\* What a sweep of the queue l does with t.
Step(ls, t, l, prio, rem) ==
    IF LevelOf(prio[t]) = l THEN [ls EXCEPT ![l] = Append(@, t)]
                            ELSE Enqueue(ls, t, prio, rem)

\* g holds the queues after each step of a sweep.
Steps(g, lists, l, prio, rem) ==
    /\ g[0] = [lists EXCEPT ![l] = <<>>]
    /\ \A k \in 0 .. Len(lists[l]) - 1 :
          g[k + 1] = Step(g[k], lists[l][k + 1], l, prio, rem)
    /\ g[Len(lists[l])] = Sweep(lists, l, prio, rem)

\* The fold that Sweep is defined by takes one step after the other.
LEMMA SweepSteps ==
    ASSUME NEW lists \in [1 .. 3 -> Seq(Thread)], NEW l \in 1 .. 3,
           NEW prio \in [Thread -> 0 .. 149], NEW rem \in [Thread -> Int]
    PROVE  \E g : Steps(g, lists, l, prio, rem)
<1> DEFINE q == lists[l]
           n == Len(q)
           base == [lists EXCEPT ![l] = <<>>]
           Do(ls, t) == Step(ls, t, l, prio, rem)
           Fold(m, f) == f = [s \in SUBSET (1 .. m) |->
                                IF s = {} THEN base
                                ELSE Do(f[s \ {Max(s)}], q[Max(s)])]
           F == CHOOSE f : Fold(n, f)
<1>1. n \in Nat /\ DOMAIN q = 1 .. n
  OBVIOUS
<1>2. Sweep(lists, l, prio, rem) = F[1 .. n]
  BY <1>1, Zenon DEF Sweep, FoldLeft, MapThenFoldSet, Step
<1> HIDE DEF q, n, base, Do, F
<1>3. \A m \in 0 .. n : \E f : Fold(m, f)
  <2> DEFINE T == {m \in 0 .. n : \E f : Fold(m, f)}
  <2>1. 0 \in T
    <3>1. SUBSET (1 .. 0) = {{}}
      OBVIOUS
    <3>2. Fold(0, [s \in SUBSET (1 .. 0) |-> base])
      BY <3>1
    <3> HIDE DEF Fold
    <3>3. QED
      BY <1>1, <3>2
  <2>2. ASSUME NEW k \in 0 .. n - 1, k \in T PROVE k + 1 \in T
    <3>1. PICK f : Fold(k, f)
      BY <2>2
    <3> DEFINE h == [s \in SUBSET (1 .. k + 1) |->
                       IF s = {} THEN base
                       ELSE IF k + 1 \in s THEN Do(f[s \ {k + 1}], q[k + 1])
                       ELSE f[s]]
    <3>2. \A s \in SUBSET (1 .. k) :
             s \in SUBSET (1 .. k + 1) /\ k + 1 \notin s /\ s \ {Max(s)} \in SUBSET (1 .. k)
      <4>1. \A y \in 1 .. k : y \in 1 .. k + 1 /\ y # k + 1
        BY <1>1
      <4>2. QED
        BY <4>1
    <3>3. \A s \in SUBSET (1 .. k) : h[s] = f[s]
      BY <3>1, <3>2
    <3>4. ASSUME NEW s \in SUBSET (1 .. k + 1), s # {}
          PROVE  h[s] = Do(h[s \ {Max(s)}], q[Max(s)])
      <4>1. CASE k + 1 \in s
        <5>1. k + 1 \in Int /\ \A y \in s : y \in Int /\ y <= k + 1
          BY <1>1
        <5>3. Max(s) = k + 1
          BY <4>1, <5>1, MaxIs
        <5>4. s \ {k + 1} \in SUBSET (1 .. k)
          BY <1>1, <5>1
        <5>5. h[s \ {k + 1}] = f[s \ {k + 1}]
          BY <3>3, <5>4
        <5>6. QED
          BY <3>4, <4>1, <5>3, <5>5
      <4>2. CASE k + 1 \notin s
        <5>1. \A y \in 1 .. k + 1 : y = k + 1 \/ y \in 1 .. k
          BY <1>1
        <5>2. s \in SUBSET (1 .. k)
          BY <4>2, <5>1
        <5>3. s \ {Max(s)} \in SUBSET (1 .. k)
          BY <3>2, <5>2
        <5>4. h[s] = f[s] /\ h[s \ {Max(s)}] = f[s \ {Max(s)}]
          BY <3>3, <5>2, <5>3
        <5>5. f[s] = Do(f[s \ {Max(s)}], q[Max(s)])
          BY <3>1, <3>4, <5>2
        <5>6. QED
          BY <5>4, <5>5
      <4>3. QED
        BY <4>1, <4>2
    <3>5. h[{}] = base
      OBVIOUS
    <3>6. h = [s \in SUBSET (1 .. k + 1) |-> h[s]]
      OBVIOUS
    <3> HIDE DEF h
    <3>7. Fold(k + 1, h)
      BY <3>4, <3>5, <3>6
    <3> HIDE DEF Fold
    <3>8. QED
      BY <1>1, <3>7
  <2> HIDE DEF T
  <2>3. \A k \in 0 .. n : k \in T
    BY <1>1, <2>1, <2>2, AllUpTo
  <2>4. QED
    BY <2>3 DEF T
<1> HIDE DEF Fold
<1>4. Fold(n, F)
  <2>1. \E f : Fold(n, f)
    BY <1>1, <1>3
  <2>2. QED
    BY <2>1, Zenon DEF F
<1> DEFINE g == [k \in 0 .. n |-> F[1 .. k]]
<1>5. \A s \in SUBSET (1 .. n) : F[s] = IF s = {} THEN base
                                       ELSE Do(F[s \ {Max(s)}], q[Max(s)])
  BY <1>4 DEF Fold
<1>6. g[0] = base
  <2>1. 1 .. 0 = {} /\ {} \in SUBSET (1 .. n) /\ 0 \in 0 .. n
    BY <1>1
  <2>2. QED
    BY <1>5, <2>1
<1>7. ASSUME NEW k \in 0 .. n - 1 PROVE g[k + 1] = Do(g[k], q[k + 1])
  <2> DEFINE s == 1 .. k + 1
  <2>1. s \in SUBSET (1 .. n) /\ s # {} /\ k \in 0 .. n /\ k + 1 \in 0 .. n /\ k + 1 \in s
    <3>1. k + 1 \in 1 .. k + 1 /\ k \in 0 .. n /\ k + 1 \in 0 .. n
      BY <1>1
    <3>2. \A y \in 1 .. k + 1 : y \in 1 .. n
      BY <1>1
    <3>3. QED
      BY <3>1, <3>2
  <2>2. s \ {k + 1} = 1 .. k
    OBVIOUS
  <2>3. Max(s) = k + 1
    <3>1. \A y \in s : y \in Int /\ y <= k + 1
      BY <1>1
    <3> HIDE DEF s
    <3>2. QED
      BY <2>1, <3>1, MaxIs
  <2>4. F[s] = Do(F[s \ {Max(s)}], q[Max(s)])
    BY <1>5, <2>1
  <2>5. QED
    BY <2>1, <2>2, <2>3, <2>4
<1>8. g[n] = F[1 .. n]
  BY <1>1
<1> HIDE DEF g
<1>9. QED
  <2>1. Steps(g, lists, l, prio, rem)
    BY <1>2, <1>6, <1>7, <1>8 DEF Do, base, q, n, Steps
  <2>2. QED
    BY <2>1

\* One step holds one thread more, and keeps L1 in order.
LEMMA StepHolds ==
    ASSUME NEW S \in SUBSET Thread, NEW lv \in [Thread -> 1 .. 3],
           NEW ls, Holds(ls, lv, S), NEW t \in Thread, t \notin S,
           NEW l \in 2 .. 3, NEW prio \in [Thread -> 0 .. 149],
           NEW rem \in [Thread -> Int], lv[t] = LevelOf(prio[t])
    PROVE  LET after == Step(ls, t, l, prio, rem)
           IN  /\ Holds(after, lv, S \cup {t})
               /\ Shortest(ls[1], rem) => Shortest(after[1], rem)
<1> DEFINE after == Step(ls, t, l, prio, rem)
<1>1. ls \in [1 .. 3 -> Seq(Thread)]
  BY DEF Holds
<1>2. CASE LevelOf(prio[t]) = l
  <2> DEFINE r == Append(ls[l], t)
  <2>1. after = [ls EXCEPT ![l] = r]
    BY <1>2 DEF Step
  <2>2. ls[l] \in Seq(Thread) /\ l \in 1 .. 3 /\ l # 1
    BY <1>1
  <2>3. Inserted(ls[l], r, t, Len(ls[l]) + 1)
    BY <2>2, AppendInserts
  <2>4. r \in Seq(Thread)
    BY <2>3 DEF Inserted
  <2> HIDE DEF r, after
  <2>5. /\ after \in [1 .. 3 -> Seq(Thread)] /\ after[l] = r
        /\ \A k \in 1 .. 3 : k # l => after[k] = ls[k]
    BY <1>1, <2>1, <2>2, <2>4
  <2>6. after[1] = ls[1]
    BY <2>2, <2>5
  <2>7. lv[t] = l
    BY <1>2
  <2>8. \A k \in 1 .. 3 : k # lv[t] => after[k] = ls[k]
    BY <2>5, <2>7
  <2>9. Inserted(ls[lv[t]], after[lv[t]], t, Len(ls[l]) + 1)
    BY <2>3, <2>5, <2>7
  <2>10. Holds(after, lv, S \cup {t})
    BY <2>5, <2>8, <2>9, HoldsMore
  <2>11. QED
    BY <2>6, <2>10 DEF after
<1>3. CASE LevelOf(prio[t]) # l
  <2>1. after = Enqueue(ls, t, prio, rem)
    BY <1>3 DEF Step
  <2> HIDE DEF after
  <2>2. Enqueued(Enqueue(ls, t, prio, rem), ls, t, LevelOf(prio[t]), rem)
    BY <1>1, EnqueueInserts
  <2>3. Enqueued(after, ls, t, lv[t], rem)
    BY <2>1, <2>2
  <2>4. PICK p \in 1 .. Len(ls[lv[t]]) + 1 : Inserted(ls[lv[t]], after[lv[t]], t, p)
    BY <2>3 DEF Enqueued
  <2>5. /\ after \in [1 .. 3 -> Seq(Thread)]
        /\ \A k \in 1 .. 3 : k # lv[t] => after[k] = ls[k]
        /\ Shortest(ls[1], rem) => Shortest(after[1], rem)
    BY <2>3 DEF Enqueued
  <2>6. Holds(after, lv, S \cup {t})
    BY <2>4, <2>5, HoldsMore
  <2>7. QED
    BY <2>5, <2>6 DEF after
<1>4. QED
  BY <1>2, <1>3

\* The levels of the threads in S before and after a sweep of queue l.
Relevelled(S, lv, lw, l, prio) ==
    \A t \in S : lw[t] = IF lv[t] = l THEN LevelOf(prio[t]) ELSE lv[t]

\* After a sweep every thread of the queue is in the queue of its priority,
\* and L1 is still in order.
LEMMA SweepHolds ==
    ASSUME NEW S \in SUBSET Thread, NEW lv \in [Thread -> 1 .. 3],
           NEW lw \in [Thread -> 1 .. 3], NEW lists, Holds(lists, lv, S),
           NEW l \in 2 .. 3, NEW prio \in [Thread -> 0 .. 149],
           NEW rem \in [Thread -> Int], Relevelled(S, lv, lw, l, prio)
    PROVE  /\ Holds(Sweep(lists, l, prio, rem), lw, S)
           /\ Shortest(lists[1], rem) => Shortest(Sweep(lists, l, prio, rem)[1], rem)
<1> USE DEF Relevelled
<1> DEFINE after == Sweep(lists, l, prio, rem)
           q == lists[l]
           n == Len(q)
           Done(k) == {t \in S : lv[t] # l} \cup {q[i] : i \in 1 .. k}
           Good(ls, k) == /\ Holds(ls, lw, Done(k))
                          /\ Shortest(lists[1], rem) => Shortest(ls[1], rem)
<1>1. /\ lists \in [1 .. 3 -> Seq(Thread)] /\ l \in 1 .. 3 /\ l # 1
      /\ q \in Seq(Thread) /\ n \in Nat
  BY DEF Holds
<1>2. /\ \A i \in 1 .. n : q[i] \in S /\ lv[q[i]] = l
      /\ \A i, j \in 1 .. n : q[i] = q[j] => i = j
      /\ \A t \in S : lv[t] = l => \E i \in 1 .. n : q[i] = t
  BY <1>1 DEF Holds
<1>3. PICK g : /\ g[0] = [lists EXCEPT ![l] = <<>>]
               /\ \A k \in 0 .. n - 1 : g[k + 1] = Step(g[k], q[k + 1], l, prio, rem)
               /\ g[n] = after
  <2>1. \E g : Steps(g, lists, l, prio, rem)
    BY <1>1, SweepSteps
  <2>2. QED
    BY <2>1 DEF Steps
<1> HIDE DEF q, n, after
<1>4. Good(g[0], 0)
  <2> DEFINE b == g[0]
  <2>1. /\ b \in [1 .. 3 -> Seq(Thread)] /\ b[l] = <<>>
        /\ \A k \in 1 .. 3 : k # l => b[k] = lists[k]
    BY <1>1, <1>3
  <2> HIDE DEF b
  <2>2. Done(0) = {t \in S : lv[t] # l}
    OBVIOUS
  <2>3. \A t \in Done(0) : t \in S /\ lw[t] = lv[t] /\ lv[t] # l /\ lv[t] \in 1 .. 3
    BY <2>2
  <2>4. \A k \in 1 .. 3 : \A i \in 1 .. Len(b[k]) : b[k][i] \in Done(0) /\ lw[b[k][i]] = k
    <3>1. TAKE k \in 1 .. 3
    <3>2. CASE k = l
      BY <2>1, <3>2
    <3>3. CASE k # l
      <4>1. \A i \in 1 .. Len(lists[k]) : lists[k][i] \in S /\ lv[lists[k][i]] = k
        BY DEF Holds
      <4>2. QED
        BY <2>1, <2>2, <2>3, <3>3, <4>1
    <3>4. QED
      BY <3>2, <3>3
  <2>5. \A k \in 1 .. 3 : \A i, j \in 1 .. Len(b[k]) : b[k][i] = b[k][j] => i = j
    <3>1. TAKE k \in 1 .. 3
    <3>2. CASE k = l
      BY <2>1, <3>2
    <3>3. CASE k # l
      <4>1. \A i, j \in 1 .. Len(lists[k]) : lists[k][i] = lists[k][j] => i = j
        BY DEF Holds
      <4>2. b[k] = lists[k]
        BY <2>1, <3>3
      <4>3. QED
        BY <4>1, <4>2
    <3>4. QED
      BY <3>2, <3>3
  <2>6. \A t \in Done(0) : \E i \in 1 .. Len(b[lw[t]]) : b[lw[t]][i] = t
    <3>1. TAKE t \in Done(0)
    <3>2. t \in S /\ lw[t] = lv[t] /\ b[lv[t]] = lists[lv[t]]
      BY <2>1, <2>3
    <3>3. \E i \in 1 .. Len(lists[lv[t]]) : lists[lv[t]][i] = t
      BY <3>2 DEF Holds
    <3>4. QED
      BY <3>2, <3>3
  <2>7. Holds(b, lw, Done(0))
    BY <2>1, <2>4, <2>5, <2>6 DEF Holds
  <2>8. b[1] = lists[1]
    BY <1>1, <2>1
  <2>9. QED
    BY <2>7, <2>8 DEF b
<1>5. ASSUME NEW k \in 0 .. n - 1, Good(g[k], k) PROVE Good(g[k + 1], k + 1)
  <2>1. k + 1 \in 1 .. n /\ q[k + 1] \in S
    BY <1>1, <1>2
  <2>2. \A i \in 1 .. k : i \in 1 .. n /\ i # k + 1
    BY <1>1
  <2>3. \A i \in 1 .. k : q[i] # q[k + 1]
    BY <1>2, <2>1, <2>2
  <2>4. lv[q[k + 1]] = l
    BY <1>2, <2>1
  <2>5. q[k + 1] \notin Done(k)
    BY <2>3, <2>4
  <2>6. \A i \in 1 .. k + 1 : i \in 1 .. k \/ i = k + 1
    BY <1>1
  <2>7. \A i \in 1 .. k : i \in 1 .. k + 1
    BY <1>1
  <2>8. k + 1 \in 1 .. k + 1
    BY <1>1
  <2>9. Done(k + 1) = Done(k) \cup {q[k + 1]}
    BY <2>6, <2>7, <2>8
  <2>10. Done(k) \in SUBSET Thread
    BY <1>2, <2>2
  <2>11. lw[q[k + 1]] = LevelOf(prio[q[k + 1]])
    BY <2>1, <2>4
  <2>12. g[k + 1] = Step(g[k], q[k + 1], l, prio, rem)
    BY <1>3
  <2>13. q[k + 1] \in Thread
    BY <2>1
  <2>14. /\ Holds(g[k], lw, Done(k))
         /\ Shortest(lists[1], rem) => Shortest(g[k][1], rem)
    BY <1>5
  <2> DEFINE T == Done(k) u == q[k + 1]
  <2> HIDE DEF Done, T, u
  <2>15. /\ Holds(Step(g[k], u, l, prio, rem), lw, T \cup {u})
         /\ Shortest(g[k][1], rem) => Shortest(Step(g[k], u, l, prio, rem)[1], rem)
    BY <2>5, <2>10, <2>11, <2>13, <2>14, StepHolds DEF T, u
  <2>16. QED
    BY <2>9, <2>12, <2>14, <2>15 DEF T, u
<1> HIDE DEF Good
<1>6. Good(g[n], n)
  <2> DEFINE T == {k \in 0 .. n : Good(g[k], k)}
  <2>1. 0 \in T
    BY <1>1, <1>4
  <2>2. \A k \in 0 .. n - 1 : k \in T => k + 1 \in T
    BY <1>1, <1>5
  <2> HIDE DEF T
  <2>3. \A k \in 0 .. n : k \in T
    BY <1>1, <2>1, <2>2, AllUpTo
  <2>4. QED
    BY <1>1, <2>3 DEF T
<1>7. Done(n) = S
  BY <1>2
<1>8. QED
  BY <1>3, <1>6, <1>7 DEF Good, after

-----------------------------------------------------------------------------
(* Whole periods.                                                          *)

LEMMA Mono ==
    ASSUME NEW a \in Nat, NEW i \in Int, NEW j \in Int, i <= j
    PROVE  a * i <= a * j
<1> DEFINE d == j - i
<1>1. d \in Nat /\ j = i + d
  OBVIOUS
<1> HIDE DEF d
<1>2. a * j = a * i + a * d
  BY <1>1
<1>3. a * d \in Nat
  BY <1>1
<1>4. QED
  BY <1>2, <1>3

LEMMA Periods ==
    ASSUME NEW a \in Nat \ {0}, NEW x \in Nat
    PROVE  /\ x \div a \in Nat
           /\ a * (x \div a) <= x
           /\ x < a * (x \div a) + a
OBVIOUS

LEMMA Quotient ==
    ASSUME NEW a \in Nat \ {0}, NEW y \in Nat, NEW m \in Int, a * m <= y, y < a * m + a
    PROVE  y \div a = m
<1> DEFINE q == y \div a
<1>1. q \in Nat /\ a * q <= y /\ y < a * q + a
  BY Periods
<1> HIDE DEF q
<1>2. CASE q >= m + 1
  <2>1. a * (m + 1) <= a * q
    BY <1>1, <1>2, Mono
  <2>2. a * (m + 1) = a * m + a
    OBVIOUS
  <2>3. QED
    BY <1>1, <2>1, <2>2
<1>3. CASE m >= q + 1
  <2>1. a * (q + 1) <= a * m
    BY <1>1, <1>3, Mono
  <2>2. a * (q + 1) = a * q + a
    BY <1>1
  <2>3. QED
    BY <1>1, <2>1, <2>2
<1>4. QED
  BY <1>1, <1>2, <1>3 DEF q

LEMMA PeriodsLeft ==
    ASSUME NEW a \in Nat \ {0}, NEW x \in Nat, NEW k \in Nat, a * k <= x
    PROVE  (x - a * k) \div a = x \div a - k
<1> DEFINE q == x \div a
<1>1. q \in Nat /\ a * q <= x /\ x < a * q + a
  BY Periods
<1> HIDE DEF q
<1> DEFINE y == x - a * k  m == q - k
<1>2. y \in Nat /\ m \in Int
  BY <1>1
<1>3. a * m = a * q - a * k
  BY <1>1
<1>4. a * m <= y /\ y < a * m + a
  BY <1>1, <1>3
<1> HIDE DEF y, m
<1>5. y \div a = m
  BY <1>2, <1>4, Quotient
<1>6. QED
  BY <1>5 DEF y, m, q

-----------------------------------------------------------------------------
(* The queues in a state.                                                  *)

Levels(prio) == [t \in Thread |-> LevelOf(prio[t])]
Ready == {t \in Thread : status[t] = "READY"}

LEMMA LevelsType ==
    ASSUME NEW prio \in [Thread -> 0 .. 149]
    PROVE  Levels(prio) \in [Thread -> 1 .. 3]
BY DEF Levels, LevelOf

\* The order in L1 depends on the threads there only.
LEMMA ShortestSame ==
    ASSUME NEW S \in SUBSET Thread, NEW lv, NEW lists, Holds(lists, lv, S),
           NEW rem, NEW rem2, \A t \in S : rem2[t] = rem[t],
           Shortest(lists[1], rem)
    PROVE  Shortest(lists[1], rem2)
<1>1. \A i \in 1 .. Len(lists[1]) : lists[1][i] \in S
  BY DEF Holds
<1>2. QED
  BY <1>1 DEF Shortest

\* A thread that is put into the queue of its new priority.
LEMMA EnqueueHolds ==
    ASSUME NEW S \in SUBSET Thread, NEW lv, NEW lists, Holds(lists, lv, S),
           NEW t \in Thread, t \notin S,
           NEW prio \in [Thread -> 0 .. 149], NEW rem \in [Thread -> Int],
           \A u \in S : Levels(prio)[u] = lv[u],
           Shortest(lists[1], rem)
    PROVE  /\ Holds(Enqueue(lists, t, prio, rem), Levels(prio), S \cup {t})
           /\ Shortest(Enqueue(lists, t, prio, rem)[1], rem)
<1> DEFINE lw == Levels(prio)
           after == Enqueue(lists, t, prio, rem)
<1>1. lw \in [Thread -> 1 .. 3] /\ lw[t] = LevelOf(prio[t])
  BY LevelsType DEF Levels
<1>2. Holds(lists, lw, S)
  BY HoldsSame
<1>3. lists \in [1 .. 3 -> Seq(Thread)]
  BY DEF Holds
<1> HIDE DEF lw, after
<1>4. Enqueued(after, lists, t, lw[t], rem)
  <2>1. Enqueued(Enqueue(lists, t, prio, rem), lists, t, LevelOf(prio[t]), rem)
    BY <1>3, EnqueueInserts
  <2>2. QED
    BY <1>1, <2>1 DEF after
<1>5. /\ after \in [1 .. 3 -> Seq(Thread)]
      /\ \A k \in 1 .. 3 : k # lw[t] => after[k] = lists[k]
      /\ Shortest(after[1], rem)
  BY <1>4 DEF Enqueued
<1>6. PICK p \in 1 .. Len(lists[lw[t]]) + 1 : Inserted(lists[lw[t]], after[lw[t]], t, p)
  BY <1>4 DEF Enqueued
<1>7. Holds(after, lw, S \cup {t})
  BY <1>1, <1>2, <1>5, <1>6, HoldsMore
<1>8. QED
  BY <1>5, <1>7 DEF lw, after

\* What SystemQueue::RemoveFront takes: a thread of the highest level there
\* is, and in L1 none that needs a whole tick more than another.
LEMMA FrontTaken ==
    ASSUME NEW S \in SUBSET Thread, NEW lv \in [Thread -> 1 .. 3],
           Holds(readyList, lv, S), ~ IsEmpty,
           NEW rem \in [Thread -> Int], Shortest(readyList[1], rem)
    PROVE  /\ NextThread \in S
           /\ Holds(RemoveFront, lv, S \ {NextThread})
           /\ Shortest(RemoveFront[1], rem)
           /\ \A t \in S : lv[t] = 1 => /\ lv[NextThread] = 1
                                        /\ rem[NextThread] < rem[t] + Unit
<1> DEFINE l == FrontLevel
           q == readyList[l]
           r == Tail(q)
<1>1. readyList \in [1 .. 3 -> Seq(Thread)]
  BY DEF Holds
<1>2. /\ l \in 1 .. 3 /\ readyList[l] # <<>>
      /\ \A k \in 1 .. l - 1 : readyList[k] = <<>>
  <2>1. \E k \in 1 .. 3 : /\ readyList[k] # <<>>
                          /\ \A m \in 1 .. k - 1 : readyList[m] = <<>>
    <3>1. CASE readyList[1] # <<>>
      <4>1. 1 \in 1 .. 3 /\ \A m \in 1 .. 1 - 1 : FALSE
        OBVIOUS
      <4>2. QED
        BY <3>1, <4>1
    <3>2. CASE readyList[1] = <<>> /\ readyList[2] # <<>>
      <4>1. 2 \in 1 .. 3 /\ \A m \in 1 .. 2 - 1 : m = 1
        OBVIOUS
      <4>2. QED
        BY <3>2, <4>1
    <3>3. CASE readyList[1] = <<>> /\ readyList[2] = <<>>
      <4>1. 3 \in 1 .. 3 /\ \A m \in 1 .. 3 - 1 : m = 1 \/ m = 2
        OBVIOUS
      <4>2. \A m \in 1 .. 3 : m = 1 \/ m = 2 \/ m = 3
        OBVIOUS
      <4>3. readyList[3] # <<>>
        BY <3>3, <4>2 DEF IsEmpty
      <4>4. QED
        BY <3>3, <4>1, <4>3
    <3>4. QED
      BY <3>1, <3>2, <3>3
  <2>2. QED
    BY <2>1, Zenon DEF FrontLevel
<1>3. q \in Seq(Thread) /\ r \in Seq(Thread) /\ NextThread = Head(q)
  BY <1>1, <1>2 DEF NextThread
<1>4. RemoveFront = [readyList EXCEPT ![l] = r]
  BY DEF RemoveFront
<1> HIDE DEF l, q, r
<1>5. /\ RemoveFront \in [1 .. 3 -> Seq(Thread)] /\ RemoveFront[l] = r
      /\ \A k \in 1 .. 3 : k # l => RemoveFront[k] = readyList[k]
  BY <1>1, <1>2, <1>3, <1>4
<1>6. /\ NextThread \in S /\ lv[NextThread] = l
      /\ Holds(RemoveFront, lv, S \ {NextThread})
  <2>1. /\ \A k \in 1 .. 3 : k # l => RemoveFront[k] = readyList[k]
        /\ RemoveFront[l] = Tail(readyList[l])
        /\ NextThread = Head(readyList[l])
    BY <1>3, <1>5 DEF q, r
  <2>2. /\ Head(readyList[l]) \in S /\ lv[Head(readyList[l])] = l
        /\ Holds(RemoveFront, lv, S \ {Head(readyList[l])})
    BY <1>2, <1>5, <2>1, HoldsFewer
  <2>3. QED
    BY <2>1, <2>2
<1>7. Shortest(RemoveFront[1], rem)
  <2>1. CASE l # 1
    BY <1>5, <2>1
  <2>2. CASE l = 1
    <3>1. RemoveFront[1] = r /\ q = readyList[1] /\ q # <<>>
      BY <1>2, <1>5, <2>2 DEF q
    <3>2. Len(r) = Len(q) - 1 /\ \A i \in 1 .. Len(q) - 1 : r[i] = q[i + 1]
      BY <1>3, <3>1 DEF r
    <3>3. ASSUME NEW i \in 1 .. Len(r), NEW j \in 1 .. Len(r), i < j
          PROVE  rem[r[i]] < rem[r[j]] + Unit
      <4>1. i \in 1 .. Len(q) - 1 /\ j \in 1 .. Len(q) - 1
        BY <3>2, <3>3
      <4>2. r[i] = q[i + 1] /\ r[j] = q[j + 1]
        BY <3>2, <4>1
      <4>3. Len(q) \in Nat
        BY <1>1, <3>1
      <4>4. i + 1 \in 1 .. Len(q) /\ j + 1 \in 1 .. Len(q) /\ i + 1 < j + 1
        BY <3>3, <4>1, <4>3
      <4>5. QED
        BY <3>1, <4>2, <4>4 DEF Shortest
    <3>4. QED
      BY <3>1, <3>3 DEF Shortest
  <2>3. QED
    BY <2>1, <2>2
<1>8. ASSUME NEW t \in S, lv[t] = 1
      PROVE  lv[NextThread] = 1 /\ rem[NextThread] < rem[t] + Unit
  <2>1. PICK i \in 1 .. Len(readyList[1]) : readyList[1][i] = t
    BY <1>8 DEF Holds
  <2>2. readyList[1] # <<>> /\ readyList[1] \in Seq(Thread)
    BY <1>1, <2>1
  <2>3. l = 1
    <3>1. l # 1 => 1 \in 1 .. l - 1
      BY <1>2
    <3>2. QED
      BY <1>2, <2>2, <3>1
  <2>4. NextThread = readyList[1][1]
    BY <1>3, <2>2, <2>3 DEF q
  <2>5. /\ rem[t] \in Int /\ rem[NextThread] \in Int /\ Unit \in Nat \ {0}
    BY <1>6, TickAssumption
  <2>6. i = 1 \/ rem[NextThread] < rem[t] + Unit
    BY <2>1, <2>4 DEF Shortest
  <2>7. QED
    BY <1>6, <2>1, <2>3, <2>4, <2>5, <2>6
<1>9. QED
  BY <1>6, <1>7, <1>8

\* SystemQueue::Aging leaves every ready thread in the queue of its priority.
LEMMA AgedHolds ==
    ASSUME NEW S \in SUBSET Thread, NEW lists,
           NEW old \in [Thread -> 0 .. 149], NEW prio \in [Thread -> 0 .. 149],
           NEW rem \in [Thread -> Int],
           Holds(lists, Levels(old), S), Shortest(lists[1], rem),
           \A t \in S : prio[t] >= old[t]
    PROVE  LET after == Sweep(Sweep(lists, 3, prio, rem), 2, prio, rem)
           IN  Holds(after, Levels(prio), S) /\ Shortest(after[1], rem)
<1> DEFINE lv == Levels(old)
           mid == [t \in Thread |-> IF lv[t] = 3 THEN LevelOf(prio[t]) ELSE lv[t]]
           lw == Levels(prio)
           half == Sweep(lists, 3, prio, rem)
           after == Sweep(half, 2, prio, rem)
<1>1. lv \in [Thread -> 1 .. 3] /\ lw \in [Thread -> 1 .. 3]
  BY LevelsType
<1>2. /\ mid \in [Thread -> 1 .. 3]
      /\ \A t \in S : mid[t] = IF lv[t] = 3 THEN LevelOf(prio[t]) ELSE lv[t]
  BY <1>1 DEF LevelOf
<1>3. \A t \in S : lw[t] = IF mid[t] = 2 THEN LevelOf(prio[t]) ELSE mid[t]
  BY DEF LevelOf, Levels
<1> HIDE DEF lv, mid, lw, half
<1>4. Holds(lists, lv, S)
  BY DEF lv
<1>5. Holds(half, mid, S) /\ Shortest(half[1], rem)
  <2>1. 3 \in 2 .. 3 /\ \A t \in S : mid[t] = IF lv[t] = 3 THEN LevelOf(prio[t]) ELSE lv[t]
    BY <1>2
  <2> DEFINE l == 3
  <2> HIDE DEF l
  <2>2. l \in 2 .. 3 /\ Relevelled(S, lv, mid, l, prio)
    BY <2>1 DEF l, Relevelled
  <2>3. /\ Holds(Sweep(lists, l, prio, rem), mid, S)
        /\ Shortest(Sweep(lists, l, prio, rem)[1], rem)
    BY <1>1, <1>2, <1>4, <2>2, SweepHolds
  <2>4. QED
    BY <2>3 DEF half, l
<1>6. Holds(after, lw, S) /\ Shortest(after[1], rem)
  <2> DEFINE l == 2
  <2> HIDE DEF l
  <2>1. l \in 2 .. 3 /\ Relevelled(S, mid, lw, l, prio)
    BY <1>3 DEF l, Relevelled
  <2>2. /\ Holds(Sweep(half, l, prio, rem), lw, S)
        /\ Shortest(Sweep(half, l, prio, rem)[1], rem)
    BY <1>1, <1>2, <1>5, <2>1, SweepHolds
  <2>3. QED
    BY <2>2 DEF l
<1>7. QED
  BY <1>6 DEF lw, half

LEMMA MinOfTwo ==
    ASSUME NEW a \in Int, NEW b \in Int
    PROVE  Min({a, b}) = IF a <= b THEN a ELSE b
<1>1. \E x \in {a, b} : \A y \in {a, b} : x <= y
  OBVIOUS
<1> DEFINE x == Min({a, b})
<1>2. x \in {a, b} /\ \A y \in {a, b} : x <= y
  BY <1>1 DEF Min
<1> HIDE DEF x
<1>3. x = IF a <= b THEN a ELSE b
  BY <1>2
<1>4. QED
  BY <1>3 DEF x

-----------------------------------------------------------------------------
(* The inductive invariant.                                                *)

\* The histories are in the past, and only the current thread runs.
Times ==
    /\ ran \in [Thread -> 0 .. totalTicks]
    /\ ready_at \in [Thread -> 0 .. totalTicks]
    /\ timed \in 0 .. totalTicks
    /\ \A t \in Thread : tick_cache[t] <= totalTicks
    /\ \A t \in Thread : status[t] = "RUNNING" <=> (~idle /\ t = currentThread)

\* The queues hold the ready threads, L1 in order.
QueuesInv ==
    /\ Holds(readyList, Levels(priority), Ready)
    /\ Shortest(readyList[1], ReadyRemaining)

\* t has waited in L1 since before the last timer interrupt.
Urgent(t) == status[t] = "READY" /\ LevelOf(priority[t]) = 1 /\ ready_at[t] < timed

\* PreemptsForL1 holds in interrupt handlers too, unless the running thread
\* is to yield when they return.
PreemptInv ==
    /\ idle => ~yieldOnReturn
    /\ yieldOnReturn => inHandler
    /\ (~idle /\ ~yieldOnReturn) =>
         \A t \in Thread : Urgent(t) =>
           /\ LevelOf(priority[currentThread]) = 1
           /\ RunningLeft < ReadyRemaining[t] + 2 * Unit

\* What AgingIsExact says, and what it says of one thread.
Exact(init, prio, tick, since, last) ==
    LET k == IF last < since THEN 0 ELSE (last - since) \div AGING_TICK
    IN  prio = Min({init + 10 * k, 149}) /\ tick = since + AGING_TICK * k
AgingInv == \A t \in Thread : status[t] = "READY" =>
                Exact(InitPriority[t], priority[t], tick_cache[t], ready_at[t], timed)

SchedInv == TypeOK /\ Times /\ TicksCharged /\ AgingInv /\ QueuesInv /\ PreemptInv

LEMMA Constants ==
    /\ Unit \in Nat \ {0} /\ AGING_TICK \in Nat \ {0} /\ TimerTicks \in Nat \ {0}
    /\ UserTick \in Nat \ {0} /\ SystemTick \in Nat \ {0} /\ MaxTicks \in Nat \ {0}
BY TickAssumption

\* A thread that has just become ready has not aged.
LEMMA NotAgedYet ==
    ASSUME NEW now \in Nat, NEW last \in 0 .. now, NEW init \in 0 .. 149
    PROVE  Exact(init, init, now, now, last)
<1> DEFINE k == IF last < now THEN 0 ELSE (last - now) \div AGING_TICK
<1>1. k = 0
  <2>1. CASE last < now
    BY <2>1
  <2>2. CASE last = now
    <3>1. last - now = 0 /\ 0 \div AGING_TICK = 0 /\ ~ (last < now)
      BY <2>2, Constants
    <3>2. QED
      BY <3>1
  <2>3. QED
    BY <2>1, <2>2
<1> HIDE DEF k
<1> DEFINE a == init + 10 * k  b == 149
<1>2. a \in Int /\ b \in Int /\ a <= b /\ a = init
  BY <1>1
<1> HIDE DEF a, b
<1>3. Min({a, b}) = a
  BY <1>2, MinOfTwo
<1>4. init = Min({init + 10 * k, 149})
  BY <1>2, <1>3 DEF a, b
<1>5. now = now + AGING_TICK * k
  BY <1>1, Constants
<1>6. QED
  BY <1>4, <1>5 DEF k, Exact

\* What a thread has still to run is a number.
LEMMA RemainingType ==
    ASSUME NEW remain \in [Thread -> Nat], NEW burst \in [Thread -> Nat]
    PROVE  /\ Remaining(remain, burst) \in [Thread -> Int]
           /\ \A t \in Thread : Remaining(remain, burst)[t] = remain[t] - Unit * burst[t]
BY Constants DEF Remaining

LEMMA TypesNat ==
    ASSUME TypeOK
    PROVE  /\ remain_burst_time \in [Thread -> Nat] /\ current_burst_time \in [Thread -> Nat]
           /\ ReadyRemaining \in [Thread -> Int]
           /\ \A t \in Thread : ReadyRemaining[t] = remain_burst_time[t] - Unit * current_burst_time[t]
           /\ totalTicks \in Nat /\ tick_cache \in [Thread -> Nat]
<1>1. 0 .. MaxTicks \subseteq Nat /\ 0 .. Unit * MaxTicks \subseteq Nat
  BY Constants
<1>2. /\ remain_burst_time \in [Thread -> Nat] /\ current_burst_time \in [Thread -> Nat]
      /\ totalTicks \in Nat /\ tick_cache \in [Thread -> Nat]
  BY <1>1 DEF TypeOK
<1>3. QED
  BY <1>2, RemainingType DEF ReadyRemaining

LEMMA InitSched == Init => SchedInv
<1> SUFFICES ASSUME Init PROVE SchedInv
  OBVIOUS
<1>1. Main \in Thread /\ InitPriority \in [Thread -> 0 .. 149]
  BY ThreadAssumption
<1>2. readyList \in [1 .. 3 -> Seq(Thread)] /\ \A l \in 1 .. 3 : readyList[l] = <<>>
  BY DEF Init
<1>3. TypeOK
  <2>1. 0 \in 0 .. MaxTicks /\ 0 \in 0 .. Unit * MaxTicks /\ TimerTicks \in 0 .. MaxTicks + TimerTicks
    BY Constants
  <2>2. QED
    BY <1>1, <1>2, <2>1 DEF Init, TypeOK, Status
<1>4. Times
  BY <1>1 DEF Init, Times
<1>5. TicksCharged
  BY <1>1 DEF Init, TicksCharged
<1>6. Ready = {}
  BY DEF Init, Ready
<1>7. AgingInv
  BY <1>6 DEF AgingInv, Ready
<1>8. QueuesInv
  BY <1>2, <1>6 DEF QueuesInv, Holds, Shortest
<1>9. PreemptInv
  BY <1>6 DEF Init, PreemptInv, Urgent, Ready
<1>10. QED
  BY <1>3, <1>4, <1>5, <1>7, <1>8, <1>9 DEF SchedInv

-----------------------------------------------------------------------------
(* Fork, Wake and device interrupts: a thread becomes ready.               *)

LEMMA ReadyStep ==
    ASSUME SchedInv, NEW t \in Thread, status[t] \in {"JUST_CREATED", "BLOCKED"},
           ReadyToRun(t), level' \in {"IntOn", "IntOff"},
           UNCHANGED <<currentThread, inHandler, yieldOnReturn, idle, clock>>
    PROVE  SchedInv'
<1>1. TypeOK /\ Times /\ TicksCharged /\ AgingInv /\ QueuesInv /\ PreemptInv
  BY DEF SchedInv
<1>2. /\ status' \in [Thread -> Status] /\ status'[t] = "READY"
      /\ \A u \in Thread : u # t => status'[u] = status[u]
  BY <1>1 DEF ReadyToRun, TypeOK, Status
<1>3. InitPriority \in [Thread -> 0 .. 149]
  BY ThreadAssumption
<1>4. /\ priority' \in [Thread -> 0 .. 149] /\ priority'[t] = InitPriority[t]
      /\ \A u \in Thread : u # t => priority'[u] = priority[u]
  BY <1>1, <1>3 DEF ReadyToRun, TypeOK
<1>5. /\ tick_cache' \in [Thread -> 0 .. MaxTicks] /\ tick_cache'[t] = totalTicks
      /\ \A u \in Thread : u # t => tick_cache'[u] = tick_cache[u]
  BY <1>1 DEF ReadyToRun, TypeOK
<1>6. /\ ready_at' \in [Thread -> 0 .. totalTicks] /\ ready_at'[t] = totalTicks
      /\ \A u \in Thread : u # t => ready_at'[u] = ready_at[u]
  BY <1>1, Constants DEF ReadyToRun, TypeOK, Times
<1>7. /\ readyList' = Enqueue(readyList, t, priority', ReadyRemaining)
      /\ UNCHANGED <<current_burst_time, remain_burst_time, ran, timed, currentThread,
                     inHandler, yieldOnReturn, idle, totalTicks, timer_at>>
  BY DEF ReadyToRun, ReadyRemaining, clock
<1>8. ReadyRemaining \in [Thread -> Int] /\ ReadyRemaining' = ReadyRemaining
  BY <1>1, <1>7, TypesNat DEF ReadyRemaining
<1>9. t \notin Ready /\ Ready' = Ready \cup {t} /\ Ready \in SUBSET Thread
  BY <1>2 DEF Ready
<1>10. \A u \in Ready : Levels(priority')[u] = Levels(priority)[u]
  BY <1>4, <1>9 DEF Levels
<1>11. QueuesInv'
  <2> DEFINE prio == priority'
             lists == readyList
             rem == ReadyRemaining
             S == Ready
             lv == Levels(priority)
  <2>1. /\ Holds(lists, lv, S) /\ Shortest(lists[1], rem)
        /\ prio \in [Thread -> 0 .. 149] /\ rem \in [Thread -> Int]
        /\ S \in SUBSET Thread /\ t \notin S /\ \A u \in S : Levels(prio)[u] = lv[u]
    BY <1>1, <1>4, <1>8, <1>9, <1>10 DEF QueuesInv
  <2>2. readyList' = Enqueue(lists, t, prio, rem)
    BY <1>7
  <2> HIDE DEF prio, lists, rem, S, lv
  <2>3. /\ Holds(Enqueue(lists, t, prio, rem), Levels(prio), S \cup {t})
        /\ Shortest(Enqueue(lists, t, prio, rem)[1], rem)
    BY <2>1, EnqueueHolds
  <2>4. Holds(readyList', Levels(prio), S \cup {t}) /\ Shortest(readyList'[1], rem)
    BY <2>2, <2>3
  <2>5. QED
    BY <1>8, <1>9, <2>4 DEF QueuesInv, prio, S, rem
<1>12. TypeOK'
  <2>1. readyList' \in [1 .. 3 -> Seq(Thread)]
    BY <1>11 DEF QueuesInv, Holds
  <2>2. QED
    BY <1>1, <1>2, <1>4, <1>5, <1>7, <2>1 DEF TypeOK
<1>13. Times'
  <2>1. \A u \in Thread : tick_cache'[u] <= totalTicks'
    BY <1>1, <1>5, <1>7, TypesNat DEF Times
  <2>2. \A u \in Thread : status'[u] = "RUNNING" <=> status[u] = "RUNNING"
    BY <1>2
  <2>3. QED
    BY <1>1, <1>6, <1>7, <2>1, <2>2 DEF Times
<1>14. TicksCharged'
  <2>1. SUFFICES ASSUME NEW u \in Thread, status'[u] # "TERMINATED"
        PROVE ran'[u] = current_burst_time'[u]
                 + IF status'[u] = "RUNNING" THEN totalTicks' - tick_cache'[u] ELSE 0
    BY Zenon DEF TicksCharged
  <2>2. CASE u = t
    BY <1>1, <1>2, <1>7, <2>2 DEF TicksCharged
  <2>3. CASE u # t
    BY <1>1, <1>2, <1>5, <1>7, <2>1, <2>3 DEF TicksCharged
  <2>4. QED
    BY <2>2, <2>3
<1>15. AgingInv'
  <2>1. ASSUME NEW u \in Thread, status'[u] = "READY"
        PROVE  Exact(InitPriority[u], priority'[u], tick_cache'[u], ready_at'[u], timed')
    <3>1. CASE u # t
      BY <1>1, <1>2, <1>4, <1>5, <1>6, <1>7, <2>1, <3>1 DEF AgingInv
    <3>2. CASE u = t
      <4>1. totalTicks \in Nat /\ timed \in 0 .. totalTicks /\ InitPriority[t] \in 0 .. 149
        BY <1>1, <1>3, TypesNat DEF Times
      <4>2. Exact(InitPriority[t], InitPriority[t], totalTicks, totalTicks, timed)
        BY <4>1, NotAgedYet
      <4>3. QED
        BY <1>4, <1>5, <1>6, <1>7, <3>2, <4>2
    <3>3. QED
      BY <3>1, <3>2
  <2>2. QED
    BY <2>1 DEF AgingInv
<1>16. PreemptInv'
  <2>1. \A u \in Thread : Urgent(u)' => Urgent(u)
    <3>1. TAKE u \in Thread
    <3>2. CASE u = t
      BY <1>1, <1>6, <1>7, <3>2, TypesNat DEF Urgent, Times
    <3>3. CASE u # t
      BY <1>2, <1>4, <1>6, <1>7, <3>3 DEF Urgent
    <3>4. QED
      BY <3>2, <3>3
  <2>2. ASSUME ~idle
        PROVE  priority'[currentThread] = priority[currentThread] /\ RunningLeft' = RunningLeft
    <3>1. currentThread # t /\ currentThread \in Thread
      BY <1>1, <2>2 DEF Times, TypeOK
    <3>2. tick_cache'[currentThread] = tick_cache[currentThread]
      BY <1>5, <3>1
    <3>3. QED
      BY <1>4, <1>7, <3>1, <3>2 DEF RunningLeft, BurstSoFar
  <2>3. QED
    BY <1>1, <1>7, <1>8, <2>1, <2>2 DEF PreemptInv
<1>17. QED
  BY <1>11, <1>12, <1>13, <1>14, <1>15, <1>16 DEF SchedInv

-----------------------------------------------------------------------------
(* Thread::Yield, called or on the return from an interrupt.               *)

LEMMA NoneReady ==
    ASSUME TypeOK, QueuesInv, IsEmpty
    PROVE  Ready = {}
<1>1. SUFFICES ASSUME NEW t \in Ready PROVE FALSE
  OBVIOUS
<1>2. Levels(priority) \in [Thread -> 1 .. 3] /\ t \in Thread
  BY LevelsType DEF TypeOK, Ready
<1>3. PICK i \in 1 .. Len(readyList[Levels(priority)[t]]) : TRUE
  BY DEF QueuesInv, Holds
<1>4. readyList[Levels(priority)[t]] = <<>>
  BY <1>2 DEF IsEmpty
<1>5. QED
  BY <1>3, <1>4

\* The thread that runs has run since it last waited for as long as is charged.
LEMMA BurstIsRan ==
    ASSUME TypeOK, Times, TicksCharged, ~idle
    PROVE  /\ currentThread \in Thread /\ status[currentThread] = "RUNNING"
           /\ BurstSoFar[currentThread] = ran[currentThread]
           /\ BurstSoFar \in [Thread -> 0 .. MaxTicks]
           /\ \A t \in Thread : t # currentThread => BurstSoFar[t] = current_burst_time[t]
<1> DEFINE c == currentThread
           b == current_burst_time[c] + totalTicks - tick_cache[c]
<1>1. c \in Thread /\ status[c] = "RUNNING"
  BY DEF TypeOK, Times
<1>2. current_burst_time \in [Thread -> 0 .. MaxTicks] /\ totalTicks \in Nat /\ tick_cache \in [Thread -> Nat]
      /\ current_burst_time \in [Thread -> Nat] /\ totalTicks <= MaxTicks
  BY TypesNat, Constants DEF TypeOK
<1>3. ran[c] = current_burst_time[c] + (totalTicks - tick_cache[c])
  BY <1>1 DEF TicksCharged
<1>4. b = ran[c]
  BY <1>1, <1>2, <1>3
<1>5. ran[c] \in 0 .. MaxTicks
  BY <1>1, <1>2, Constants DEF Times
<1>6. BurstSoFar = [current_burst_time EXCEPT ![c] = b]
  BY DEF BurstSoFar
<1> HIDE DEF b, c
<1>7. /\ BurstSoFar \in [Thread -> 0 .. MaxTicks] /\ BurstSoFar[c] = b
      /\ \A t \in Thread : t # c => BurstSoFar[t] = current_burst_time[t]
  BY <1>1, <1>2, <1>4, <1>5, <1>6
<1>8. QED
  BY <1>1, <1>4, <1>7 DEF c

LEMMA YieldStep ==
    ASSUME SchedInv, ~idle, Yield, ~inHandler', ~yieldOnReturn',
           inHandler' \in BOOLEAN, yieldOnReturn' \in BOOLEAN,
           level' = "IntOff", UNCHANGED <<idle, clock>>
    PROVE  SchedInv'
<1>1. TypeOK /\ Times /\ TicksCharged /\ AgingInv /\ QueuesInv /\ PreemptInv
  BY DEF SchedInv
<1>2. CASE IsEmpty
  <2>1. UNCHANGED <<threads, readyList, currentThread, history, idle, clock>>
    BY <1>2 DEF Yield
  <2>2. UNCHANGED <<status, priority, tick_cache, current_burst_time, remain_burst_time,
                    readyList, currentThread, idle, totalTicks, timer_at, ready_at, ran, timed>>
    BY <2>1 DEF threads, history, clock
  <2>3. Ready = {} /\ Ready' = Ready
    BY <1>1, <1>2, <2>2, NoneReady DEF Ready
  <2>4. TypeOK'
    BY <1>1, <2>2 DEF TypeOK
  <2>5. Times' /\ TicksCharged' /\ AgingInv'
    BY <1>1, <2>2 DEF Times, TicksCharged, AgingInv
  <2>6. QueuesInv'
    BY <1>1, <2>2, <2>3 DEF QueuesInv, ReadyRemaining
  <2>7. PreemptInv'
    BY <2>3 DEF PreemptInv, Urgent, Ready
  <2>8. QED
    BY <2>4, <2>5, <2>6, <2>7 DEF SchedInv
<1>3. CASE ~IsEmpty
  <2> DEFINE old == currentThread
             next == NextThread
             rem == ReadyRemaining
             rem2 == Remaining(remain_burst_time, BurstSoFar)
             lv == Levels(priority)
  <2>1. /\ old \in Thread /\ status[old] = "RUNNING"
        /\ BurstSoFar[old] = ran[old]
        /\ BurstSoFar \in [Thread -> 0 .. MaxTicks]
        /\ \A t \in Thread : t # old => BurstSoFar[t] = current_burst_time[t]
    BY <1>1, BurstIsRan
  <2>2. lv \in [Thread -> 1 .. 3] /\ rem \in [Thread -> Int] /\ Ready \in SUBSET Thread
    BY <1>1, LevelsType, TypesNat DEF TypeOK, Ready
  <2>3. /\ next \in Ready
        /\ Holds(RemoveFront, lv, Ready \ {next})
        /\ Shortest(RemoveFront[1], rem)
        /\ \A t \in Ready : lv[t] = 1 => lv[next] = 1 /\ rem[next] < rem[t] + Unit
    BY <1>1, <1>3, <2>2, FrontTaken DEF QueuesInv
  <2>4. next \in Thread /\ status[next] = "READY" /\ next # old /\ old \notin Ready
    BY <2>1, <2>3 DEF Ready
  <2>5. /\ status' = [status EXCEPT ![old] = "READY", ![next] = "RUNNING"]
        /\ tick_cache' = [tick_cache EXCEPT ![old] = totalTicks, ![next] = totalTicks]
        /\ current_burst_time' = BurstSoFar
        /\ priority' = [priority EXCEPT ![old] = InitPriority[old]]
        /\ readyList' = Enqueue(RemoveFront, old, priority', rem2)
        /\ currentThread' = next
        /\ ready_at' = [ready_at EXCEPT ![old] = totalTicks]
        /\ UNCHANGED <<remain_burst_time, ran, timed, idle, totalTicks, timer_at>>
    BY <1>3 DEF Yield, clock
  <2> HIDE DEF old, next, rem, rem2, lv
  <2>6. /\ status' \in [Thread -> Status] /\ status'[old] = "READY" /\ status'[next] = "RUNNING"
        /\ \A t \in Thread \ {old, next} : status'[t] = status[t]
    BY <1>1, <2>1, <2>4, <2>5 DEF TypeOK, Status
  <2>7. /\ tick_cache' \in [Thread -> 0 .. MaxTicks]
        /\ tick_cache'[old] = totalTicks /\ tick_cache'[next] = totalTicks
        /\ \A t \in Thread \ {old, next} : tick_cache'[t] = tick_cache[t]
    BY <1>1, <2>1, <2>4, <2>5 DEF TypeOK
  <2>8. /\ priority' \in [Thread -> 0 .. 149] /\ priority'[old] = InitPriority[old]
        /\ InitPriority[old] \in 0 .. 149
        /\ \A t \in Thread : t # old => priority'[t] = priority[t]
    BY <1>1, <2>1, <2>5, ThreadAssumption DEF TypeOK
  <2>9. /\ ready_at' \in [Thread -> 0 .. totalTicks] /\ ready_at'[old] = totalTicks
        /\ \A t \in Thread : t # old => ready_at'[t] = ready_at[t]
    <3>1. totalTicks \in 0 .. totalTicks
      BY <1>1, TypesNat
    <3>2. QED
      BY <1>1, <2>1, <2>5, <3>1 DEF Times
  <2>10. Ready' = (Ready \ {next}) \cup {old}
    BY <2>1, <2>4, <2>6 DEF Ready
  <2>11. /\ rem2 \in [Thread -> Int] /\ rem2 = ReadyRemaining'
         /\ \A t \in Thread : t # old => rem2[t] = rem[t]
    <3>1. BurstSoFar \in [Thread -> Nat]
      BY <2>1, Constants
    <3>2. /\ rem2 \in [Thread -> Int]
          /\ \A t \in Thread : rem2[t] = remain_burst_time[t] - Unit * BurstSoFar[t]
      BY <1>1, <3>1, TypesNat, RemainingType DEF rem2
    <3>3. \A t \in Thread : rem[t] = remain_burst_time[t] - Unit * current_burst_time[t]
      BY <1>1, TypesNat DEF rem
    <3>4. rem2 = ReadyRemaining'
      BY <2>5 DEF rem2, ReadyRemaining
    <3>5. QED
      BY <2>1, <3>2, <3>3, <3>4
  <2>12. QueuesInv'
    <3> DEFINE S == Ready \ {next}
               lists == RemoveFront
               prio == priority'
    <3>1. S \in SUBSET Thread /\ old \notin S /\ \A t \in S : t \in Thread /\ t # old
      BY <2>2, <2>4
    <3>2. \A t \in S : Levels(prio)[t] = lv[t]
      BY <2>8, <3>1 DEF Levels, lv
    <3>3. Shortest(lists[1], rem2)
      <4>1. \A t \in S : rem2[t] = rem[t]
        BY <2>11, <3>1
      <4>2. QED
        BY <2>3, <3>1, <4>1, ShortestSame
    <3>4. Holds(lists, lv, S) /\ prio \in [Thread -> 0 .. 149] /\ rem2 \in [Thread -> Int]
      BY <2>3, <2>8, <2>11
    <3> HIDE DEF S, lists, prio
    <3>5. /\ Holds(Enqueue(lists, old, prio, rem2), Levels(prio), S \cup {old})
          /\ Shortest(Enqueue(lists, old, prio, rem2)[1], rem2)
      BY <2>1, <3>1, <3>2, <3>3, <3>4, EnqueueHolds
    <3>6. readyList' = Enqueue(lists, old, prio, rem2) /\ Ready' = S \cup {old}
      BY <2>5, <2>10 DEF lists, prio, S
    <3>7. QED
      BY <2>11, <3>5, <3>6 DEF QueuesInv, prio
  <2>13. TypeOK'
    <3>1. readyList' \in [1 .. 3 -> Seq(Thread)]
      BY <2>12 DEF QueuesInv, Holds
    <3>2. /\ current_burst_time' \in [Thread -> 0 .. MaxTicks]
          /\ currentThread' \in Thread
      BY <2>1, <2>4, <2>5
    <3>3. /\ remain_burst_time' \in [Thread -> 0 .. Unit * MaxTicks]
          /\ totalTicks' \in 0 .. MaxTicks
          /\ timer_at' \in 0 .. MaxTicks + TimerTicks
      BY <1>1, <2>5 DEF TypeOK
    <3>4. idle' \in BOOLEAN
      BY <1>1, <2>5 DEF TypeOK
    <3>5. level' \in {"IntOn", "IntOff"} /\ {inHandler', yieldOnReturn', idle'} \subseteq BOOLEAN
      BY <3>4
    <3>6. QED
      BY ONLY <2>6, <2>7, <2>8, <3>1, <3>2, <3>3, <3>5 DEF TypeOK
  <2>14. Times'
    <3>1. \A t \in Thread : tick_cache'[t] <= totalTicks'
      BY <1>1, <2>5, <2>7, TypesNat DEF Times
    <3>2. \A t \in Thread : status'[t] = "RUNNING" <=> (~idle' /\ t = currentThread')
      <4>1. TAKE t \in Thread
      <4>2. CASE t \in {old, next}
        BY <2>4, <2>5, <2>6, <4>2
      <4>3. CASE t \notin {old, next}
        BY <1>1, <2>5, <2>6, <4>3 DEF Times, old
      <4>4. QED
        BY <4>2, <4>3
    <3>3. QED
      BY <1>1, <2>5, <2>9, <3>1, <3>2 DEF Times
  <2>15. TicksCharged'
    <3>1. SUFFICES ASSUME NEW t \in Thread, status'[t] # "TERMINATED"
          PROVE ran'[t] = current_burst_time'[t]
                   + IF status'[t] = "RUNNING" THEN totalTicks' - tick_cache'[t] ELSE 0
      BY Zenon DEF TicksCharged
    <3>2. BurstSoFar[t] \in Nat
      BY <2>1, Constants
    <3>3. CASE t = old
      BY <2>1, <2>5, <2>6, <3>2, <3>3
    <3>4. CASE t = next
      <4>1. ran[next] = current_burst_time[next] + 0
        BY <1>1, <2>4 DEF TicksCharged
      <4>2. BurstSoFar[next] = current_burst_time[next] /\ totalTicks - totalTicks = 0
        BY <1>1, <2>1, <2>4, TypesNat
      <4>3. QED
        BY <2>5, <2>6, <2>7, <3>4, <4>1, <4>2
    <3>5. CASE t \notin {old, next}
      BY <1>1, <2>1, <2>5, <2>6, <2>7, <3>1, <3>5 DEF TicksCharged
    <3>6. QED
      BY <3>3, <3>4, <3>5
  <2>16. AgingInv'
    <3>1. ASSUME NEW t \in Thread, status'[t] = "READY"
          PROVE  Exact(InitPriority[t], priority'[t], tick_cache'[t], ready_at'[t], timed')
      <4>1. CASE t # old
        <5>1. t \notin {old, next}
          BY <2>6, <3>1, <4>1
        <5>2. QED
          BY <1>1, <2>5, <2>6, <2>7, <2>8, <2>9, <3>1, <5>1 DEF AgingInv
      <4>2. CASE t = old
        <5>1. totalTicks \in Nat /\ timed \in 0 .. totalTicks
          BY <1>1, TypesNat DEF Times
        <5>2. Exact(InitPriority[old], InitPriority[old], totalTicks, totalTicks, timed)
          BY <2>8, <5>1, NotAgedYet
        <5>3. QED
          BY <2>5, <2>7, <2>8, <2>9, <4>2, <5>2
      <4>3. QED
        BY <4>1, <4>2
    <3>2. QED
      BY <3>1 DEF AgingInv
  <2>17. PreemptInv'
    <3>1. SUFFICES ASSUME NEW t \in Thread, Urgent(t)'
          PROVE  /\ LevelOf(priority'[next]) = 1
                 /\ RunningLeft' < ReadyRemaining'[t] + 2 * Unit
      BY <1>1, <2>5 DEF PreemptInv
    <3>2. t # old
      BY <1>1, <2>5, <2>9, <3>1, TypesNat DEF Urgent, Times
    <3>3. t \notin {old, next} /\ t \in Ready /\ lv[t] = 1
      BY <2>6, <2>8, <3>1, <3>2 DEF Urgent, Ready, Levels, lv
    <3>4. lv[next] = 1 /\ rem[next] < rem[t] + Unit
      BY <2>3, <3>3
    <3>5. LevelOf(priority'[next]) = 1
      BY <2>4, <2>8, <3>4 DEF Levels, lv
    <3>6. RunningLeft' = rem[next]
      <4>1. BurstSoFar[next] \in Nat /\ current_burst_time'[next] + totalTicks' - tick_cache'[next] = BurstSoFar[next]
        BY <1>1, <2>1, <2>4, <2>5, <2>7, TypesNat, Constants
      <4>2. BurstSoFar' = [current_burst_time' EXCEPT ![next] =
                             @ + totalTicks' - tick_cache'[next]]
        BY <2>5 DEF BurstSoFar
      <4>3. current_burst_time' \in [Thread -> 0 .. MaxTicks]
        BY <2>1, <2>5
      <4>4. BurstSoFar'[next] = current_burst_time'[next] + totalTicks' - tick_cache'[next]
        BY <2>4, <4>2, <4>3
      <4>5. BurstSoFar'[next] = current_burst_time[next]
        BY <2>1, <2>4, <4>1, <4>4
      <4>6. rem[next] = remain_burst_time[next] - Unit * current_burst_time[next]
        BY <1>1, <2>4, TypesNat DEF rem
      <4>7. QED
        BY <2>5, <4>5, <4>6 DEF RunningLeft
    <3>7. ReadyRemaining'[t] = rem[t]
      BY <2>11, <3>2
    <3>8. rem[t] \in Int /\ rem[next] \in Int
      BY <2>2, <2>4
    <3>9. QED
      BY <3>4, <3>5, <3>6, <3>7, <3>8, Constants
  <2>18. QED
    BY <2>12, <2>13, <2>14, <2>15, <2>16, <2>17 DEF SchedInv
<1>4. QED
  BY <1>2, <1>3

-----------------------------------------------------------------------------
(* Thread::Sleep: the next thread runs, or none and the machine idles.     *)

LEMMA DispatchStep ==
    ASSUME SchedInv, ~yieldOnReturn,
           NEW statusNow \in [Thread -> Status], NEW ticksNow \in [Thread -> 0 .. totalTicks],
           \A t \in Thread : statusNow[t] # "RUNNING",
           \A t \in Thread : statusNow[t] = "READY" <=> status[t] = "READY",
           \A t \in Ready : ticksNow[t] = tick_cache[t],
           Dispatch(statusNow, ticksNow),
           remain_burst_time' \in [Thread -> 0 .. Unit * MaxTicks],
           current_burst_time' \in [Thread -> 0 .. MaxTicks],
           \A t \in Ready : /\ remain_burst_time'[t] = remain_burst_time[t]
                            /\ current_burst_time'[t] = current_burst_time[t],
           ran' \in [Thread -> 0 .. totalTicks],
           \A t \in Thread : statusNow[t] # "TERMINATED" => ran'[t] = current_burst_time'[t],
           level' \in {"IntOn", "IntOff"}, inHandler' \in BOOLEAN,
           UNCHANGED <<priority, yieldOnReturn, totalTicks, timer_at, ready_at, timed>>
    PROVE  SchedInv'
<1>1. TypeOK /\ Times /\ TicksCharged /\ AgingInv /\ QueuesInv /\ PreemptInv
  BY DEF SchedInv
<1>2. /\ 0 .. MaxTicks \subseteq Nat /\ 0 .. Unit * MaxTicks \subseteq Nat
      /\ totalTicks \in Nat /\ totalTicks \in 0 .. totalTicks /\ 0 .. totalTicks \subseteq 0 .. MaxTicks
  BY <1>1, Constants DEF TypeOK
<1>3. /\ ReadyRemaining \in [Thread -> Int] /\ ReadyRemaining' \in [Thread -> Int]
      /\ \A t \in Ready : ReadyRemaining'[t] = ReadyRemaining[t]
  <2>1. remain_burst_time' \in [Thread -> Nat] /\ current_burst_time' \in [Thread -> Nat]
    BY <1>2
  <2>2. ReadyRemaining' = Remaining(remain_burst_time', current_burst_time')
    BY DEF ReadyRemaining, Remaining
  <2>3. /\ ReadyRemaining' \in [Thread -> Int]
        /\ \A t \in Thread : ReadyRemaining'[t] = remain_burst_time'[t] - Unit * current_burst_time'[t]
    BY <2>1, <2>2, RemainingType
  <2>4. \A t \in Ready : t \in Thread
    BY DEF Ready
  <2>5. QED
    BY <1>1, <2>3, <2>4, TypesNat
<1>4. CASE IsEmpty
  <2>1. idle' = TRUE /\ status' = statusNow /\ tick_cache' = ticksNow /\ UNCHANGED <<readyList, currentThread>>
    BY <1>4 DEF Dispatch
  <2>2. Ready = {} /\ Ready' = {}
    <3>1. Ready = {}
      BY <1>1, <1>4, NoneReady
    <3>2. QED
      BY <2>1, <3>1 DEF Ready
  <2>3. TypeOK'
    BY <1>1, <1>2, <2>1 DEF TypeOK
  <2>4. Times'
    BY <1>1, <1>2, <2>1 DEF Times
  <2>5. TicksCharged'
    <3>1. \A t \in Thread : ran'[t] \in Nat /\ current_burst_time'[t] \in Nat
      BY <1>2
    <3>2. QED
      BY <2>1, <3>1 DEF TicksCharged
  <2>6. AgingInv'
    BY <2>2 DEF AgingInv, Ready
  <2>7. QueuesInv'
    <3>1. /\ readyList' = readyList /\ \A l \in 1 .. 3 : readyList[l] = <<>>
          /\ readyList \in [1 .. 3 -> Seq(Thread)]
      BY <1>1, <1>4, <2>1 DEF IsEmpty, TypeOK
    <3>2. QED
      BY <2>2, <3>1 DEF QueuesInv, Holds, Shortest
  <2>8. PreemptInv'
    BY <2>1 DEF PreemptInv
  <2>9. QED
    BY <2>3, <2>4, <2>5, <2>6, <2>7, <2>8 DEF SchedInv
<1>5. CASE ~IsEmpty
  <2> DEFINE next == NextThread
             rem == ReadyRemaining
             lv == Levels(priority)
  <2>1. lv \in [Thread -> 1 .. 3] /\ Ready \in SUBSET Thread
    BY <1>1, LevelsType DEF TypeOK, Ready
  <2>2. /\ next \in Ready
        /\ Holds(RemoveFront, lv, Ready \ {next})
        /\ Shortest(RemoveFront[1], rem)
        /\ \A t \in Ready : lv[t] = 1 => lv[next] = 1 /\ rem[next] < rem[t] + Unit
    BY <1>1, <1>3, <1>5, <2>1, FrontTaken DEF QueuesInv
  <2>3. /\ idle' = FALSE
        /\ status' = [statusNow EXCEPT ![next] = "RUNNING"]
        /\ tick_cache' = [ticksNow EXCEPT ![next] = totalTicks]
        /\ readyList' = RemoveFront
        /\ currentThread' = next
    BY <1>5 DEF Dispatch
  <2> HIDE DEF next, rem, lv
  <2>4. next \in Thread /\ statusNow[next] = "READY"
    BY <2>1, <2>2 DEF Ready
  <2>5. /\ status' \in [Thread -> Status] /\ status'[next] = "RUNNING"
        /\ \A t \in Thread : t # next => status'[t] = statusNow[t]
    BY <2>3, <2>4 DEF Status
  <2>6. /\ tick_cache' \in [Thread -> 0 .. totalTicks] /\ tick_cache'[next] = totalTicks
        /\ \A t \in Thread : t # next => tick_cache'[t] = ticksNow[t]
    BY <1>2, <2>3, <2>4
  <2>7. Ready' = Ready \ {next}
    BY <2>5 DEF Ready
  <2>8. QueuesInv'
    <3> DEFINE S == Ready \ {next}
    <3>1. S \in SUBSET Thread /\ \A t \in S : ReadyRemaining'[t] = rem[t]
      BY <1>3, <2>1 DEF rem
    <3>2. Shortest(RemoveFront[1], ReadyRemaining')
      BY <2>2, <3>1, ShortestSame
    <3>3. QED
      BY <2>2, <2>3, <2>7, <3>2 DEF QueuesInv, lv, Levels
  <2>9. TypeOK'
    <3>1. readyList' \in [1 .. 3 -> Seq(Thread)]
      BY <2>8 DEF QueuesInv, Holds
    <3>2. tick_cache' \in [Thread -> 0 .. MaxTicks]
      BY <1>2, <2>6
    <3>3. QED
      BY <1>1, <2>3, <2>4, <2>5, <3>1, <3>2 DEF TypeOK
  <2>10. Times'
    <3>1. \A t \in Thread : tick_cache'[t] <= totalTicks'
      BY <1>2, <2>6
    <3>2. \A t \in Thread : status'[t] = "RUNNING" <=> (~idle' /\ t = currentThread')
      BY <2>3, <2>4, <2>5
    <3>3. QED
      BY <1>1, <3>1, <3>2 DEF Times
  <2>11. TicksCharged'
    <3>1. SUFFICES ASSUME NEW t \in Thread, status'[t] # "TERMINATED"
          PROVE ran'[t] = current_burst_time'[t]
                   + IF status'[t] = "RUNNING" THEN totalTicks' - tick_cache'[t] ELSE 0
      BY Zenon DEF TicksCharged
    <3>2. ran'[t] \in Nat /\ current_burst_time'[t] \in Nat
      BY <1>2
    <3>3. ran'[t] = current_burst_time'[t]
      BY <2>4, <2>5, <3>1
    <3>4. CASE t = next
      BY <1>2, <2>5, <2>6, <3>2, <3>3, <3>4
    <3>5. CASE t # next
      BY <2>5, <3>2, <3>3, <3>5
    <3>6. QED
      BY <3>4, <3>5
  <2>12. AgingInv'
    <3>1. ASSUME NEW t \in Thread, status'[t] = "READY"
          PROVE  Exact(InitPriority[t], priority'[t], tick_cache'[t], ready_at'[t], timed')
      <4>1. t # next /\ status[t] = "READY" /\ tick_cache'[t] = tick_cache[t]
        BY <2>5, <2>6, <3>1 DEF Ready
      <4>2. QED
        BY <1>1, <4>1 DEF AgingInv
    <3>2. QED
      BY <3>1 DEF AgingInv
  <2>13. PreemptInv'
    <3>1. SUFFICES ASSUME NEW t \in Thread, Urgent(t)'
          PROVE  /\ LevelOf(priority'[next]) = 1
                 /\ RunningLeft' < ReadyRemaining'[t] + 2 * Unit
      BY <2>3 DEF PreemptInv
    <3>2. t # next /\ t \in Ready /\ lv[t] = 1
      BY <2>5, <3>1 DEF Urgent, Ready, Levels, lv
    <3>3. lv[next] = 1 /\ rem[next] < rem[t] + Unit
      BY <2>2, <3>2
    <3>4. LevelOf(priority'[next]) = 1
      BY <2>4, <3>3 DEF Levels, lv
    <3>5. RunningLeft' = ReadyRemaining'[next]
      <4>1. BurstSoFar' = [current_burst_time' EXCEPT ![next] =
                             @ + totalTicks' - tick_cache'[next]]
        BY <2>3 DEF BurstSoFar
      <4>2. current_burst_time' \in [Thread -> 0 .. MaxTicks]
        OBVIOUS
      <4>3. BurstSoFar'[next] = current_burst_time'[next] + totalTicks' - tick_cache'[next]
        BY <2>4, <4>1, <4>2
      <4>4. current_burst_time'[next] \in Nat
        BY <1>2, <2>4
      <4>5. BurstSoFar'[next] = current_burst_time'[next]
        BY <1>2, <2>6, <4>3, <4>4
      <4>6. ReadyRemaining'[next] = remain_burst_time'[next] - Unit * current_burst_time'[next]
        BY <2>4 DEF ReadyRemaining, Remaining
      <4>7. QED
        BY <2>3, <4>5, <4>6 DEF RunningLeft
    <3>6. ReadyRemaining'[t] = rem[t] /\ ReadyRemaining'[next] = rem[next]
      BY <1>3, <2>2, <3>2 DEF rem
    <3>7. rem[t] \in Int /\ rem[next] \in Int
      BY <1>3, <2>4 DEF rem
    <3>8. QED
      BY <3>3, <3>4, <3>5, <3>6, <3>7, Constants
  <2>14. QED
    BY <2>8, <2>9, <2>10, <2>11, <2>12, <2>13 DEF SchedInv
<1>6. QED
  BY <1>4, <1>5

LEMMA BlockStep == SchedInv /\ Block => SchedInv'
<1> SUFFICES ASSUME SchedInv, Block PROVE SchedInv'
  OBVIOUS
<1> DEFINE c == currentThread
           statusNow == [status EXCEPT ![c] = "BLOCKED"]
           ticksNow == [tick_cache EXCEPT ![c] = totalTicks]
<1>1. TypeOK /\ Times /\ TicksCharged /\ PreemptInv /\ ~idle /\ ~inHandler
  BY DEF SchedInv, Block, Executing
<1>2. /\ c \in Thread /\ status[c] = "RUNNING" /\ BurstSoFar[c] = ran[c]
      /\ BurstSoFar \in [Thread -> 0 .. MaxTicks]
  BY <1>1, BurstIsRan
<1>3. c \notin Ready /\ \A t \in Ready : t \in Thread
  BY <1>2 DEF Ready
<1>4. tick_cache \in [Thread -> 0 .. totalTicks] /\ totalTicks \in Nat /\ totalTicks \in 0 .. totalTicks
  BY <1>1, TypesNat DEF Times
<1>5. /\ statusNow \in [Thread -> Status] /\ ticksNow \in [Thread -> 0 .. totalTicks]
      /\ \A t \in Thread : statusNow[t] # "RUNNING"
      /\ \A t \in Thread : statusNow[t] = "READY" <=> status[t] = "READY"
      /\ \A t \in Ready : ticksNow[t] = tick_cache[t]
  BY <1>1, <1>2, <1>3, <1>4 DEF TypeOK, Times, Status
<1>6. /\ current_burst_time' \in [Thread -> 0 .. MaxTicks] /\ current_burst_time'[c] = 0
      /\ \A t \in Thread : t # c => current_burst_time'[t] = current_burst_time[t]
  BY <1>1, <1>2, Constants DEF Block, TypeOK
<1>7. /\ remain_burst_time' \in [Thread -> 0 .. Unit * MaxTicks]
      /\ \A t \in Thread : t # c => remain_burst_time'[t] = remain_burst_time[t]
  <2> DEFINE r == remain_burst_time[c]
             x == Unit * BurstSoFar[c]
  <2>1. r \in 0 .. Unit * MaxTicks /\ Unit * MaxTicks \in Nat
    BY <1>1, <1>2, Constants DEF TypeOK
  <2>2. x \in 0 .. Unit * MaxTicks
    <3>1. BurstSoFar[c] \in Int /\ 0 <= BurstSoFar[c] /\ BurstSoFar[c] <= MaxTicks /\ MaxTicks \in Int /\ Unit \in Nat
      BY <1>2, Constants
    <3>2. Unit * BurstSoFar[c] <= Unit * MaxTicks /\ Unit * 0 <= Unit * BurstSoFar[c]
      BY <3>1, Mono
    <3>3. QED
      BY <3>1, <3>2
  <2>3. remain_burst_time' = IF BurstSoFar[c] = 0 THEN remain_burst_time
                             ELSE [remain_burst_time EXCEPT ![c] = (x + r) \div 2]
    BY DEF Block, Waited
  <2> HIDE DEF x, r
  <2>4. (x + r) \div 2 \in 0 .. Unit * MaxTicks
    BY <2>1, <2>2
  <2>5. QED
    BY <1>1, <1>2, <2>3, <2>4 DEF TypeOK
<1>8. /\ ran' \in [Thread -> 0 .. totalTicks] /\ ran'[c] = 0
      /\ \A t \in Thread : t # c => ran'[t] = ran[t]
  BY <1>1, <1>2, <1>4 DEF Block, Times
<1>9. \A t \in Thread : statusNow[t] # "TERMINATED" => ran'[t] = current_burst_time'[t]
  <2>1. TAKE t \in Thread
  <2>2. HAVE statusNow[t] # "TERMINATED"
  <2>3. CASE t = c
    BY <1>6, <1>8, <2>3
  <2>4. CASE t # c
    <3>1. status[t] # "TERMINATED" /\ status[t] # "RUNNING"
      BY <1>1, <2>2, <2>4 DEF Times, TypeOK
    <3>2. ran[t] = current_burst_time[t] + 0 /\ current_burst_time[t] \in Nat
      BY <1>1, <3>1, TypesNat DEF TicksCharged
    <3>3. QED
      BY <1>6, <1>8, <2>4, <3>2
  <2>5. QED
    BY <2>3, <2>4
<1>10. /\ Dispatch(statusNow, ticksNow) /\ level' = "IntOff" /\ inHandler' = inHandler
       /\ UNCHANGED <<priority, yieldOnReturn, totalTicks, timer_at, ready_at, timed>>
  BY DEF Block, clock
<1>11. ~yieldOnReturn /\ inHandler \in BOOLEAN
  BY <1>1 DEF PreemptInv, TypeOK
<1>12. \A t \in Ready : /\ remain_burst_time'[t] = remain_burst_time[t]
                        /\ current_burst_time'[t] = current_burst_time[t]
  BY <1>3, <1>6, <1>7
<1> HIDE DEF statusNow, ticksNow, c
<1>13. QED
  BY <1>5, <1>6, <1>7, <1>8, <1>9, <1>10, <1>11, <1>12, DispatchStep

LEMMA FinishStep == SchedInv /\ Finish => SchedInv'
<1> SUFFICES ASSUME SchedInv, Finish PROVE SchedInv'
  OBVIOUS
<1> DEFINE c == currentThread
           statusNow == [status EXCEPT ![c] = "TERMINATED"]
           ticksNow == [tick_cache EXCEPT ![c] = totalTicks]
<1>1. TypeOK /\ Times /\ TicksCharged /\ PreemptInv /\ ~idle /\ ~inHandler
  BY DEF SchedInv, Finish, Executing
<1>2. /\ c \in Thread /\ status[c] = "RUNNING"
      /\ BurstSoFar \in [Thread -> 0 .. MaxTicks]
      /\ \A t \in Thread : t # c => BurstSoFar[t] = current_burst_time[t]
  BY <1>1, BurstIsRan
<1>3. c \notin Ready /\ \A t \in Ready : t \in Thread /\ t # c
  BY <1>2 DEF Ready
<1>4. tick_cache \in [Thread -> 0 .. totalTicks] /\ totalTicks \in Nat /\ totalTicks \in 0 .. totalTicks
  BY <1>1, TypesNat DEF Times
<1>5. /\ statusNow \in [Thread -> Status] /\ ticksNow \in [Thread -> 0 .. totalTicks]
      /\ \A t \in Thread : statusNow[t] # "RUNNING"
      /\ \A t \in Thread : statusNow[t] = "READY" <=> status[t] = "READY"
      /\ \A t \in Ready : ticksNow[t] = tick_cache[t]
  BY <1>1, <1>2, <1>3, <1>4 DEF TypeOK, Times, Status
<1>6. /\ Dispatch(statusNow, ticksNow) /\ level' = "IntOff" /\ inHandler' = inHandler
      /\ current_burst_time' = BurstSoFar
      /\ UNCHANGED <<priority, remain_burst_time, yieldOnReturn, totalTicks, timer_at, ready_at, timed, ran>>
  BY DEF Finish, clock, history
<1>7. \A t \in Thread : statusNow[t] # "TERMINATED" => ran'[t] = current_burst_time'[t]
  <2>1. TAKE t \in Thread
  <2>2. HAVE statusNow[t] # "TERMINATED"
  <2>3. t # c /\ status[t] # "TERMINATED" /\ status[t] # "RUNNING"
    BY <1>1, <1>2, <2>2 DEF Times, TypeOK
  <2>4. ran[t] = current_burst_time[t] + 0 /\ current_burst_time[t] \in Nat
    BY <1>1, <2>3, TypesNat DEF TicksCharged
  <2>5. QED
    BY <1>2, <1>6, <2>3, <2>4
<1>8. ~yieldOnReturn /\ inHandler \in BOOLEAN
  BY <1>1 DEF PreemptInv, TypeOK
<1>9. \A t \in Ready : /\ remain_burst_time'[t] = remain_burst_time[t]
                       /\ current_burst_time'[t] = current_burst_time[t]
  BY <1>2, <1>3, <1>6
<1>10. /\ remain_burst_time' \in [Thread -> 0 .. Unit * MaxTicks]
       /\ current_burst_time' \in [Thread -> 0 .. MaxTicks]
       /\ ran' \in [Thread -> 0 .. totalTicks]
  BY <1>1, <1>2, <1>6 DEF TypeOK, Times
<1> HIDE DEF statusNow, ticksNow, c
<1>11. QED
  BY <1>5, <1>6, <1>7, <1>8, <1>9, <1>10, DispatchStep

LEMMA ReturnToSleepStep == SchedInv /\ ReturnToSleep => SchedInv'
<1> SUFFICES ASSUME SchedInv, ReturnToSleep PROVE SchedInv'
  OBVIOUS
<1>1. TypeOK /\ Times /\ TicksCharged /\ PreemptInv /\ idle
  BY DEF SchedInv, ReturnToSleep
<1>2. tick_cache \in [Thread -> 0 .. totalTicks]
  BY <1>1, TypesNat DEF Times
<1>3. status \in [Thread -> Status] /\ \A t \in Thread : status[t] # "RUNNING"
  BY <1>1 DEF TypeOK, Times
<1>4. /\ Dispatch(status, tick_cache) /\ level' = level /\ inHandler' = FALSE
      /\ UNCHANGED <<priority, current_burst_time, remain_burst_time, yieldOnReturn,
                     totalTicks, timer_at, ready_at, timed, ran>>
  BY DEF ReturnToSleep, clock, history
<1>5. \A t \in Thread : status[t] # "TERMINATED" => ran'[t] = current_burst_time'[t]
  <2>1. TAKE t \in Thread
  <2>2. HAVE status[t] # "TERMINATED"
  <2>3. ran[t] = current_burst_time[t] + 0 /\ current_burst_time[t] \in Nat
    BY <1>1, <1>3, <2>2, TypesNat DEF TicksCharged
  <2>4. QED
    BY <1>4, <2>3
<1>6. /\ remain_burst_time' \in [Thread -> 0 .. Unit * MaxTicks]
      /\ current_burst_time' \in [Thread -> 0 .. MaxTicks]
      /\ ran' \in [Thread -> 0 .. totalTicks]
      /\ ~yieldOnReturn /\ level' \in {"IntOn", "IntOff"} /\ inHandler' \in BOOLEAN
  BY <1>1, <1>4 DEF TypeOK, Times, PreemptInv
<1> DEFINE statusNow == status  ticksNow == tick_cache
<1> HIDE DEF statusNow, ticksNow
<1>7. /\ statusNow \in [Thread -> Status] /\ ticksNow \in [Thread -> 0 .. totalTicks]
      /\ \A t \in Thread : statusNow[t] # "RUNNING"
      /\ \A t \in Thread : statusNow[t] = "READY" <=> status[t] = "READY"
      /\ \A t \in Ready : ticksNow[t] = tick_cache[t]
      /\ Dispatch(statusNow, ticksNow)
      /\ \A t \in Thread : statusNow[t] # "TERMINATED" => ran'[t] = current_burst_time'[t]
  BY <1>2, <1>3, <1>4, <1>5 DEF statusNow, ticksNow
<1>8. \A t \in Ready : /\ remain_burst_time'[t] = remain_burst_time[t]
                       /\ current_burst_time'[t] = current_burst_time[t]
  BY <1>4
<1>9. QED
  BY <1>4, <1>6, <1>7, <1>8, DispatchStep

-----------------------------------------------------------------------------
(* The clock.                                                              *)

LEMMA TickStep ==
    ASSUME SchedInv, Executing, NEW ticks \in Nat \ {0}, OneTick(ticks)
    PROVE  SchedInv'
<1> DEFINE c == currentThread
<1>1. /\ TypeOK /\ Times /\ TicksCharged /\ AgingInv /\ QueuesInv /\ PreemptInv
      /\ ~idle /\ ~inHandler
  BY DEF SchedInv, Executing
<1>2. /\ totalTicks + ticks <= MaxTicks /\ totalTicks' = totalTicks + ticks
      /\ ran' = [ran EXCEPT ![c] = @ + ticks] /\ inHandler' = TRUE /\ level' = "IntOff"
      /\ UNCHANGED <<status, priority, tick_cache, current_burst_time, remain_burst_time,
                     readyList, currentThread, yieldOnReturn, idle, timer_at, ready_at, timed>>
  BY DEF OneTick, threads
<1>3. c \in Thread /\ totalTicks \in Nat /\ totalTicks' \in Nat /\ totalTicks <= totalTicks'
  BY <1>1, <1>2, TypesNat DEF TypeOK
<1>4. /\ ran[c] \in 0 .. totalTicks /\ ran' \in [Thread -> 0 .. totalTicks']
      /\ ran'[c] = ran[c] + ticks
      /\ \A t \in Thread : t # c => ran'[t] = ran[t]
  <2>1. ran[c] \in 0 .. totalTicks /\ ran[c] + ticks \in 0 .. totalTicks'
    BY <1>1, <1>2, <1>3 DEF Times
  <2>2. ran \in [Thread -> 0 .. totalTicks']
    BY <1>1, <1>3 DEF Times
  <2>3. QED
    BY <1>2, <1>3, <2>1, <2>2
<1>5. TypeOK'
  BY <1>1, <1>2, <1>3 DEF TypeOK
<1>6. Times'
  <2>1. ready_at' \in [Thread -> 0 .. totalTicks'] /\ timed' \in 0 .. totalTicks'
    BY <1>1, <1>2, <1>3 DEF Times
  <2>2. \A t \in Thread : tick_cache'[t] <= totalTicks'
    <3>1. TAKE t \in Thread
    <3>2. tick_cache[t] \in Nat /\ tick_cache[t] <= totalTicks /\ tick_cache' = tick_cache
      BY <1>1, <1>2, TypesNat DEF Times
    <3>3. QED
      BY <1>3, <3>2
  <2>3. QED
    BY <1>1, <1>2, <1>4, <2>1, <2>2 DEF Times
<1>7. TicksCharged'
  <2>1. SUFFICES ASSUME NEW t \in Thread, status'[t] # "TERMINATED"
        PROVE ran'[t] = current_burst_time'[t]
                 + IF status'[t] = "RUNNING" THEN totalTicks' - tick_cache'[t] ELSE 0
    BY Zenon DEF TicksCharged
  <2>2. CASE t = c
    <3>1. status[t] = "RUNNING"
      BY <1>1, <2>2 DEF Times
    <3>2. ran[t] = current_burst_time[t] + (totalTicks - tick_cache[t])
      BY <1>1, <3>1 DEF TicksCharged
    <3>3. current_burst_time[t] \in Nat /\ tick_cache[t] \in Nat
      BY <1>1, TypesNat
    <3>4. ran'[t] = current_burst_time'[t] + (totalTicks' - tick_cache'[t])
      BY <1>2, <1>3, <1>4, <2>2, <3>2, <3>3
    <3>5. QED
      BY <1>2, <3>1, <3>4
  <2>3. CASE t # c
    <3>1. status[t] # "RUNNING" /\ status[t] # "TERMINATED"
      BY <1>1, <1>2, <2>1, <2>3 DEF Times
    <3>2. ran[t] = current_burst_time[t] + 0
      BY <1>1, <3>1 DEF TicksCharged
    <3>3. QED
      BY <1>2, <1>4, <2>3, <3>1, <3>2
  <2>4. QED
    BY <2>2, <2>3
<1>8. AgingInv'
  BY <1>1, <1>2 DEF AgingInv
<1>9. QueuesInv' /\ ReadyRemaining' = ReadyRemaining
  BY <1>1, <1>2 DEF QueuesInv, Ready, ReadyRemaining
<1>10. PreemptInv'
  <2>1. ~yieldOnReturn
    BY <1>1 DEF PreemptInv
  <2>2. SUFFICES ASSUME NEW t \in Thread, Urgent(t)'
        PROVE  /\ LevelOf(priority'[currentThread']) = 1
               /\ RunningLeft' < ReadyRemaining'[t] + 2 * Unit
    BY <1>2, <2>1 DEF PreemptInv
  <2>3. Urgent(t)
    BY <1>2, <2>2 DEF Urgent
  <2>4. LevelOf(priority[c]) = 1 /\ RunningLeft < ReadyRemaining[t] + 2 * Unit
    BY <1>1, <2>1, <2>3 DEF PreemptInv
  <2>5. RunningLeft' <= RunningLeft /\ RunningLeft \in Int /\ RunningLeft' \in Int
    <3> DEFINE b == current_burst_time[c]  k == tick_cache[c]  r == remain_burst_time[c]
    <3>1. b \in Nat /\ k \in Nat /\ r \in Nat
      BY <1>1, <1>3, TypesNat
    <3>2. current_burst_time \in [Thread -> Nat]
      BY <1>1, TypesNat
    <3>3. BurstSoFar[c] = b + totalTicks - k
      BY <1>3, <3>2 DEF BurstSoFar
    <3>4. BurstSoFar'[c] = b + totalTicks' - k
      BY <1>2, <1>3, <3>2 DEF BurstSoFar
    <3>5. RunningLeft = r - Unit * BurstSoFar[c] /\ RunningLeft' = r - Unit * BurstSoFar'[c]
      BY <1>2 DEF RunningLeft
    <3> DEFINE u == BurstSoFar[c]  w == BurstSoFar'[c]
    <3> HIDE DEF b, k, r, u, w
    <3>6. u = b + totalTicks - k /\ w = b + totalTicks' - k
      BY <3>3, <3>4 DEF u, w
    <3>7. u \in Int /\ w \in Int /\ u <= w
      <4>1. /\ b + totalTicks - k \in Int /\ b + totalTicks' - k \in Int
            /\ b + totalTicks - k <= b + totalTicks' - k
        <5> DEFINE x == totalTicks  y == totalTicks'
        <5>1. x \in Nat /\ y \in Nat /\ x <= y
          BY <1>3
        <5> HIDE DEF x, y
        <5>2. b + x - k \in Int /\ b + y - k \in Int /\ b + x - k <= b + y - k
          BY <3>1, <5>1
        <5>3. QED
          BY <5>2 DEF x, y
      <4>2. QED
        BY <3>6, <4>1
    <3>8. Unit * u <= Unit * w /\ Unit \in Nat
      BY <3>7, Mono, Constants
    <3>9. RunningLeft = r - Unit * u /\ RunningLeft' = r - Unit * w
      BY <3>5 DEF u, w
    <3>10. QED
      BY <3>1, <3>7, <3>8, <3>9
  <2>6. ReadyRemaining[t] \in Int
    BY <1>1, TypesNat
  <2>7. QED
    BY <1>2, <1>9, <2>4, <2>5, <2>6, Constants
<1>11. QED
  BY <1>5, <1>6, <1>7, <1>8, <1>9, <1>10 DEF SchedInv

LEMMA IdleStep == SchedInv /\ Idle => SchedInv'
<1> SUFFICES ASSUME SchedInv, Idle PROVE SchedInv'
  OBVIOUS
<1>1. /\ TypeOK /\ Times /\ TicksCharged /\ AgingInv /\ QueuesInv /\ PreemptInv /\ idle
  BY DEF SchedInv, Idle
<1>2. /\ totalTicks' \in totalTicks + 1 .. timer_at /\ totalTicks' <= MaxTicks /\ inHandler' = TRUE
      /\ UNCHANGED <<status, priority, tick_cache, current_burst_time, remain_burst_time,
                     readyList, currentThread, level, yieldOnReturn, idle, timer_at,
                     ready_at, ran, timed>>
  BY DEF Idle, threads, history
<1>3. /\ totalTicks \in Nat /\ totalTicks' \in Nat /\ totalTicks <= totalTicks'
      /\ totalTicks' \in 0 .. MaxTicks
  <2>1. totalTicks \in Nat /\ timer_at \in Int
    BY <1>1, TypesNat, Constants DEF TypeOK
  <2>2. QED
    BY <1>2, <2>1, Constants
<1>4. TypeOK'
  BY <1>1, <1>2, <1>3 DEF TypeOK
<1>5. Times'
  <2>1. /\ ready_at' \in [Thread -> 0 .. totalTicks'] /\ timed' \in 0 .. totalTicks'
        /\ ran' \in [Thread -> 0 .. totalTicks']
    BY <1>1, <1>2, <1>3 DEF Times
  <2>2. \A t \in Thread : tick_cache'[t] <= totalTicks'
    BY <1>1, <1>2, <1>3, TypesNat DEF Times
  <2>3. QED
    BY <1>1, <1>2, <2>1, <2>2 DEF Times
<1>6. TicksCharged'
  <2>1. \A t \in Thread : status[t] # "RUNNING"
    BY <1>1 DEF Times
  <2>2. QED
    BY <1>1, <1>2, <2>1 DEF TicksCharged
<1>7. AgingInv'
  BY <1>1, <1>2 DEF AgingInv
<1>8. QueuesInv'
  BY <1>1, <1>2 DEF QueuesInv, Ready, ReadyRemaining
<1>9. PreemptInv'
  BY <1>1, <1>2 DEF PreemptInv
<1>10. QED
  BY <1>4, <1>5, <1>6, <1>7, <1>8, <1>9 DEF SchedInv

-----------------------------------------------------------------------------
(* The timer: ready threads age, move, and may preempt the running one.    *)

\* What aging makes of a thread that has been ready since `since'.
AgedWell(init, prio, tick, since, now) ==
    LET age == (now - tick) \div AGING_TICK
    IN  /\ Exact(init, Min({prio + 10 * age, 149}), tick + AGING_TICK * age, since, now)
        /\ Min({prio + 10 * age, 149}) \in 0 .. 149
        /\ prio <= Min({prio + 10 * age, 149})
        /\ tick + AGING_TICK * age \in 0 .. now

\* Aging keeps a ready thread's priority what its whole wait has earned, and
\* its tick_cache at the end of the last whole period.
LEMMA AgesExactly ==
    ASSUME NEW now \in Nat, NEW last \in 0 .. now, NEW since \in 0 .. now,
           NEW init \in 0 .. 149, NEW prio, NEW tick \in 0 .. now,
           Exact(init, prio, tick, since, last)
    PROVE  AgedWell(init, prio, tick, since, now)
<1> DEFINE a == AGING_TICK
           k0 == IF last < since THEN 0 ELSE (last - since) \div a
           age == (now - tick) \div a
           k1 == (now - since) \div a
<1>1. a \in Nat \ {0}
  BY Constants
<1>2. k0 \in Nat
  <2>1. CASE last < since
    BY <2>1
  <2>2. CASE ~ (last < since)
    <3>1. last - since \in Nat
      BY <2>2
    <3>2. (last - since) \div a \in Nat
      BY <1>1, <3>1, Periods
    <3>3. QED
      BY <2>2, <3>2
  <2>3. QED
    BY <2>1, <2>2
<1>3. prio = Min({init + 10 * k0, 149}) /\ tick = since + a * k0
  BY DEF Exact
<1>4. now - since \in Nat /\ now - tick \in Nat
  OBVIOUS
<1>5. age \in Nat /\ a * age <= now - tick /\ k1 \in Nat
  BY <1>1, <1>4, Periods
<1> HIDE DEF a, k0
<1>6. a * k0 \in Nat
  BY <1>1, <1>2
<1>7. a * k0 <= now - since /\ now - tick = (now - since) - a * k0
  BY <1>3, <1>4, <1>6
<1>8. ((now - since) - a * k0) \div a = k1 - k0
  BY <1>1, <1>2, <1>4, <1>7, PeriodsLeft
<1>9. age = k1 - k0
  BY <1>7, <1>8
<1> HIDE DEF age, k1
<1>10. k1 = k0 + age
  BY <1>2, <1>5, <1>9
<1>11. a * k1 = a * k0 + a * age /\ a * age \in Nat
  BY <1>1, <1>2, <1>5, <1>10
<1>12. tick + a * age = since + a * k1 /\ tick + a * age \in 0 .. now
  BY <1>3, <1>4, <1>5, <1>6, <1>11
<1> DEFINE x == init + 10 * k0  b == 149
<1>13. x \in Nat /\ b \in Nat /\ b = 149
  BY <1>2
<1> HIDE DEF x, b
<1>14. prio = IF x <= b THEN x ELSE b
  <2>1. Min({x, b}) = IF x <= b THEN x ELSE b
    BY <1>13, MinOfTwo
  <2>2. QED
    BY <1>3, <2>1 DEF x, b
<1> DEFINE y == prio + 10 * age  z == init + 10 * k1
<1>15. prio \in Nat /\ prio <= b /\ y \in Nat /\ z \in Nat /\ z = x + 10 * age
  BY <1>2, <1>5, <1>10, <1>13, <1>14 DEF x
<1>16. y = prio + 10 * age
  OBVIOUS
<1> HIDE DEF y, z
<1>17. Min({y, b}) = (IF y <= b THEN y ELSE b) /\ Min({z, b}) = (IF z <= b THEN z ELSE b)
  BY <1>13, <1>15, MinOfTwo
<1>18. Min({y, b}) = Min({z, b}) /\ Min({y, b}) \in 0 .. 149 /\ prio <= Min({y, b})
  BY <1>5, <1>13, <1>14, <1>15, <1>16, <1>17
<1>19. Exact(init, Min({y, b}), tick + a * age, since, now)
  <2>1. ~ (now < since)
    OBVIOUS
  <2>2. QED
    BY <1>12, <1>18, <2>1 DEF Exact, z, b, k1, a
<1>20. QED
  BY <1>12, <1>18, <1>19 DEF AgedWell, y, b, age, a

LEMMA TimerStep == SchedInv /\ TimerInterrupt => SchedInv'
<1> SUFFICES ASSUME SchedInv, TimerInterrupt PROVE SchedInv'
  OBVIOUS
<1>1. TypeOK /\ Times /\ TicksCharged /\ AgingInv /\ QueuesInv /\ PreemptInv
  BY DEF SchedInv
<1>2. /\ inHandler
      /\ priority' = [t \in Thread |-> IF status[t] = "READY" THEN Older(t) ELSE priority[t]]
      /\ tick_cache' = [t \in Thread |-> IF status[t] = "READY" THEN AgedTick(t) ELSE tick_cache[t]]
      /\ readyList' = Aged(priority')
      /\ yieldOnReturn' = (yieldOnReturn \/ (~idle /\ ShouldPreempt(readyList', priority')))
      /\ timer_at' = totalTicks + TimerTicks
      /\ timed' = totalTicks
      /\ UNCHANGED <<status, current_burst_time, remain_burst_time, currentThread,
                     level, inHandler, idle, totalTicks, ready_at, ran>>
  BY DEF TimerInterrupt
<1>3. /\ totalTicks \in Nat /\ totalTicks <= MaxTicks /\ ReadyRemaining \in [Thread -> Int]
      /\ ReadyRemaining' = ReadyRemaining /\ Ready' = Ready /\ Ready \in SUBSET Thread
  <2>1. totalTicks \in Nat /\ ReadyRemaining \in [Thread -> Int]
    BY <1>1, TypesNat
  <2>2. totalTicks <= MaxTicks
    BY <1>1, Constants DEF TypeOK
  <2>3. ReadyRemaining' = ReadyRemaining /\ Ready' = Ready /\ Ready \in SUBSET Thread
    BY <1>2 DEF ReadyRemaining, Ready
  <2>4. QED
    BY <2>1, <2>2, <2>3
<1>4. ASSUME NEW t \in Thread, status[t] = "READY"
      PROVE  /\ Exact(InitPriority[t], Older(t), AgedTick(t), ready_at[t], totalTicks)
             /\ Older(t) \in 0 .. 149 /\ priority[t] <= Older(t)
             /\ AgedTick(t) \in 0 .. totalTicks
  <2> DEFINE init == InitPriority[t]  prio == priority[t]  tick == tick_cache[t]
             since == ready_at[t]  now == totalTicks  last == timed
  <2>1. /\ now \in Nat /\ last \in 0 .. now /\ since \in 0 .. now /\ init \in 0 .. 149
        /\ tick \in 0 .. now /\ Exact(init, prio, tick, since, last)
    BY <1>1, <1>4, TypesNat, ThreadAssumption DEF Times, AgingInv
  <2>2. /\ Older(t) = Min({prio + 10 * ((now - tick) \div AGING_TICK), 149})
        /\ AgedTick(t) = tick + AGING_TICK * ((now - tick) \div AGING_TICK)
    BY DEF Older, AgedTick, Age
  <2> HIDE DEF init, prio, tick, since, now, last
  <2>3. AgedWell(init, prio, tick, since, now)
    BY <2>1, AgesExactly
  <2>4. QED
    BY <2>2, <2>3 DEF AgedWell, init, prio, tick, since, now
<1>5. /\ priority' \in [Thread -> 0 .. 149]
      /\ \A t \in Thread : status[t] = "READY" => priority'[t] = Older(t)
      /\ \A t \in Thread : status[t] # "READY" => priority'[t] = priority[t]
  BY <1>1, <1>2, <1>4 DEF TypeOK
<1>6. /\ tick_cache' \in [Thread -> 0 .. totalTicks]
      /\ \A t \in Thread : status[t] = "READY" => tick_cache'[t] = AgedTick(t)
      /\ \A t \in Thread : status[t] # "READY" => tick_cache'[t] = tick_cache[t]
  <2>1. tick_cache \in [Thread -> 0 .. totalTicks]
    BY <1>1, TypesNat DEF Times
  <2>2. QED
    BY <1>2, <1>4, <2>1
<1>7. QueuesInv'
  <2> DEFINE S == Ready  lists == readyList  old == priority  prio == priority'
             rem == ReadyRemaining
  <2>1. /\ S \in SUBSET Thread /\ old \in [Thread -> 0 .. 149] /\ prio \in [Thread -> 0 .. 149]
        /\ rem \in [Thread -> Int] /\ Holds(lists, Levels(old), S) /\ Shortest(lists[1], rem)
    BY <1>1, <1>3, <1>5 DEF QueuesInv, TypeOK
  <2>2. \A t \in S : prio[t] >= old[t]
    <3>1. TAKE t \in S
    <3>2. t \in Thread /\ status[t] = "READY" /\ prio[t] = Older(t) /\ old[t] \in 0 .. 149
      BY <1>1, <1>5 DEF Ready, TypeOK
    <3>3. QED
      BY <1>4, <3>2
  <2>3. readyList' = Sweep(Sweep(lists, 3, prio, rem), 2, prio, rem)
    BY <1>2 DEF Aged, ReadyRemaining
  <2> HIDE DEF S, lists, old, prio, rem
  <2>4. LET after == Sweep(Sweep(lists, 3, prio, rem), 2, prio, rem)
        IN  Holds(after, Levels(prio), S) /\ Shortest(after[1], rem)
    BY <2>1, <2>2, AgedHolds
  <2>5. Holds(readyList', Levels(prio), S) /\ Shortest(readyList'[1], rem)
    BY <2>3, <2>4
  <2>6. QED
    BY <1>3, <2>5 DEF QueuesInv, S, prio, rem
<1>8. TypeOK'
  <2>1. readyList' \in [1 .. 3 -> Seq(Thread)]
    BY <1>7 DEF QueuesInv, Holds
  <2>2. tick_cache' \in [Thread -> 0 .. MaxTicks]
    BY <1>3, <1>6, Constants
  <2>3. timer_at' \in 0 .. MaxTicks + TimerTicks
    BY <1>2, <1>3, Constants
  <2>4. yieldOnReturn' \in BOOLEAN
    BY <1>1, <1>2 DEF TypeOK, ShouldPreempt
  <2>5. QED
    BY <1>1, <1>2, <1>5, <2>1, <2>2, <2>3, <2>4 DEF TypeOK
<1>9. Times'
  <2>1. timed' \in 0 .. totalTicks' /\ \A t \in Thread : tick_cache'[t] <= totalTicks'
    BY <1>2, <1>3, <1>6
  <2>2. QED
    BY <1>1, <1>2, <2>1 DEF Times
<1>10. TicksCharged'
  <2>1. \A t \in Thread : status[t] = "RUNNING" => tick_cache'[t] = tick_cache[t]
    BY <1>6
  <2>2. QED
    BY <1>1, <1>2, <2>1 DEF TicksCharged
<1>11. AgingInv'
  BY <1>2, <1>4, <1>5, <1>6 DEF AgingInv
<1>12. PreemptInv'
  <2>1. idle' => ~yieldOnReturn'
    BY <1>1, <1>2 DEF PreemptInv
  <2>2. ASSUME ~idle', ~yieldOnReturn', NEW t \in Thread, Urgent(t)'
        PROVE  /\ LevelOf(priority'[currentThread']) = 1
               /\ RunningLeft' < ReadyRemaining'[t] + 2 * Unit
    <3> DEFINE c == currentThread
               l == LevelOf(priority'[c])
               left == remain_burst_time[c] - Unit * BurstSoFar[c]
               q == readyList'[1]
               rem == ReadyRemaining
    <3>1. l # 3 /\ ~ (/\ q # <<>>
                      /\ l = 2 \/ left >= rem[Head(q)] + Unit)
      BY <1>2, <2>2 DEF ShouldPreempt, ReadyRemaining
    <3>2. q \in Seq(Thread) /\ Shortest(q, rem)
      BY <1>3, <1>7 DEF QueuesInv, Holds
    <3>3. t \in Ready' /\ Levels(priority')[t] = 1
      BY <2>2 DEF Urgent, Ready, Levels
    <3>4. PICK i \in 1 .. Len(q) : q[i] = t
      BY <1>7, <3>3 DEF QueuesInv, Holds
    <3>5. q # <<>> /\ Head(q) = q[1] /\ q[1] \in Thread /\ 1 \in 1 .. Len(q)
      BY <3>2, <3>4
    <3>6. l \in 1 .. 3
      BY DEF LevelOf
    <3>7. l = 1 /\ ~ (left >= rem[q[1]] + Unit)
      BY <3>1, <3>5, <3>6
    <3>8. /\ left \in Int /\ rem[q[1]] \in Int /\ rem[t] \in Int
      <4>1. BurstSoFar[c] \in Nat /\ c \in Thread
        BY <1>1, <1>2, <2>2, BurstIsRan, Constants
      <4>2. remain_burst_time[c] \in Nat
        BY <1>1, <4>1, TypesNat
      <4>3. QED
        BY <1>3, <3>5, <4>1, <4>2, Constants
    <3>9. i = 1 \/ rem[q[1]] < rem[t] + Unit
      BY <3>2, <3>4, <3>5 DEF Shortest
    <3>10. left < rem[t] + 2 * Unit
      BY <3>4, <3>7, <3>8, <3>9, Constants
    <3>11. RunningLeft' = left
      <4>1. c \in Thread /\ status[c] = "RUNNING"
        BY <1>1, <1>2, <2>2, BurstIsRan
      <4>2. tick_cache'[c] = tick_cache[c]
        BY <1>6, <4>1
      <4>3. QED
        BY <1>2, <4>2 DEF RunningLeft, BurstSoFar
    <3>12. QED
      BY <1>2, <1>3, <3>7, <3>10, <3>11
  <2>3. QED
    BY <1>2, <2>1, <2>2 DEF PreemptInv
<1>13. QED
  BY <1>7, <1>8, <1>9, <1>10, <1>11, <1>12 DEF SchedInv

-----------------------------------------------------------------------------
(* The theorems.                                                           *)

LEMMA NextSched == SchedInv /\ [Next]_vars => SchedInv'
<1> SUFFICES ASSUME SchedInv, [Next]_vars PROVE SchedInv'
  OBVIOUS
<1>1. level \in {"IntOn", "IntOff"} /\ PreemptInv /\ inHandler \in BOOLEAN /\ yieldOnReturn \in BOOLEAN
  BY DEF SchedInv, TypeOK
<1>2. ASSUME NEW t \in Thread, Fork(t) PROVE SchedInv'
  BY <1>2, ReadyStep DEF Fork
<1>3. ASSUME NEW t \in Thread, Wake(t) PROVE SchedInv'
  BY <1>3, ReadyStep DEF Wake
<1>4. ASSUME NEW t \in Thread, DeviceInterrupt(t) PROVE SchedInv'
  BY <1>1, <1>4, ReadyStep DEF DeviceInterrupt, cpu
<1>5. CASE YieldCall
  BY <1>1, <1>5, YieldStep DEF YieldCall, Executing, PreemptInv
<1>6. CASE Block
  BY <1>6, BlockStep
<1>7. CASE Finish
  BY <1>7, FinishStep
<1>8. CASE Enable
  BY <1>8, TickStep, Constants DEF Enable
<1>9. CASE UserStep
  BY <1>9, TickStep, Constants DEF UserStep
<1>10. CASE Idle
  BY <1>10, IdleStep
<1>11. CASE TimerInterrupt
  BY <1>11, TimerStep
<1>12. CASE ReturnFromInterrupt
  <2>1. ~idle /\ inHandler' = FALSE /\ yieldOnReturn' = FALSE /\ UNCHANGED <<idle, clock>>
    BY <1>12 DEF ReturnFromInterrupt
  <2>2. CASE yieldOnReturn
    <3>1. Yield /\ level' = "IntOff"
      BY <1>12, <2>2 DEF ReturnFromInterrupt
    <3>2. QED
      BY <2>1, <3>1, YieldStep
  <2>3. CASE ~yieldOnReturn
    <3>1. level' = "IntOn" /\ UNCHANGED <<threads, readyList, currentThread, history>>
      BY <1>12, <2>3 DEF ReturnFromInterrupt
    <3>2. UNCHANGED <<status, priority, tick_cache, current_burst_time, remain_burst_time,
                      readyList, currentThread, idle, totalTicks, timer_at, ready_at, ran, timed>>
      BY <2>1, <3>1 DEF threads, history, clock
    <3>3. TypeOK'
      BY <2>1, <3>1, <3>2 DEF SchedInv, TypeOK
    <3>4. Times' /\ TicksCharged' /\ AgingInv'
      BY <3>2 DEF SchedInv, Times, TicksCharged, AgingInv
    <3>5. QueuesInv'
      BY <3>2 DEF SchedInv, QueuesInv, Ready, ReadyRemaining
    <3>6. RunningLeft' = RunningLeft /\ ReadyRemaining' = ReadyRemaining
      BY <3>2 DEF RunningLeft, BurstSoFar, ReadyRemaining
    <3>7. \A t \in Thread : Urgent(t)' <=> Urgent(t)
      BY <3>2 DEF Urgent
    <3>8. PreemptInv'
      BY <1>1, <2>1, <2>3, <3>2, <3>6, <3>7 DEF PreemptInv
    <3>9. QED
      BY <3>3, <3>4, <3>5, <3>8 DEF SchedInv
  <2>4. QED
    BY <2>2, <2>3
<1>13. CASE ReturnToSleep
  BY <1>13, ReturnToSleepStep
<1>14. CASE UNCHANGED vars
  <2>1. UNCHANGED <<status, priority, tick_cache, current_burst_time, remain_burst_time,
                    readyList, currentThread, level, inHandler, yieldOnReturn, idle,
                    totalTicks, timer_at, ready_at, ran, timed>>
    BY <1>14 DEF vars, threads, cpu, clock, history
  <2>2. TypeOK' /\ Times' /\ TicksCharged' /\ AgingInv'
    BY <2>1 DEF SchedInv, TypeOK, Times, TicksCharged, AgingInv
  <2>3. QueuesInv'
    BY <2>1 DEF SchedInv, QueuesInv, Ready, ReadyRemaining
  <2>4. PreemptInv'
    BY <1>1, <2>1 DEF PreemptInv, Urgent, RunningLeft, BurstSoFar, ReadyRemaining
  <2>5. QED
    BY <2>2, <2>3, <2>4 DEF SchedInv
<1>15. QED
  BY <1>2, <1>3, <1>4, <1>5, <1>6, <1>7, <1>8, <1>9, <1>10, <1>11, <1>12, <1>13, <1>14
     DEF Next

\* The scheduler's inductive invariant: types, the clock's histories, the
\* queues as a placement of the ready threads, and preemption as it stands
\* inside interrupt handlers.
THEOREM SchedInvHolds == Spec => []SchedInv
BY InitSched, NextSched, PTL DEF Spec

LEMMA QueuesMean == SchedInv => QueuesHoldReady
<1> SUFFICES ASSUME SchedInv PROVE QueuesHoldReady
  OBVIOUS
<1> DEFINE lv == Levels(priority)
<1>1. /\ lv \in [Thread -> 1 .. 3] /\ Holds(readyList, lv, Ready)
      /\ readyList \in [1 .. 3 -> Seq(Thread)] /\ Times
  BY LevelsType DEF SchedInv, TypeOK, QueuesInv
<1>2. \A l \in 1 .. 3 : DOMAIN readyList[l] = 1 .. Len(readyList[l])
  BY <1>1
<1> HIDE DEF lv
<1>3. ASSUME NEW t \in Thread
      PROVE  Cardinality(Queued(t)) = IF status[t] = "READY" THEN 1 ELSE 0
  <2>1. CASE status[t] = "READY"
    <3>1. t \in Ready /\ lv[t] \in 1 .. 3
      BY <1>1, <2>1 DEF Ready
    <3>2. PICK i \in 1 .. Len(readyList[lv[t]]) : readyList[lv[t]][i] = t
      BY <1>1, <3>1 DEF Holds
    <3>3. \A l \in 1 .. 3 : \A j \in 1 .. Len(readyList[l]) :
             readyList[l][j] = t => l = lv[t] /\ j = i
      BY <1>1, <3>2 DEF Holds
    <3>4. Queued(t) = {<<lv[t], i>>}
      BY <1>2, <3>1, <3>2, <3>3 DEF Queued
    <3>5. QED
      BY <2>1, <3>4, FS_Singleton
  <2>2. CASE status[t] # "READY"
    <3>1. t \notin Ready
      BY <2>2 DEF Ready
    <3>2. \A l \in 1 .. 3 : \A j \in 1 .. Len(readyList[l]) : readyList[l][j] # t
      BY <1>1, <3>1 DEF Holds
    <3>3. Queued(t) = {}
      BY <1>2, <3>2 DEF Queued
    <3>4. QED
      BY <2>2, <3>3, FS_EmptySet
  <2>3. QED
    BY <2>1, <2>2
<1>4. ASSUME NEW l \in 1 .. 3, NEW i \in DOMAIN readyList[l]
      PROVE  LevelOf(priority[readyList[l][i]]) = l
  <2> DEFINE t == readyList[l][i]
  <2>1. t \in Ready /\ lv[t] = l
    BY <1>1, <1>2 DEF Holds
  <2>2. t \in Thread
    BY <2>1 DEF Ready
  <2> HIDE DEF t
  <2>3. Levels(priority)[t] = LevelOf(priority[t])
    BY <2>2 DEF Levels
  <2>4. LevelOf(priority[t]) = l
    BY <2>1, <2>3 DEF lv
  <2>5. QED
    BY <2>4 DEF t
<1>5. {t \in Thread : status[t] = "RUNNING"} = IF idle THEN {} ELSE {currentThread}
  BY <1>1 DEF Times, SchedInv, TypeOK
<1>6. QED
  BY <1>3, <1>4, <1>5 DEF QueuesHoldReady

\* Each ready thread is queued once, in the queue of its priority, and only
\* the current thread runs, for any number of threads.
THEOREM QueuesCorrect == Spec => []QueuesHoldReady
BY SchedInvHolds, QueuesMean, PTL

\* Aging gains a thread 10 for each whole period of its wait, whatever the
\* periods of the timer and of aging.
THEOREM AgingCorrect == Spec => []AgingIsExact
<1>1. SchedInv => AgingIsExact
  BY Zenon DEF SchedInv, AgingInv, AgingIsExact, Exact
<1>2. QED
  BY <1>1, SchedInvHolds, PTL

\* No tick is charged to a thread that did not run in it.
THEOREM ChargesCorrect == Spec => []TicksCharged
<1>1. SchedInv => TicksCharged
  BY DEF SchedInv
<1>2. QED
  BY <1>1, SchedInvHolds, PTL

\* L1 stays in the order of remaining time, up to the truncation.
THEOREM L1InOrder == Spec => []ShortestFirst
<1>1. SchedInv => ShortestFirst
  <2>1. SUFFICES ASSUME SchedInv PROVE ShortestFirst
    OBVIOUS
  <2>2. DOMAIN readyList[1] = 1 .. Len(readyList[1]) /\ Shortest(readyList[1], ReadyRemaining)
    BY <2>1 DEF SchedInv, TypeOK, QueuesInv
  <2>3. QED
    BY <2>2 DEF ShortestFirst, Shortest
<1>2. QED
  BY <1>1, SchedInvHolds, PTL

\* A thread that has been in L1 since before the last timer interrupt is not
\* kept waiting by a lower level, nor by an L1 thread two ticks longer.
THEOREM PreemptionCorrect == Spec => []PreemptsForL1
<1>1. SchedInv => PreemptsForL1
  <2>1. SUFFICES ASSUME SchedInv, Executing, NEW i \in DOMAIN readyList[1],
                        ready_at[readyList[1][i]] < timed
        PROVE  /\ LevelOf(priority[currentThread]) = 1
               /\ RunningLeft < ReadyRemaining[readyList[1][i]] + 2 * Unit
    BY Zenon DEF PreemptsForL1
  <2> DEFINE t == readyList[1][i]
  <2>2. i \in 1 .. Len(readyList[1])
    <3>1. readyList \in [1 .. 3 -> Seq(Thread)]
      BY <2>1 DEF SchedInv, TypeOK
    <3>2. DOMAIN readyList[1] = 1 .. Len(readyList[1])
      BY <3>1
    <3>3. QED
      BY <2>1, <3>2
  <2>3. t \in Ready /\ Levels(priority)[t] = 1
    BY <2>1, <2>2 DEF SchedInv, QueuesInv, Holds
  <2>4. t \in Thread /\ Urgent(t)
    BY <2>1, <2>3 DEF Urgent, Ready, Levels
  <2>5. ~idle /\ ~yieldOnReturn
    BY <2>1 DEF SchedInv, PreemptInv, Executing
  <2>6. QED
    BY <2>1, <2>4, <2>5 DEF SchedInv, PreemptInv
<1>2. QED
  BY <1>1, SchedInvHolds, PTL

\* The types of the scheduler's state, for every value of the constants.
THEOREM SchedTypes == Spec => []TypeOK
<1>1. SchedInv => TypeOK
  BY DEF SchedInv
<1>2. QED
  BY <1>1, SchedInvHolds, PTL
=============================================================================
