----------------------------- MODULE NatLemmas -----------------------------
(***************************************************************************)
(* The least element of a set of numbers, and with it induction up to a    *)
(* bound, for sets and not for predicates; functions by recursion; powers  *)
(* of two, quotients and remainders.                                       *)
(***************************************************************************)
EXTENDS Integers, FiniteSets, FiniteSetTheorems, NaturalsInduction, WellFoundedInduction, TLAPS

\* A set of numbers has a least element.
LEMMA LeastElement ==
    ASSUME NEW T, T \subseteq Nat, T # {}
    PROVE  \E x \in T : \A y \in T : x <= y
<1> DEFINE R == {ss \in Nat \X Nat : ss[1] < ss[2]}
<1>1. IsWellFoundedOn(R, Nat)
  BY NatLessThanWellFounded, Zenon DEF OpToRel
<1> HIDE DEF R
<1>2. PICK x \in T : \A y \in T : ~ <<y, x>> \in R
  BY <1>1, WFMin, Zenon
<1>3. \A y \in T : x \in Nat /\ y \in Nat /\ ~ (y < x)
  BY <1>2 DEF R
<1>4. QED
  BY <1>2, <1>3

\* A set of numbers that holds 0, and n + 1 with each n up to a bound.
LEMMA AllUpTo ==
    ASSUME NEW n \in Nat, NEW T, 0 \in T,
           \A k \in 0 .. n - 1 : k \in T => k + 1 \in T
    PROVE  \A k \in 0 .. n : k \in T
<1> DEFINE Out == {k \in 0 .. n : k \notin T}
<1>1. SUFFICES ASSUME Out # {} PROVE FALSE
  OBVIOUS
<1>2. Out \subseteq Nat
  OBVIOUS
<1>3. PICK x \in Out : \A y \in Out : x <= y
  BY <1>1, <1>2, LeastElement
<1>4. x \in 0 .. n /\ x \notin T /\ x # 0
  BY <1>3
<1>5. x - 1 \in 0 .. n - 1 /\ x - 1 \in 0 .. n /\ ~ (x <= x - 1) /\ (x - 1) + 1 = x
  BY <1>4
<1>6. x - 1 \in T
  BY <1>3, <1>5
<1>7. QED
  BY <1>4, <1>5, <1>6

\* A function g whose value at 0 is a, and whose value at k is what h[k] makes
\* of the one before.
Recursive(g, n, S, a, h) ==
    g \in [0 .. n -> S] /\ g[0] = a /\ \A k \in 1 .. n : g[k] = h[k][g[k - 1]]

\* Each h[k] is a map of S.
Maps(h, n, S) == \A k \in 1 .. n : \A s \in S : h[k][s] \in S

\* There is such a function.
LEMMA Recursion ==
    ASSUME NEW n \in Nat, NEW S, NEW a \in S, NEW h, Maps(h, n, S)
    PROVE  \E g : Recursive(g, n, S, a, h)
<1> USE DEF Maps
<1> DEFINE Good(m, g) == /\ g \in [0 .. m -> S] /\ g[0] = a
                         /\ \A k \in 1 .. m : g[k] = h[k][g[k - 1]]
           T == {m \in 0 .. n : \E g : Good(m, g)}
<1>1. 0 \in T
  <2>1. Good(0, [k \in 0 .. 0 |-> a])
    OBVIOUS
  <2> HIDE DEF Good
  <2>2. QED
    BY <2>1
<1>2. ASSUME NEW m \in 0 .. n - 1, m \in T PROVE m + 1 \in T
  <2>1. PICK g : Good(m, g)
    BY <1>2
  <2> DEFINE f == [k \in 0 .. m + 1 |-> IF k = m + 1 THEN h[k][g[m]] ELSE g[k]]
  <2>2. g[m] \in S /\ m + 1 \in 1 .. n
    BY <2>1
  <2>3. h[m + 1][g[m]] \in S
    BY <2>2
  <2>4. f \in [0 .. m + 1 -> S]
    BY <2>1, <2>3
  <2>5. f[0] = a
    BY <2>1
  <2>6. ASSUME NEW k \in 1 .. m + 1 PROVE f[k] = h[k][f[k - 1]]
    <3>1. CASE k = m + 1
      BY <2>1, <3>1
    <3>2. CASE k # m + 1
      <4>1. k \in 1 .. m /\ k - 1 \in 0 .. m /\ k - 1 # m + 1
        BY <3>2
      <4>2. QED
        BY <2>1, <4>1
    <3>3. QED
      BY <3>1, <3>2
  <2>7. Good(m + 1, f)
    BY <2>4, <2>5, <2>6
  <2>8. m + 1 \in 0 .. n
    OBVIOUS
  <2> HIDE DEF Good, f
  <2>9. QED
    BY <2>7, <2>8
<1> HIDE DEF Good
<1>3. \A k \in 0 .. n : k \in T
  <2> HIDE DEF T
  <2>1. QED
    BY <1>1, <1>2, AllUpTo
<1>4. n \in T
  BY <1>3
<1>5. QED
  BY <1>4 DEF Good, Recursive

-----------------------------------------------------------------------------
(* Powers of two and division.                                             *)

\* The powers of two, from one to the next.
LEMMA TwoTo ==
    ASSUME NEW n \in Nat
    PROVE  2 ^ n \in Nat \ {0} /\ 2 ^ (n + 1) = 2 * 2 ^ n
<1> DEFINE S == SUBSET (1 .. n)
           T == {s \cup {n + 1} : s \in S}
<1>1. IsFiniteSet(1 .. n) /\ Cardinality(1 .. n) = n
  BY FS_Interval
<1>2. IsFiniteSet(S) /\ Cardinality(S) = 2 ^ n
  BY <1>1, FS_SUBSET
<1>3. IsFiniteSet(1 .. n + 1) /\ Cardinality(1 .. n + 1) = n + 1
  BY FS_Interval
<1>4. IsFiniteSet(SUBSET (1 .. n + 1)) /\ Cardinality(SUBSET (1 .. n + 1)) = 2 ^ (n + 1)
  BY <1>3, FS_SUBSET
<1>5. SUBSET (1 .. n + 1) = S \cup T
  <2>1. ASSUME NEW x \in SUBSET (1 .. n + 1) PROVE x \in S \cup T
    <3>1. CASE n + 1 \in x
      <4>1. x \ {n + 1} \in S /\ x = (x \ {n + 1}) \cup {n + 1}
        BY <3>1
      <4>2. QED
        BY <4>1
    <3>2. CASE n + 1 \notin x
      BY <3>2
    <3>3. QED
      BY <3>1, <3>2
  <2>2. \A x \in S \cup T : x \in SUBSET (1 .. n + 1)
    OBVIOUS
  <2>3. QED
    BY <2>1, <2>2
<1>6. S \cap T = {}
  <2>1. \A s \in S : n + 1 \notin s
    OBVIOUS
  <2>2. \A t \in T : n + 1 \in t
    OBVIOUS
  <2> HIDE DEF S, T
  <2>3. QED
    BY <2>1, <2>2
<1>7. ExistsBijection(S, T)
  <2> DEFINE f == [s \in S |-> s \cup {n + 1}]
  <2>1. f \in [S -> T]
    OBVIOUS
  <2>2. \A a, b \in S : f[a] = f[b] => a = b
    <3>1. SUFFICES ASSUME NEW a \in S, NEW b \in S, a \cup {n + 1} = b \cup {n + 1} PROVE a = b
      OBVIOUS
    <3>2. n + 1 \notin a /\ n + 1 \notin b
      OBVIOUS
    <3> HIDE DEF S
    <3>3. QED
      BY <3>1, <3>2
  <2>3. \A t \in T : \E s \in S : f[s] = t
    OBVIOUS
  <2> HIDE DEF S, T, f
  <2>4. f \in Bijection(S, T)
    BY <2>1, <2>2, <2>3 DEF Bijection, Injection, Surjection, IsInjective
  <2>5. QED
    BY <2>4 DEF ExistsBijection
<1> HIDE DEF S, T
<1>8. IsFiniteSet(T) /\ Cardinality(T) = Cardinality(S)
  BY <1>2, <1>7, FS_Bijection
<1>9. IsFiniteSet(S \cap T) /\ Cardinality(S \cap T) = 0
  BY <1>6, FS_EmptySet
<1>10. Cardinality(S \cup T) = Cardinality(S) + Cardinality(T) - Cardinality(S \cap T)
  BY <1>2, <1>8, FS_Union
<1>11. {} \in S /\ Cardinality(S) \in Nat
  BY <1>2, FS_CardinalityType DEF S
<1>12. Cardinality(S) # 0
  BY <1>2, <1>11, FS_EmptySet
<1>13. Cardinality(S \cup T) = 2 ^ (n + 1)
  BY <1>4, <1>5
<1>14. 2 ^ n \in Nat /\ 2 ^ n # 0
  BY <1>2, <1>11, <1>12
<1>15. 2 ^ (n + 1) = 2 ^ n + 2 ^ n - 0
  BY <1>2, <1>8, <1>9, <1>10, <1>13
<1>16. QED
  BY <1>14, <1>15

\* The product of two powers.
LEMMA TwoToSum ==
    ASSUME NEW m \in Nat, NEW n \in Nat
    PROVE  2 ^ (m + n) = 2 ^ m * 2 ^ n
<1> DEFINE T == {k \in 0 .. n : 2 ^ (m + k) = 2 ^ m * 2 ^ k}
<1>1. 0 \in T
  <2>1. 2 ^ 0 = 1 /\ m + 0 = m /\ 2 ^ m \in Nat
    BY TwoTo
  <2>2. QED
    BY <2>1
<1>2. ASSUME NEW k \in 0 .. n - 1, k \in T PROVE k + 1 \in T
  <2>1. 2 ^ (m + k) = 2 ^ m * 2 ^ k
    BY <1>2
  <2>2. 2 ^ m \in Nat /\ 2 ^ k \in Nat /\ 2 ^ (k + 1) = 2 * 2 ^ k
    BY TwoTo
  <2>3. m + k \in Nat
    OBVIOUS
  <2>4. 2 ^ (m + k + 1) = 2 * 2 ^ (m + k)
    BY <2>3, TwoTo
  <2>5. 2 * (2 ^ m * 2 ^ k) = 2 ^ m * (2 * 2 ^ k)
    BY <2>2
  <2>6. m + k + 1 = m + (k + 1) /\ k + 1 \in 0 .. n
    OBVIOUS
  <2>7. 2 ^ (m + (k + 1)) = 2 ^ m * 2 ^ (k + 1)
    BY <2>1, <2>2, <2>4, <2>5, <2>6
  <2>8. QED
    BY <2>6, <2>7
<1> HIDE DEF T
<1>3. n \in T
  BY <1>1, <1>2, AllUpTo
<1>4. QED
  BY <1>3 DEF T

\* A quotient and a remainder.
LEMMA Division ==
    ASSUME NEW a \in Int, NEW d \in Nat \ {0}
    PROVE  /\ a \div d \in Int /\ a % d \in 0 .. d - 1
           /\ a = (a \div d) * d + (a % d)
OBVIOUS

\* There is only one.
LEMMA DivisionIs ==
    ASSUME NEW d \in Nat \ {0}, NEW q \in Int, NEW r \in 0 .. d - 1
    PROVE  (q * d + r) \div d = q /\ (q * d + r) % d = r
<1> DEFINE a == q * d + r
<1>0. a \in Int /\ a = q * d + r
  OBVIOUS
<1> HIDE DEF a
<1> DEFINE Q == a \div d
           R == a % d
<1>1. Q \in Int /\ R \in 0 .. d - 1 /\ a = Q * d + R
  BY <1>0, Division
<1> HIDE DEF Q, R
<1>2. (Q - q) * d = r - R
  BY <1>0, <1>1
<1>3. ~ (Q - q >= 1)
  <2>1. SUFFICES ASSUME Q - q >= 1 PROVE FALSE
    OBVIOUS
  <2>2. (Q - q) * d >= d
    BY <1>1, <2>1
  <2>3. QED
    BY <1>1, <1>2, <2>2
<1>4. ~ (Q - q <= -1)
  <2>1. SUFFICES ASSUME Q - q <= -1 PROVE FALSE
    OBVIOUS
  <2>2. (Q - q) * d <= -d
    BY <1>1, <2>1
  <2>3. QED
    BY <1>1, <1>2, <2>2
<1>5. Q = q
  BY <1>1, <1>3, <1>4
<1>6. R = r
  BY <1>0, <1>1, <1>5
<1>7. QED
  BY <1>5, <1>6 DEF a, Q, R

\* A multiple of the divisor does not change the remainder.
LEMMA ModAdd ==
    ASSUME NEW a \in Int, NEW k \in Int, NEW d \in Nat \ {0}
    PROVE  (a + k * d) % d = a % d
<1> DEFINE q == a \div d
           r == a % d
<1>1. q \in Int /\ r \in 0 .. d - 1 /\ a = q * d + r
  BY Division
<1> HIDE DEF q, r
<1>2. a + k * d = (q + k) * d + r
  BY <1>1
<1>3. (q + k) \in Int
  BY <1>1
<1>4. ((q + k) * d + r) % d = r
  BY <1>1, <1>3, DivisionIs
<1>5. QED
  BY <1>2, <1>4 DEF r

\* Numbers that differ by a multiple of the divisor have the same remainder.
LEMMA ModSame ==
    ASSUME NEW a \in Int, NEW b \in Int, NEW k \in Int, NEW d \in Nat \ {0}, a = b + k * d
    PROVE  a % d = b % d
BY ModAdd

\* What is less than the divisor is its own remainder.
LEMMA ModSmall ==
    ASSUME NEW d \in Nat \ {0}, NEW r \in 0 .. d - 1
    PROVE  r % d = r /\ r \div d = 0
<1>1. 0 * d + r = r /\ 0 \in Int
  OBVIOUS
<1>2. QED
  BY <1>1, DivisionIs

\* A remainder of a remainder, and of a multiple.
LEMMA ModMod ==
    ASSUME NEW a \in Int, NEW c \in Nat \ {0}, NEW d \in Nat \ {0}
    PROVE  /\ (a % (c * d)) % d = a % d
           /\ (a * c) % (c * d) = (a % d) * c
<1> DEFINE e == c * d
<1>0. e \in Nat \ {0}
  OBVIOUS
<1>9. e = c * d
  OBVIOUS
<1> HIDE DEF e
<1> DEFINE q == a \div e
           r == a % e
           p == a \div d
           s == a % d
<1>1. q \in Int /\ r \in Int /\ a = q * e + r
  BY <1>0, Division
<1>2. p \in Int /\ s \in 0 .. d - 1 /\ a = p * d + s
  BY Division
<1> HIDE DEF q, r, p, s
<1>3. r % d = a % d
  <2>1. \E k \in Int : a = r + k * d
    <3>1. q * (c * d) = (q * c) * d /\ q * c \in Int
      BY <1>1
    <3>2. QED
      BY <1>9, <1>1, <3>1
  <2>2. PICK k \in Int : a = r + k * d
    BY <2>1
  <2>3. r \in Int
    BY <1>1
  <2>4. (r + k * d) % d = r % d
    BY <2>3, ModAdd
  <2>5. QED
    BY <2>2, <2>4
<1>4. (a * c) % e = s * c
  <2>1. a * c = p * e + s * c
    BY <1>9, <1>2
  <2>2. s * c \in 0 .. e - 1
    <3>1. s * c \in Int /\ 0 <= s * c
      BY <1>2
    <3>2. (d - 1 - s) * c >= 0
      BY <1>2
    <3>3. d * c - c - s * c >= 0
      BY <1>2, <3>2
    <3>4. QED
      BY <1>9, <1>0, <3>1, <3>3
  <2>3. (p * e + s * c) % e = s * c
    BY <1>0, <1>2, <2>2, DivisionIs
  <2>4. QED
    BY <2>1, <2>3
<1>5. QED
  BY <1>9, <1>3, <1>4 DEF r, s
=============================================================================
