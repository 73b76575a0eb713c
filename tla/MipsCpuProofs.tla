--------------------------- MODULE MipsCpuProofs ---------------------------
(***************************************************************************)
(* The machine of MipsCpu, for every program, every number of threads and  *)
(* every width of a byte: what its threads see of one another and of loads *)
(* in progress, and that the machine is the MIPS of module Mips for each   *)
(* thread whose program obeys what the MIPS asks of programs.              *)
(*                                                                         *)
(* The second is proved bottom up: the arithmetic of words and bytes, each *)
(* class of instructions, a whole instruction, the decoding of instruction *)
(* words, and at last the steps of the machine.                            *)
(***************************************************************************)
EXTENDS MipsCpu, NatLemmas, TLAPS

-----------------------------------------------------------------------------
(* Words.                                                                  *)

\* The value of the sign bit.
SignBit == 2 ^ (Width - 1)

\* The bits of a word and of a byte.
LEMMA WidthIs == Width \in Nat /\ Width >= 4 /\ ByteBits \in Nat \ {0}
BY WordAssumption DEF Width

\* The weights of the bytes multiply, and the word is as large as the weight
\* of a fifth byte.
LEMMA Weights ==
    /\ \A k \in Nat : Weight(k) \in Nat \ {0}
    /\ \A j, k \in Nat : Weight(j + k) = Weight(j) * Weight(k)
    /\ Weight(0) = 1 /\ Weight(4) = WordSize
<1>1. ASSUME NEW k \in Nat PROVE k * ByteBits \in Nat /\ Weight(k) \in Nat \ {0}
  <2>1. k * ByteBits \in Nat
    BY WidthIs
  <2>2. QED
    BY <2>1, TwoTo DEF Weight
<1>2. ASSUME NEW j \in Nat, NEW k \in Nat PROVE Weight(j + k) = Weight(j) * Weight(k)
  <2>1. (j + k) * ByteBits = j * ByteBits + k * ByteBits
    BY WidthIs
  <2>2. j * ByteBits \in Nat /\ k * ByteBits \in Nat
    BY <1>1
  <2>3. 2 ^ (j * ByteBits + k * ByteBits) = 2 ^ (j * ByteBits) * 2 ^ (k * ByteBits)
    BY <2>2, TwoToSum
  <2>4. QED
    BY <2>1, <2>3 DEF Weight
<1>3. Weight(0) = 1
  <2>1. 0 * ByteBits = 0 /\ 2 ^ 0 = 1
    BY WidthIs
  <2>2. QED
    BY <2>1 DEF Weight
<1>4. Weight(4) = WordSize
  BY DEF Weight, WordSize, Width
<1>5. QED
  BY <1>1, <1>2, <1>3, <1>4

\* A word has two halves, without and with the sign bit.
LEMMA Halving == SignBit \in Nat \ {0} /\ WordSize = 2 * SignBit /\ WordSize \in Nat \ {0}
<1>1. Width - 1 \in Nat /\ (Width - 1) + 1 = Width
  BY WidthIs
<1>2. QED
  BY <1>1, TwoTo DEF SignBit, WordSize

\* Words are what ToWord makes, and it leaves them alone.
LEMMA ToWordIs ==
    ASSUME NEW n \in Int
    PROVE  ToWord(n) \in Word /\ (n \in Word => ToWord(n) = n)
<1>1. WordSize \in Nat \ {0}
  BY Halving
<1>2. n % WordSize \in 0 .. WordSize - 1
  BY <1>1, Division
<1>3. n \in Word => n % WordSize = n
  BY <1>1, ModSmall DEF Word
<1>4. QED
  BY <1>2, <1>3 DEF ToWord, Word

\* Numbers that differ by a multiple of the size of a word.
LEMMA ToWordSame ==
    ASSUME NEW a \in Int, NEW b \in Int, NEW k \in Int, a = b + k * WordSize
    PROVE  ToWord(a) = ToWord(b)
<1>1. WordSize \in Nat \ {0}
  BY Halving
<1> DEFINE d == WordSize
<1>2. d \in Nat \ {0} /\ a = b + k * d
  BY <1>1
<1> HIDE DEF d
<1>3. a % d = b % d
  <2>1. (b + k * d) % d = b % d
    BY <1>2, ModAdd
  <2>2. QED
    BY <1>2, <2>1
<1>4. QED
  BY <1>3 DEF ToWord, d

\* The value of a word as an int.
LEMMA SignedIs ==
    ASSUME NEW x \in Word
    PROVE  /\ Signed(x) \in -SignBit .. SignBit - 1
           /\ Negative(x) \in BOOLEAN
           /\ Negative(x) <=> Signed(x) < 0
           /\ ~ Negative(x) => Signed(x) = x
           /\ Negative(x) => Signed(x) = x - WordSize
           /\ ToWord(Signed(x)) = x
<1>1. Negative(x) <=> x >= SignBit
  BY DEF Negative, SignBit
<1>2. x \in 0 .. WordSize - 1
  BY DEF Word
<1>3. /\ Signed(x) \in -SignBit .. SignBit - 1
      /\ Negative(x) \in BOOLEAN
      /\ Negative(x) <=> Signed(x) < 0
      /\ ~ Negative(x) => Signed(x) = x
      /\ Negative(x) => Signed(x) = x - WordSize
  BY <1>1, <1>2, Halving DEF Signed, Negative
<1>4. ToWord(Signed(x)) = ToWord(x)
  <2>1. Signed(x) = x + 0 * WordSize \/ Signed(x) = x + (-1) * WordSize
    BY <1>2, <1>3, Halving
  <2>2. x \in Int /\ Signed(x) \in Int /\ -1 \in Int /\ 0 \in Int
    BY <1>2, <1>3, Halving
  <2>3. QED
    BY <2>1, <2>2, ToWordSame
<1>5. ToWord(x) = x
  BY <1>2, ToWordIs
<1>6. QED
  BY <1>3, <1>4, <1>5

\* Words with the same value are the same.
LEMMA SignedInjective ==
    ASSUME NEW x \in Word, NEW y \in Word
    PROVE  Signed(x) = Signed(y) <=> x = y
<1>1. Signed(x) = Signed(y) => x = y
  BY SignedIs
<1>2. QED
  BY <1>1

\* Which word a number makes that is off by less than the size of one.
LEMMA ToWordNear ==
    ASSUME NEW n \in Int
    PROVE  /\ n \in Word => ToWord(n) = n
           /\ n >= WordSize /\ n < 2 * WordSize => ToWord(n) = n - WordSize
           /\ n < 0 /\ n >= -WordSize => ToWord(n) = n + WordSize
<1>1. WordSize \in Nat \ {0}
  BY Halving
<1>2. ASSUME n >= WordSize, n < 2 * WordSize PROVE ToWord(n) = n - WordSize
  <2>1. n - WordSize \in Word /\ n = (n - WordSize) + 1 * WordSize
    BY <1>1, <1>2 DEF Word
  <2>2. n - WordSize \in Int
    BY <1>1
  <2>3. ToWord(n) = ToWord(n - WordSize)
    BY <2>1, <2>2, ToWordSame
  <2>4. QED
    BY <2>1, <2>2, <2>3, ToWordIs
<1>3. ASSUME n < 0, n >= -WordSize PROVE ToWord(n) = n + WordSize
  <2>1. n + WordSize \in Word /\ n = (n + WordSize) + (-1) * WordSize
    BY <1>1, <1>3 DEF Word
  <2>2. n + WordSize \in Int /\ -1 \in Int
    BY <1>1
  <2>3. ToWord(n) = ToWord(n + WordSize)
    BY <2>1, <2>2, ToWordSame
  <2>4. QED
    BY <2>1, <2>2, <2>3, ToWordIs
<1>4. QED
  BY <1>2, <1>3, ToWordIs

\* Sums and differences of ints and of unsigned ints are the same words.
LEMMA SumsAgree ==
    ASSUME NEW x \in Word, NEW y \in Word
    PROVE  /\ ToWord(Signed(x) + Signed(y)) = ToWord(x + y)
           /\ ToWord(Signed(x) - Signed(y)) = ToWord(x - y)
<1>1. x \in Int /\ y \in Int /\ Signed(x) \in Int /\ Signed(y) \in Int /\ WordSize \in Int
  BY SignedIs, Halving DEF Word
<1>2. PICK j \in Int : Signed(x) = x + j * WordSize
  <2>1. Signed(x) = x + 0 * WordSize \/ Signed(x) = x + (-1) * WordSize
    BY <1>1, SignedIs
  <2>2. 0 \in Int /\ -1 \in Int
    OBVIOUS
  <2>3. QED
    BY <2>1, <2>2
<1>3. PICK k \in Int : Signed(y) = y + k * WordSize
  <2>1. Signed(y) = y + 0 * WordSize \/ Signed(y) = y + (-1) * WordSize
    BY <1>1, SignedIs
  <2>2. 0 \in Int /\ -1 \in Int
    OBVIOUS
  <2>3. QED
    BY <2>1, <2>2
<1>4. /\ Signed(x) + Signed(y) = (x + y) + (j + k) * WordSize
      /\ Signed(x) - Signed(y) = (x - y) + (j - k) * WordSize
  BY <1>1, <1>2, <1>3
<1>5. /\ Signed(x) + Signed(y) \in Int /\ x + y \in Int /\ j + k \in Int
      /\ Signed(x) - Signed(y) \in Int /\ x - y \in Int /\ j - k \in Int
  BY <1>1
<1>6. QED
  BY <1>4, <1>5, ToWordSame

\* The tests of ADD and SUB find out whether the exact result is an int.
LEMMA OverflowTests ==
    ASSUME NEW x \in Word, NEW y \in Word
    PROVE  /\ (Signed(x) + Signed(y) # Signed(ToWord(Signed(x) + Signed(y))))
                <=> (~ SignsDiffer(x, y) /\ SignsDiffer(x, ToWord(x + y)))
           /\ (Signed(x) - Signed(y) # Signed(ToWord(Signed(x) - Signed(y))))
                <=> (SignsDiffer(x, y) /\ SignsDiffer(x, ToWord(x - y)))
<1> DEFINE s == ToWord(x + y)
           d == ToWord(x - y)
<1>1. /\ x \in 0 .. WordSize - 1 /\ y \in 0 .. WordSize - 1
      /\ WordSize \in Nat \ {0} /\ SignBit \in Nat /\ WordSize = 2 * SignBit
  BY Halving DEF Word
<1>2. x + y \in Int /\ x - y \in Int
  BY <1>1
<1>3. s \in Word /\ (x + y < WordSize => s = x + y) /\ (x + y >= WordSize => s = x + y - WordSize)
  BY <1>1, <1>2, ToWordIs, ToWordNear DEF Word
<1>4. d \in Word /\ (x - y >= 0 => d = x - y) /\ (x - y < 0 => d = x - y + WordSize)
  BY <1>1, <1>2, ToWordIs, ToWordNear DEF Word
<1>5. ToWord(Signed(x) + Signed(y)) = s /\ ToWord(Signed(x) - Signed(y)) = d
  BY SumsAgree
<1> HIDE DEF s, d
<1>6. \A z \in Word : /\ Negative(z) <=> z >= SignBit
                      /\ Signed(z) = IF z >= SignBit THEN z - WordSize ELSE z
  BY DEF Negative, Signed, SignBit
<1>7. s \in 0 .. WordSize - 1 /\ d \in 0 .. WordSize - 1
  BY <1>3, <1>4 DEF Word
<1>8. (Signed(x) + Signed(y) # Signed(s)) <=> ((x >= SignBit <=> y >= SignBit) /\ ~ (x >= SignBit <=> s >= SignBit))
  <2>1. /\ Signed(x) = IF x >= SignBit THEN x - WordSize ELSE x
        /\ Signed(y) = IF y >= SignBit THEN y - WordSize ELSE y
        /\ Signed(s) = IF s >= SignBit THEN s - WordSize ELSE s
    BY <1>3, <1>6
  <2>2. QED
    BY <2>1, <1>1, <1>3, <1>7
<1>9. (Signed(x) - Signed(y) # Signed(d)) <=> (~ (x >= SignBit <=> y >= SignBit) /\ ~ (x >= SignBit <=> d >= SignBit))
  <2>1. /\ Signed(x) = IF x >= SignBit THEN x - WordSize ELSE x
        /\ Signed(y) = IF y >= SignBit THEN y - WordSize ELSE y
        /\ Signed(d) = IF d >= SignBit THEN d - WordSize ELSE d
    BY <1>4, <1>6
  <2>2. QED
    BY <2>1, <1>1, <1>4, <1>7
<1>10. \A u, v \in Word : SignsDiffer(u, v) <=> ~ (u >= SignBit <=> v >= SignBit)
  BY DEF SignsDiffer, Negative, SignBit
<1>11. QED
  BY <1>3, <1>4, <1>5, <1>8, <1>9, <1>10 DEF s, d

-----------------------------------------------------------------------------
(* And, Or and Xor.                                                        *)

\* The numbers that Bitwise adds up, for bits c.
Adds(low, c) == low = [i \in 0 .. Width |->
                         IF i = 0 THEN 0 ELSE low[i - 1] + c[i - 1] * 2 ^ (i - 1)]

\* There are such numbers.
LEMMA AddsExists ==
    ASSUME NEW c \in [0 .. Width - 1 -> {0, 1}]
    PROVE  \E low : Adds(low, c)
<1> DEFINE h == [k \in 1 .. Width |-> [s \in Int |-> s + c[k - 1] * 2 ^ (k - 1)]]
<1>1. ASSUME NEW k \in 1 .. Width, NEW s \in Int PROVE h[k][s] \in Int
  <2>1. k - 1 \in 0 .. Width - 1 /\ k - 1 \in Nat
    BY WidthIs
  <2>2. c[k - 1] \in Int /\ 2 ^ (k - 1) \in Int
    BY <2>1, TwoTo
  <2>3. c[k - 1] * 2 ^ (k - 1) \in Int
    BY <2>2
  <2>4. QED
    BY <2>3
<1> HIDE DEF h
<1>2. Maps(h, Width, Int)
  BY <1>1 DEF Maps
<1>5. PICK g : Recursive(g, Width, Int, 0, h)
  <2>1. 0 \in Int /\ Width \in Nat
    BY WidthIs
  <2>2. QED
    BY <1>2, <2>1, Recursion, Zenon
<1>6. g \in [0 .. Width -> Int] /\ g[0] = 0 /\ \A k \in 1 .. Width : g[k] = h[k][g[k - 1]]
  BY <1>5 DEF Recursive
<1>3. ASSUME NEW i \in 0 .. Width
      PROVE  g[i] = IF i = 0 THEN 0 ELSE g[i - 1] + c[i - 1] * 2 ^ (i - 1)
  <2>1. CASE i = 0
    BY <1>6, <2>1
  <2>2. CASE i # 0
    <3>1. i \in 1 .. Width /\ i - 1 \in 0 .. Width
      BY <2>2, WidthIs
    <3>2. g[i] = h[i][g[i - 1]] /\ g[i - 1] \in Int
      BY <1>6, <3>1
    <3>3. QED
      BY <2>2, <3>1, <3>2 DEF h
  <2>3. QED
    BY <2>1, <2>2
<1>4. g = [i \in 0 .. Width |-> IF i = 0 THEN 0 ELSE g[i - 1] + c[i - 1] * 2 ^ (i - 1)]
  BY <1>3, <1>6
<1>7. QED
  BY <1>4 DEF Adds

\* The sum is a word.
LEMMA AddsWord ==
    ASSUME NEW c \in [0 .. Width - 1 -> {0, 1}], NEW low, Adds(low, c)
    PROVE  low[Width] \in Word
<1>1. low[0] = 0
  BY WidthIs DEF Adds
<1>2. \A k \in 1 .. Width : low[k] = low[k - 1] + c[k - 1] * 2 ^ (k - 1)
  BY WidthIs DEF Adds
<1> DEFINE T == {k \in 0 .. Width : low[k] \in 0 .. 2 ^ k - 1}
<1>3. 0 \in T
  <2>1. 2 ^ 0 = 1
    OBVIOUS
  <2>2. QED
    BY <1>1, <2>1, WidthIs
<1>4. ASSUME NEW k \in 0 .. Width - 1, k \in T PROVE k + 1 \in T
  <2>1. k + 1 \in 1 .. Width /\ (k + 1) - 1 = k /\ k \in Nat
    BY WidthIs
  <2>2. low[k + 1] = low[k] + c[k] * 2 ^ k
    BY <1>2, <2>1
  <2>3. c[k] \in {0, 1} /\ low[k] \in 0 .. 2 ^ k - 1
    BY <1>4
  <2>4. 2 ^ k \in Nat \ {0} /\ 2 ^ (k + 1) = 2 * 2 ^ k
    BY <2>1, TwoTo
  <2>5. c[k] * 2 ^ k = 0 \/ c[k] * 2 ^ k = 2 ^ k
    BY <2>3, <2>4
  <2>6. low[k + 1] \in 0 .. 2 ^ (k + 1) - 1
    BY <2>2, <2>3, <2>4, <2>5
  <2>7. k + 1 \in 0 .. Width
    BY WidthIs
  <2>8. QED
    BY <2>6, <2>7
<1>5. Width \in T
  <2> HIDE DEF T
  <2>1. QED
    BY <1>3, <1>4, AllUpTo, WidthIs
<1>6. QED
  BY <1>5 DEF Word, WordSize

\* The bits of a word are 0 or 1.
LEMMA BitIs ==
    ASSUME NEW x \in Word, NEW i \in Nat
    PROVE  Bit(x, i) \in {0, 1}
<1>1. x \in Int /\ 2 ^ i \in Nat \ {0}
  BY TwoTo DEF Word
<1>2. x \div 2 ^ i \in Int
  BY <1>1, Division
<1>3. QED
  BY <1>2 DEF Bit

\* The bitwise operators make words of words.
LEMMA AndWord ==
    ASSUME NEW x \in Word, NEW y \in Word
    PROVE  And(x, y) \in Word
<1> DEFINE c == [i \in 0 .. Width - 1 |-> Bit(x, i) * Bit(y, i)]
           P(low) == low = [i \in 0 .. Width |->
                              IF i = 0 THEN 0
                              ELSE low[i - 1] + Bit(x, i - 1) * Bit(y, i - 1) * 2 ^ (i - 1)]
           low0 == CHOOSE low : P(low)
<1>1. And(x, y) = low0[Width]
  BY DEF And, Bitwise
<1>2. c \in [0 .. Width - 1 -> {0, 1}]
  BY BitIs, WidthIs
<1>3. ASSUME NEW low PROVE P(low) <=> Adds(low, c)
  <2>1. \A i \in 0 .. Width : i # 0 => c[i - 1] = Bit(x, i - 1) * Bit(y, i - 1)
    BY WidthIs
  <2> HIDE DEF c
  <2>2. [i \in 0 .. Width |-> IF i = 0 THEN 0
                              ELSE low[i - 1] + Bit(x, i - 1) * Bit(y, i - 1) * 2 ^ (i - 1)]
        = [i \in 0 .. Width |-> IF i = 0 THEN 0 ELSE low[i - 1] + c[i - 1] * 2 ^ (i - 1)]
    BY <2>1
  <2>3. QED
    BY <2>2, Zenon DEF Adds
<1> HIDE DEF P, c
<1>4. P(low0)
  BY <1>2, <1>3, AddsExists
<1>5. Adds(low0, c)
  BY <1>3, <1>4
<1>6. QED
  BY <1>1, <1>2, <1>5, AddsWord

\* The same of Or.
LEMMA OrWord ==
    ASSUME NEW x \in Word, NEW y \in Word
    PROVE  Or(x, y) \in Word
<1> DEFINE c == [i \in 0 .. Width - 1 |-> Bit(x, i) + Bit(y, i) - Bit(x, i) * Bit(y, i)]
           P(low) == low = [i \in 0 .. Width |->
                              IF i = 0 THEN 0
                              ELSE low[i - 1] + (Bit(x, i - 1) + Bit(y, i - 1) - Bit(x, i - 1) * Bit(y, i - 1)) * 2 ^ (i - 1)]
           low0 == CHOOSE low : P(low)
<1>1. Or(x, y) = low0[Width]
  BY DEF Or, Bitwise
<1>2. c \in [0 .. Width - 1 -> {0, 1}]
  BY BitIs, WidthIs
<1>3. ASSUME NEW low PROVE P(low) <=> Adds(low, c)
  <2>1. \A i \in 0 .. Width : i # 0 => c[i - 1] = (Bit(x, i - 1) + Bit(y, i - 1) - Bit(x, i - 1) * Bit(y, i - 1))
    BY WidthIs
  <2> HIDE DEF c
  <2>2. [i \in 0 .. Width |-> IF i = 0 THEN 0
                              ELSE low[i - 1] + (Bit(x, i - 1) + Bit(y, i - 1) - Bit(x, i - 1) * Bit(y, i - 1)) * 2 ^ (i - 1)]
        = [i \in 0 .. Width |-> IF i = 0 THEN 0 ELSE low[i - 1] + c[i - 1] * 2 ^ (i - 1)]
    BY <2>1
  <2>3. QED
    BY <2>2, Zenon DEF Adds
<1> HIDE DEF P, c
<1>4. P(low0)
  BY <1>2, <1>3, AddsExists
<1>5. Adds(low0, c)
  BY <1>3, <1>4
<1>6. QED
  BY <1>1, <1>2, <1>5, AddsWord

\* The same of Xor.
LEMMA XorWord ==
    ASSUME NEW x \in Word, NEW y \in Word
    PROVE  Xor(x, y) \in Word
<1> DEFINE c == [i \in 0 .. Width - 1 |-> (Bit(x, i) + Bit(y, i)) % 2]
           P(low) == low = [i \in 0 .. Width |->
                              IF i = 0 THEN 0
                              ELSE low[i - 1] + ((Bit(x, i - 1) + Bit(y, i - 1)) % 2) * 2 ^ (i - 1)]
           low0 == CHOOSE low : P(low)
<1>1. Xor(x, y) = low0[Width]
  BY DEF Xor, Bitwise
<1>2. c \in [0 .. Width - 1 -> {0, 1}]
  BY BitIs, WidthIs
<1>3. ASSUME NEW low PROVE P(low) <=> Adds(low, c)
  <2>1. \A i \in 0 .. Width : i # 0 => c[i - 1] = ((Bit(x, i - 1) + Bit(y, i - 1)) % 2)
    BY WidthIs
  <2> HIDE DEF c
  <2>2. [i \in 0 .. Width |-> IF i = 0 THEN 0
                              ELSE low[i - 1] + ((Bit(x, i - 1) + Bit(y, i - 1)) % 2) * 2 ^ (i - 1)]
        = [i \in 0 .. Width |-> IF i = 0 THEN 0 ELSE low[i - 1] + c[i - 1] * 2 ^ (i - 1)]
    BY <2>1
  <2>3. QED
    BY <2>2, Zenon DEF Adds
<1> HIDE DEF P, c
<1>4. P(low0)
  BY <1>2, <1>3, AddsExists
<1>5. Adds(low0, c)
  BY <1>3, <1>4
<1>6. QED
  BY <1>1, <1>2, <1>5, AddsWord

-----------------------------------------------------------------------------
(* The bytes of a word.                                                    *)

\* The values of a byte.
OneByte == 0 .. Weight(1) - 1

\* The word of four bytes, the least significant first.
OfFour(b0, b1, b2, b3) == b0 + b1 * Weight(1) + b2 * Weight(2) + b3 * Weight(3)

\* The weights as powers of the first.
LEMMA Powers ==
    /\ Weight(1) \in Nat \ {0} /\ Weight(2) \in Nat \ {0} /\ Weight(3) \in Nat \ {0}
    /\ WordSize \in Nat \ {0}
    /\ Weight(2) = Weight(1) * Weight(1)
    /\ Weight(3) = Weight(2) * Weight(1) /\ Weight(3) = Weight(1) * Weight(2)
    /\ WordSize = Weight(3) * Weight(1) /\ WordSize = Weight(2) * Weight(2)
    /\ WordSize = Weight(1) * Weight(3)
<1>1. 1 + 1 = 2 /\ 2 + 1 = 3 /\ 1 + 2 = 3 /\ 3 + 1 = 4 /\ 2 + 2 = 4 /\ 1 + 3 = 4
  OBVIOUS
<1>2. Weight(1 + 1) = Weight(1) * Weight(1)
  BY Weights
<1>3. Weight(2 + 1) = Weight(2) * Weight(1) /\ Weight(1 + 2) = Weight(1) * Weight(2)
  BY Weights
<1>4. Weight(3 + 1) = Weight(3) * Weight(1) /\ Weight(1 + 3) = Weight(1) * Weight(3)
  BY Weights
<1>5. Weight(2 + 2) = Weight(2) * Weight(2)
  BY Weights
<1>6. Weight(4) = WordSize /\ \A k \in {1, 2, 3, 4} : Weight(k) \in Nat \ {0}
  BY Weights
<1>7. QED
  BY <1>1, <1>2, <1>3, <1>4, <1>5, <1>6

\* A digit below a number of a larger base.
LEMMA Digit ==
    ASSUME NEW d \in Nat \ {0}, NEW e \in Nat \ {0}, NEW r \in 0 .. d - 1, NEW q \in 0 .. e - 1
    PROVE  q * d + r \in 0 .. e * d - 1
<1>1. q * d >= 0 /\ (e - 1 - q) * d >= 0
  OBVIOUS
<1>2. (e - 1 - q) * d = e * d - d - q * d
  OBVIOUS
<1>3. e * d \in Int /\ q * d \in Int
  OBVIOUS
<1>4. QED
  BY <1>1, <1>2, <1>3

\* The word of four bytes is a word, and shifts and masks take it apart.
LEMMA FourBytes ==
    ASSUME NEW b0 \in OneByte, NEW b1 \in OneByte, NEW b2 \in OneByte, NEW b3 \in OneByte,
           NEW x, x = OfFour(b0, b1, b2, b3)
    PROVE  /\ x \in Word
           /\ x % Weight(1) = b0 /\ x \div Weight(1) = OfFour(b1, b2, b3, 0)
           /\ x % Weight(2) = OfFour(b0, b1, 0, 0) /\ x \div Weight(2) = OfFour(b2, b3, 0, 0)
           /\ x % Weight(3) = OfFour(b0, b1, b2, 0) /\ x \div Weight(3) = b3
<1> DEFINE B == Weight(1)
           C == Weight(2)
           D == Weight(3)
           lo2 == b1 * B + b0
           lo3 == b2 * C + lo2
           hi1 == b3 * C + (b2 * B + b1)
           hi2 == b3 * B + b2
<1>1. /\ B \in Nat \ {0} /\ C \in Nat \ {0} /\ D \in Nat \ {0} /\ WordSize \in Nat \ {0}
      /\ C = B * B /\ D = C * B /\ D = B * C /\ WordSize = D * B /\ WordSize = B * D
  BY Powers
<1>2. b0 \in 0 .. B - 1 /\ b1 \in 0 .. B - 1 /\ b2 \in 0 .. B - 1 /\ b3 \in 0 .. B - 1
  BY DEF OneByte
<1>3. x = b0 + b1 * B + b2 * C + b3 * D
  BY DEF OfFour
<1> HIDE DEF B, C, D
<1>4. lo2 \in 0 .. C - 1
  BY <1>1, <1>2, Digit
<1>5. lo3 \in 0 .. D - 1
  <2> HIDE DEF lo2
  <2>1. b2 * C + lo2 \in 0 .. B * C - 1
    BY <1>1, <1>2, <1>4, Digit
  <2>2. QED
    BY <1>1, <2>1
<1>6. b3 * D + lo3 \in 0 .. WordSize - 1
  <2> HIDE DEF lo3
  <2>1. b3 * D + lo3 \in 0 .. B * D - 1
    BY <1>1, <1>2, <1>5, Digit
  <2>2. QED
    BY <1>1, <2>1
<1>7. /\ b1 * B \in Int /\ b2 * B \in Int /\ b3 * B \in Int
      /\ b2 * C \in Int /\ b3 * C \in Int /\ b3 * D \in Int
      /\ b2 * C = (b2 * B) * B /\ b3 * D = (b3 * C) * B /\ b3 * D = (b3 * B) * C
  BY <1>1, <1>2
<1>8. x = b3 * D + lo3
  BY <1>2, <1>3, <1>7
<1>9. x = hi1 * B + b0
  <2>1. hi1 * B = (b3 * C) * B + (b2 * B) * B + b1 * B
    BY <1>1, <1>2, <1>7
  <2>2. QED
    BY <1>2, <1>3, <1>7, <2>1
<1>10. x = hi2 * C + lo2
  <2>1. hi2 * C = (b3 * B) * C + b2 * C
    BY <1>1, <1>2, <1>7
  <2>2. QED
    BY <1>2, <1>3, <1>7, <2>1
<1>11. hi1 \in Int /\ hi2 \in Int /\ b3 \in Int
  BY <1>2, <1>7
<1>12. /\ lo2 = OfFour(b0, b1, 0, 0) /\ lo3 = OfFour(b0, b1, b2, 0)
       /\ hi1 = OfFour(b1, b2, b3, 0) /\ hi2 = OfFour(b2, b3, 0, 0)
  BY <1>1, <1>2, <1>7 DEF OfFour, B, C, D
<1> HIDE DEF lo2, lo3, hi1, hi2
<1>13. x % B = b0 /\ x \div B = hi1
  BY <1>1, <1>2, <1>9, <1>11, DivisionIs
<1>14. x % C = lo2 /\ x \div C = hi2
  BY <1>1, <1>4, <1>10, <1>11, DivisionIs
<1>15. x % D = lo3 /\ x \div D = b3
  BY <1>1, <1>5, <1>8, <1>11, DivisionIs
<1>16. x \in Word
  BY <1>6, <1>8 DEF Word
<1>17. QED
  BY <1>12, <1>13, <1>14, <1>15, <1>16 DEF B, C, D

\* A byte alone is the word of that byte.
LEMMA ZeroByte == 0 \in OneByte /\ \A b \in OneByte : b \in Int /\ OfFour(b, 0, 0, 0) = b
BY Powers DEF OneByte, OfFour

\* Each byte of a word of four bytes.
LEMMA BytesAre ==
    ASSUME NEW b0 \in OneByte, NEW b1 \in OneByte, NEW b2 \in OneByte, NEW b3 \in OneByte,
           NEW x, x = OfFour(b0, b1, b2, b3)
    PROVE  ByteOf(x, 0) = b0 /\ ByteOf(x, 1) = b1 /\ ByteOf(x, 2) = b2 /\ ByteOf(x, 3) = b3
<1>1. ByteOf(x, 0) = b0
  <2>1. x \in Word
    BY FourBytes
  <2>2. x \in Int /\ 0 \in 0 .. 1 - 1 /\ x * 1 + 0 = x
    BY <2>1 DEF Word
  <2>3. x \div 1 = x
    BY <2>2
  <2>4. QED
    BY <2>3, Weights, FourBytes DEF ByteOf, LowBytes
<1>2. ByteOf(x, 1) = b1
  BY FourBytes, ZeroByte DEF ByteOf, LowBytes
<1>3. ByteOf(x, 2) = b2
  BY FourBytes, ZeroByte DEF ByteOf, LowBytes
<1>4. ByteOf(x, 3) = b3
  <2>1. b3 = OfFour(b3, 0, 0, 0) /\ x \div Weight(3) = b3
    BY FourBytes, ZeroByte
  <2>2. b3 % Weight(1) = b3
    BY <2>1, FourBytes, ZeroByte
  <2>3. QED
    BY <2>1, <2>2 DEF ByteOf, LowBytes
<1>5. QED
  BY <1>1, <1>2, <1>3, <1>4

\* Every word is made of its four bytes.
LEMMA WordOfBytes ==
    ASSUME NEW x \in Word
    PROVE  /\ \A k \in 0 .. 3 : ByteOf(x, k) \in OneByte
           /\ x = OfFour(ByteOf(x, 0), ByteOf(x, 1), ByteOf(x, 2), ByteOf(x, 3))
<1> DEFINE B == Weight(1)
           b0 == x % B
           y1 == x \div B
           b1 == y1 % B
           y2 == y1 \div B
           b2 == y2 % B
           b3 == y2 \div B
<1>1. /\ B \in Nat \ {0} /\ WordSize = Weight(3) * B /\ Weight(3) = Weight(2) * B /\ Weight(2) = B * B
      /\ Weight(3) \in Nat /\ Weight(2) \in Nat
  BY Powers
<1>2. x \in 0 .. WordSize - 1
  BY DEF Word
<1> HIDE DEF B
<1>3. y1 \in Int /\ b0 \in 0 .. B - 1 /\ x = y1 * B + b0
  <2>1. x \in Int /\ B \in Nat \ {0}
    BY <1>1, <1>2
  <2>2. QED
    BY <2>1, Division
<1> HIDE DEF b0, y1
<1>4. y2 \in Int /\ b1 \in 0 .. B - 1 /\ y1 = y2 * B + b1
  BY <1>1, <1>3, Division
<1> HIDE DEF b1, y2
<1>5. b3 \in Int /\ b2 \in 0 .. B - 1 /\ y2 = b3 * B + b2
  BY <1>1, <1>4, Division
<1> HIDE DEF b2, b3
<1>6. /\ b3 * B \in Int /\ b2 * B \in Int /\ b1 * B \in Int /\ y2 * B \in Int /\ y1 * B \in Int
      /\ (b3 * B) * B \in Int /\ (b2 * B) * B \in Int /\ ((b3 * B) * B) * B \in Int
  BY <1>1, <1>3, <1>4, <1>5
<1>7. y1 = (b3 * B) * B + b2 * B + b1
  <2>1. y2 * B = (b3 * B) * B + b2 * B
    BY <1>1, <1>5, <1>6
  <2>2. QED
    BY <1>4, <1>6, <2>1
<1>8. x = ((b3 * B) * B) * B + (b2 * B) * B + b1 * B + b0
  <2> DEFINE u == (b3 * B) * B
             v == b2 * B
  <2>0. u \in Int /\ v \in Int /\ b1 \in Int /\ B \in Int /\ y1 = u + v + b1
    BY <1>1, <1>4, <1>6, <1>7
  <2> HIDE DEF u, v
  <2>3. y1 * B = u * B + v * B + b1 * B
    BY <2>0
  <2>1. y1 * B = ((b3 * B) * B) * B + (b2 * B) * B + b1 * B
    BY <2>3 DEF u, v
  <2>2. QED
    BY <1>3, <1>6, <2>1
<1>9. ((b3 * B) * B) * B = b3 * Weight(3) /\ (b2 * B) * B = b2 * Weight(2)
  <2>1. (b2 * B) * B = b2 * (B * B) /\ ((b3 * B) * B) * B = b3 * ((B * B) * B)
    BY <1>1, <1>5
  <2>2. QED
    BY <1>1, <2>1
<1>10. x = OfFour(b0, b1, b2, b3)
  <2>1. b3 * Weight(3) \in Int /\ b2 * Weight(2) \in Int /\ b0 \in Int
    BY <1>1, <1>3, <1>5
  <2>2. QED
    BY <1>6, <1>8, <1>9, <2>1 DEF OfFour, B
<1>11. b3 \in 0 .. B - 1
  <2>1. ~ (b3 >= B)
    <3>1. SUFFICES ASSUME b3 >= B PROVE FALSE
      OBVIOUS
    <3>2. b3 * Weight(3) >= B * Weight(3)
      <4>1. (b3 - B) * Weight(3) >= 0
        BY <1>1, <1>5, <3>1
      <4>2. (b3 - B) * Weight(3) = b3 * Weight(3) - B * Weight(3)
        BY <1>1, <1>5
      <4>3. b3 * Weight(3) \in Int /\ B * Weight(3) \in Int
        BY <1>1, <1>5
      <4>4. QED
        BY <4>1, <4>2, <4>3
    <3>3. B * Weight(3) = WordSize
      BY <1>1
    <3>4. (b2 * B) * B >= 0 /\ b1 * B >= 0
      BY <1>1, <1>4, <1>5
    <3>5. b3 * Weight(3) \in Int /\ WordSize \in Int
      BY <1>1, <1>5, Halving
    <3>6. QED
      BY <1>2, <1>3, <1>6, <1>8, <1>9, <3>2, <3>3, <3>4, <3>5
  <2>2. ~ (b3 < 0)
    <3>1. SUFFICES ASSUME b3 <= -1 PROVE FALSE
      BY <1>5
    <3>2. b3 * B <= -B
      BY <1>1, <1>5, <3>1
    <3>3. y2 <= -1
      BY <1>1, <1>5, <1>6, <3>2
    <3>4. y2 * B <= -B
      BY <1>1, <1>4, <3>3
    <3>5. y1 <= -1
      BY <1>1, <1>4, <1>6, <3>4
    <3>6. y1 * B <= -B
      BY <1>1, <1>3, <3>5
    <3>7. QED
      BY <1>1, <1>2, <1>3, <1>6, <3>6
  <2>3. QED
    BY <1>1, <1>5, <2>1, <2>2
<1>12. b0 \in OneByte /\ b1 \in OneByte /\ b2 \in OneByte /\ b3 \in OneByte
  BY <1>3, <1>4, <1>5, <1>11 DEF OneByte, B
<1>13. /\ ByteOf(x, 0) = b0 /\ ByteOf(x, 1) = b1 /\ ByteOf(x, 2) = b2 /\ ByteOf(x, 3) = b3
  BY <1>10, <1>12, BytesAre
<1>14. ASSUME NEW k \in 0 .. 3 PROVE ByteOf(x, k) \in OneByte
  <2>1. k = 0 \/ k = 1 \/ k = 2 \/ k = 3
    OBVIOUS
  <2>2. QED
    BY <1>12, <1>13, <2>1
<1>15. QED
  BY <1>10, <1>13, <1>14

-----------------------------------------------------------------------------
(* Memory.                                                                 *)

\* A memory of bytes, made of whole words.
WholeWords(mem) ==
    /\ mem \in [DOMAIN mem -> OneByte]
    /\ \A x \in DOMAIN mem : /\ x \in Nat
                             /\ \A k \in 0 .. 3 : (x \div 4) * 4 + k \in DOMAIN mem

\* What ReadMem adds up.
LEMMA ReadMemIs ==
    ASSUME NEW mem, NEW addr \in Nat, NEW size \in {1, 2, 4},
           \A k \in 0 .. size - 1 : mem[addr + k] \in OneByte
    PROVE  ReadMem(mem, addr, size)
             = OfFour(mem[addr], IF size > 1 THEN mem[addr + 1] ELSE 0,
                      IF size > 2 THEN mem[addr + 2] ELSE 0, IF size > 2 THEN mem[addr + 3] ELSE 0)
<1> DEFINE P(f) == f = [n \in 0 .. size |->
                          IF n = 0 THEN 0 ELSE f[n - 1] + mem[addr + n - 1] * Weight(n - 1)]
           upTo == CHOOSE f : P(f)
           h == [k \in 1 .. size |-> [s \in Int |-> s + mem[addr + k - 1] * Weight(k - 1)]]
<1>1. ReadMem(mem, addr, size) = upTo[size]
  BY DEF ReadMem
<1>2. ASSUME NEW k \in 1 .. size
      PROVE  mem[addr + k - 1] * Weight(k - 1) \in Int
  <2>1. k - 1 \in 0 .. size - 1 /\ addr + (k - 1) = addr + k - 1 /\ k - 1 \in Nat
    OBVIOUS
  <2>2. mem[addr + (k - 1)] \in OneByte
    BY <2>1
  <2>3. Weight(1) \in Int /\ Weight(k - 1) \in Int
    BY <2>1, Weights
  <2>4. mem[addr + (k - 1)] \in Int
    BY <2>2, <2>3 DEF OneByte
  <2>5. QED
    BY <2>1, <2>3, <2>4
<1>3. Maps(h, size, Int)
  BY <1>2 DEF Maps
<1> HIDE DEF h
<1>4. PICK g : Recursive(g, size, Int, 0, h)
  <2>1. 0 \in Int /\ size \in Nat
    OBVIOUS
  <2>2. QED
    BY <1>3, <2>1, Recursion, Zenon
<1>5. g \in [0 .. size -> Int] /\ g[0] = 0 /\ \A k \in 1 .. size : g[k] = h[k][g[k - 1]]
  BY <1>4 DEF Recursive
<1>6. ASSUME NEW n \in 0 .. size
      PROVE  g[n] = IF n = 0 THEN 0 ELSE g[n - 1] + mem[addr + n - 1] * Weight(n - 1)
  <2>1. CASE n = 0
    BY <1>5, <2>1
  <2>2. CASE n # 0
    <3>1. n \in 1 .. size /\ n - 1 \in 0 .. size
      BY <2>2
    <3>2. g[n] = h[n][g[n - 1]] /\ g[n - 1] \in Int
      BY <1>5, <3>1
    <3>3. QED
      BY <2>2, <3>1, <3>2 DEF h
  <2>3. QED
    BY <2>1, <2>2
<1>7. P(g)
  BY <1>5, <1>6
<1> HIDE DEF P
<1>8. P(upTo)
  BY <1>7
<1>9. /\ upTo[0] = 0
      /\ \A n \in 1 .. size : upTo[n] = upTo[n - 1] + mem[addr + n - 1] * Weight(n - 1)
  <2> HIDE DEF upTo
  <2>1. QED
    BY <1>8 DEF P
<1> HIDE DEF upTo
<1>10. upTo[1] = mem[addr]
  <2>1. 1 \in 1 .. size /\ 1 - 1 = 0 /\ addr + 1 - 1 = addr
    OBVIOUS
  <2>2. mem[addr + 0] \in OneByte /\ addr + 0 = addr
    OBVIOUS
  <2>3. mem[addr] \in Int
    BY <2>2, Powers DEF OneByte
  <2>4. upTo[1] = 0 + mem[addr] * 1
    BY <1>9, <2>1, Weights
  <2>5. QED
    BY <2>3, <2>4
<1>11. size > 1 => upTo[2] = mem[addr] + mem[addr + 1] * Weight(1)
  <2>1. SUFFICES ASSUME size > 1 PROVE upTo[2] = mem[addr] + mem[addr + 1] * Weight(1)
    OBVIOUS
  <2>2. 2 \in 1 .. size /\ 2 - 1 = 1 /\ addr + 2 - 1 = addr + 1
    BY <2>1
  <2>3. QED
    BY <1>9, <1>10, <2>2
<1>12. size > 2 => upTo[4] = mem[addr] + mem[addr + 1] * Weight(1)
                             + mem[addr + 2] * Weight(2) + mem[addr + 3] * Weight(3)
  <2>1. SUFFICES ASSUME size > 2
                 PROVE  upTo[4] = mem[addr] + mem[addr + 1] * Weight(1)
                                  + mem[addr + 2] * Weight(2) + mem[addr + 3] * Weight(3)
    OBVIOUS
  <2>2. /\ 3 \in 1 .. size /\ 3 - 1 = 2 /\ addr + 3 - 1 = addr + 2
        /\ 4 \in 1 .. size /\ 4 - 1 = 3 /\ addr + 4 - 1 = addr + 3
    BY <2>1
  <2>3. upTo[3] = upTo[2] + mem[addr + 2] * Weight(2) /\ upTo[4] = upTo[3] + mem[addr + 3] * Weight(3)
    BY <1>9, <2>2
  <2>4. QED
    BY <1>11, <2>1, <2>3
<1>13. mem[addr] \in Int /\ (size > 1 => mem[addr + 1] \in Int)
  <2>1. mem[addr + 0] \in OneByte /\ addr + 0 = addr /\ (size > 1 => mem[addr + 1] \in OneByte)
    OBVIOUS
  <2>2. QED
    BY <2>1, Powers DEF OneByte
<1>14. 0 * Weight(1) = 0 /\ 0 * Weight(2) = 0 /\ 0 * Weight(3) = 0
  BY Powers
<1>15. CASE size = 1
  BY <1>1, <1>10, <1>13, <1>14, <1>15 DEF OfFour
<1>16. CASE size = 2
  <2>1. mem[addr + 1] * Weight(1) \in Int
    BY <1>13, <1>16, Powers
  <2>2. QED
    BY <1>1, <1>11, <1>13, <1>14, <1>16, <2>1 DEF OfFour
<1>17. CASE size = 4
  BY <1>1, <1>12, <1>17 DEF OfFour
<1>18. QED
  BY <1>15, <1>16, <1>17

-----------------------------------------------------------------------------
(* Operands and results.                                                   *)

\* The arithmetic of the reference is that of module Word.
LEMMA SameNumbers ==
    /\ Reference!Width = Width /\ Reference!WordSize = WordSize /\ Reference!Word = Word
    /\ \A k : Reference!Weight(k) = Weight(k)
    /\ \A x : Reference!ToWord(x) = ToWord(x)
    /\ \A x : Reference!Signed(x) = Signed(x)
BY DEF Reference!Width, Reference!WordSize, Reference!Word, Reference!Weight, Reference!ToWord,
       Reference!Signed, Reference!Negative,
       Width, WordSize, Word, Weight, ToWord, Signed, Negative

\* The reference's bytes and shifts are those of module Word.
LEMMA SameWords ==
    /\ \A x, n : Reference!LowBytes(x, n) = LowBytes(x, n)
    /\ \A x, n : Reference!ByteOf(x, n) = ByteOf(x, n)
    /\ \A x, n : Reference!SignExtend(x, n) = SignExtend(x, n)
    /\ \A x, n : Reference!Shl(x, n) = Shl(x, n)
    /\ \A x, n : Reference!Sar(x, n) = Sar(x, n)
    /\ \A x, n : Reference!Shr(x, n) = Shr(x, n)
    /\ \A x : Reference!Not(x) = Not(x)
<1>1. \A x, n : Reference!LowBytes(x, n) = LowBytes(x, n)
  BY SameNumbers DEF Reference!LowBytes, LowBytes
<1>2. \A x, n : Reference!ByteOf(x, n) = ByteOf(x, n)
  BY <1>1, SameNumbers DEF Reference!ByteOf, ByteOf
<1>3. \A x, n : Reference!SignExtend(x, n) = SignExtend(x, n)
  BY <1>1, SameNumbers DEF Reference!SignExtend, SignExtend, Reference!Bit, Bit
<1>4. /\ \A x, n : Reference!Shl(x, n) = Shl(x, n)
      /\ \A x, n : Reference!Sar(x, n) = Sar(x, n)
      /\ \A x, n : Reference!Shr(x, n) = Shr(x, n)
      /\ \A x : Reference!Not(x) = Not(x)
  BY SameNumbers DEF Reference!Shl, Shl, Reference!Sar, Sar, Reference!Shr, Shr, Reference!Not, Not
<1>5. QED
  BY <1>1, <1>2, <1>3, <1>4

\* So are its bitwise operators.
LEMMA SameBits ==
    ASSUME NEW x, NEW y
    PROVE  /\ Reference!And(x, y) = And(x, y)
           /\ Reference!Or(x, y) = Or(x, y)
           /\ Reference!Xor(x, y) = Xor(x, y)
<1>1. Reference!And(x, y) = And(x, y)
  BY DEF Reference!And, Reference!Bitwise, Reference!Bit, Reference!Width, And, Bitwise, Bit, Width
<1>2. Reference!Or(x, y) = Or(x, y)
  BY DEF Reference!Or, Reference!Bitwise, Reference!Bit, Reference!Width, Or, Bitwise, Bit, Width
<1>3. Reference!Xor(x, y) = Xor(x, y)
  BY DEF Reference!Xor, Reference!Bitwise, Reference!Bit, Reference!Width, Xor, Bitwise, Bit, Width
<1>4. QED
  BY <1>1, <1>2, <1>3

\* Registers reg of the machine that hold words.
Fits(c, reg) ==
    /\ {"gpr", "hi", "lo", "pc", "nextPC", "loadReg", "loadValue"} \subseteq DOMAIN c
    /\ reg \subseteq 0 .. 31 /\ 0 \in reg
    /\ c.gpr \in [reg -> Word] /\ c.gpr[0] = 0
    /\ c.loadReg \in reg /\ c.loadValue \in Word
    /\ c.hi \in Word /\ c.lo \in Word /\ c.pc \in Word /\ c.nextPC \in Word

\* What Seen makes of registers c and memory mem of a thread that runs.
SeenOf(c, mem) ==
    [gpr |-> DelayedLoad(c, 0, 0).gpr, hi |-> c.hi, lo |-> c.lo, pc |-> c.pc,
     npc |-> c.nextPC, mem |-> mem, status |-> "running"]

\* The registers that a thread sees: the load in progress has ended, and register
\* 0 is zero.
LEMMA SeenGpr ==
    ASSUME NEW c, NEW reg, Fits(c, reg), NEW mem
    PROVE  /\ SeenOf(c, mem).gpr \in [reg -> Word]
           /\ \A r \in reg : SeenOf(c, mem).gpr[r]
                = IF r = 0 THEN 0 ELSE IF r = c.loadReg THEN c.loadValue ELSE c.gpr[r]
<1>1. DelayedLoad(c, 0, 0).gpr = [[c.gpr EXCEPT ![c.loadReg] = c.loadValue] EXCEPT ![0] = 0]
  BY DEF DelayedLoad, Fits
<1>2. 0 \in Word
  BY Halving DEF Word
<1>3. QED
  BY <1>1, <1>2 DEF SeenOf, Fits

\* An instruction finds in its operands what the thread sees there.
LEMMA OperandsAgree ==
    ASSUME NEW c, NEW reg, Fits(c, reg), NEW mem, NEW i, Demands(i, c), NEW r \in reg, r \in Reads(i)
    PROVE  SeenOf(c, mem).gpr[r] = c.gpr[r]
<1>1. c.loadReg = 0 \/ c.loadReg # r
  BY DEF Demands
<1>2. SeenOf(c, mem).gpr[r] = IF r = 0 THEN 0 ELSE IF r = c.loadReg THEN c.loadValue ELSE c.gpr[r]
  BY SeenGpr
<1>3. QED
  BY <1>1, <1>2 DEF Fits

\* Zero and one are words.
LEMMA SmallWords == 0 \in Word /\ 1 \in Word
BY Halving DEF Word

\* Shifts make words of words; to the right, with and without the sign bit, they
\* are the same for a word that is not negative (SRL in Machine::OneInstruction).
LEMMA ShiftWord ==
    ASSUME NEW x \in Word, NEW n \in Nat
    PROVE  /\ Shl(x, n) \in Word /\ Sar(x, n) \in Word
           /\ ~ Negative(x) => Sar(x, n) = Shr(x, n)
<1>1. x \in Int /\ 2 ^ n \in Nat \ {0} /\ Signed(x) \in Int
  BY TwoTo, SignedIs, Halving DEF Word
<1>2. x * 2 ^ n \in Int /\ Signed(x) \div 2 ^ n \in Int
  BY <1>1, Division
<1>3. Shl(x, n) \in Word /\ Sar(x, n) \in Word
  BY <1>2, ToWordIs DEF Shl, Sar
<1>4. ASSUME ~ Negative(x) PROVE Sar(x, n) = Shr(x, n)
  <2>1. Signed(x) = x
    BY <1>4, SignedIs
  <2> DEFINE d == 2 ^ n
             q == x \div d
  <2>2. q \in Int /\ x = q * d + (x % d) /\ x % d \in 0 .. d - 1
    BY <1>1, Division
  <2>3. x \in 0 .. WordSize - 1 /\ d \in Nat \ {0}
    BY <1>1 DEF Word
  <2> HIDE DEF d, q
  <2>4. ~ (q <= -1)
    <3>1. SUFFICES ASSUME q <= -1 PROVE FALSE
      OBVIOUS
    <3>2. q * d <= -d
      BY <2>2, <2>3, <3>1
    <3>3. QED
      BY <2>2, <2>3, <3>2
  <2>5. q <= x
    <3>1. q \in Nat
      BY <2>2, <2>4
    <3>2. q * d >= q
      BY <2>3, <3>1
    <3>3. QED
      BY <2>2, <2>3, <3>1, <3>2
  <2>6. q \in Word
    BY <2>2, <2>3, <2>4, <2>5, Halving DEF Word
  <2>7. ToWord(q) = q
    BY <2>2, <2>6, ToWordIs
  <2>8. QED
    BY <2>1, <2>7 DEF Sar, Shr, q, d
<1>5. QED
  BY <1>3, <1>4

\* A word that makes a shift count.
LEMMA CountIs == \A x \in Word : x % Width \in Nat
<1>1. Width \in Nat \ {0}
  BY WidthIs
<1>2. ASSUME NEW x \in Word PROVE x % Width \in Nat
  <2>1. x \in Int
    BY DEF Word
  <2>2. QED
    BY <1>1, <2>1, Division
<1>3. QED
  BY <1>2

\* The complement of a word is a word.
LEMMA NotWord == \A x \in Word : Not(x) \in Word
BY Halving DEF Not, Word

\* The fields of the instruction words.
LEMMA FunctIs ==
    DOMAIN Funct = {"SLL", "SRL", "SRA", "SLLV", "SRLV", "SRAV", "JR", "JALR", "SYSCALL",
                    "MFHI", "MTHI", "MFLO", "MTLO", "MULT", "MULTU", "DIV", "DIVU",
                    "ADD", "ADDU", "SUB", "SUBU", "AND", "OR", "XOR", "NOR", "SLT", "SLTU"}
BY DEF Funct

\* What computes into rd has a "funct" field.
LEMMA IsFunct ==
    ASSUME NEW i, i.op \in RdOps
    PROVE  i.op \in DOMAIN Funct
<1>1. RdOps \subseteq DOMAIN Funct
  BY FunctIs, Zenon DEF RdOps
<1>2. QED
  BY <1>1

\* What computes into rt has no "funct" field.
LEMMA IsNotFunct ==
    ASSUME NEW i, i.op \in RtOps
    PROVE  i.op \notin DOMAIN Funct /\ i.op \notin {"J", "JAL"}
<1> DEFINE op == i.op
<1>1. op \in RtOps
  OBVIOUS
<1> HIDE DEF op
<1>2. op \notin DOMAIN Funct /\ op \notin {"J", "JAL"}
  BY <1>1, FunctIs DEF RtOps
<1>3. QED
  BY <1>2 DEF op

\* Whatever its format, an instruction carries a number.
LEMMA ExtraIs ==
    ASSUME NEW i, NEW reg, WellFormed(i, reg)
    PROVE  i.extra \in Int
<1> DEFINE J == {x \in 0 .. 2 ^ 26 - 1 : 4 * x < JumpRegion}
<1>1. CASE i.op \in DOMAIN Funct
  <2>1. i.extra \in 0 .. 31
    BY <1>1, Zenon DEF WellFormed
  <2>2. QED
    BY <2>1
<1>2. CASE i.op \notin DOMAIN Funct /\ i.op \in {"J", "JAL"}
  <2>1. i.extra \in J
    BY <1>2, Zenon DEF WellFormed
  <2>2. i.extra \in 0 .. 2 ^ 26 - 1
    BY <2>1, Zenon
  <2>3. QED
    BY <2>2
<1>3. CASE i.op \notin DOMAIN Funct /\ i.op \notin {"J", "JAL"}
  <2>1. i.extra \in -(2 ^ 15) .. 2 ^ 15 - 1
    BY <1>3, Zenon DEF WellFormed
  <2>2. QED
    BY <2>1
<1>4. QED
  BY <1>1, <1>2, <1>3, Zenon

\* A shift by a constant reads rt.
LEMMA ReadsRt ==
    ASSUME NEW i, i.op \in {"SLL", "SRA", "SRL"}
    PROVE  Reads(i) = {i.rt}
<1> DEFINE op == i.op
<1>1. /\ op \in {"SLL", "SRA", "SRL"}
      /\ op \notin {"J", "JAL", "SYSCALL", "UNIMP", "RES", "LUI", "MFHI", "MFLO"}
      /\ op \notin (RtOps \ {"LUI"}) \cup LoadOps
                   \cup {"JR", "JALR", "BGEZ", "BLTZ", "BGEZAL", "BLTZAL", "BGTZ", "BLEZ",
                         "MTHI", "MTLO"}
  <2>1. op \in {"SLL", "SRA", "SRL"}
    OBVIOUS
  <2> HIDE DEF op
  <2>2. QED
    BY <2>1 DEF RtOps, LoadOps
<1>2. QED
  BY <1>1 DEF Reads

\* What computes into rd and is no shift by a constant reads rs and rt.
LEMMA ReadsBoth ==
    ASSUME NEW i, i.op \in RdOps, i.op \notin {"SLL", "SRA", "SRL", "MFHI", "MFLO"}
    PROVE  Reads(i) = {i.rs, i.rt}
<1> DEFINE op == i.op
<1>1. /\ op \notin {"J", "JAL", "SYSCALL", "UNIMP", "RES", "LUI", "MFHI", "MFLO"}
      /\ op \notin {"SLL", "SRA", "SRL"}
      /\ op \notin (RtOps \ {"LUI"}) \cup LoadOps
                   \cup {"JR", "JALR", "BGEZ", "BLTZ", "BGEZAL", "BLTZAL", "BGTZ", "BLEZ",
                         "MTHI", "MTLO"}
  <2>1. op \in RdOps /\ op \notin {"SLL", "SRA", "SRL", "MFHI", "MFLO"}
    OBVIOUS
  <2> HIDE DEF op
  <2>2. QED
    BY <2>1 DEF RdOps, RtOps, LoadOps
<1>2. QED
  BY <1>1 DEF Reads

\* What an instruction computes into rd: the word that the thread expects.
LEMMA RdResult ==
    ASSUME NEW c, NEW reg, Fits(c, reg), NEW mem, NEW i, WellFormed(i, reg), Demands(i, c),
           i.op \in RdOps
    PROVE  /\ Reference!Target(i) = i.rd
           /\ Reference!Result(i, SeenOf(c, mem)) = RdValue(i, c)
           /\ RdValue(i, c) \in Word
<1> DEFINE s == SeenOf(c, mem)
<1>1. i.rs \in reg /\ i.rt \in reg
  BY DEF WellFormed
<1>2. i.extra \in 0 .. 31 /\ i.extra \in Nat
  <2>1. i.op \in DOMAIN Funct
    BY IsFunct
  <2>2. i.extra \in 0 .. 31
    BY <2>1, Zenon DEF WellFormed
  <2>3. QED
    BY <2>2
<1>3. i.op \notin Reference!Immediate /\ i.op \notin RtOps
  BY DEF RdOps, RtOps, Reference!Immediate
<1>4. i.op \notin {"SLL", "SRA", "SRL", "MFHI", "MFLO"} => Reads(i) = {i.rs, i.rt}
  BY ReadsBoth
<1>5. i.op \in {"SLL", "SRA", "SRL"} => Reads(i) = {i.rt}
  BY ReadsRt
<1>6. /\ i.op \notin {"MFHI", "MFLO"} => s.gpr[i.rt] = c.gpr[i.rt]
      /\ i.op \notin {"SLL", "SRA", "SRL", "MFHI", "MFLO"} => s.gpr[i.rs] = c.gpr[i.rs]
  BY <1>1, <1>4, <1>5, OperandsAgree
<1>7. s.hi = c.hi /\ s.lo = c.lo
  BY DEF SeenOf
<1> HIDE DEF s
<1> DEFINE a == c.gpr[i.rs]
           b == c.gpr[i.rt]
<1>8. a \in Word /\ b \in Word
  BY <1>1 DEF Fits
<1>9. Reference!Operand(i, s.gpr) = s.gpr[i.rt] /\ Reference!Target(i) = i.rd
  BY <1>3 DEF Reference!Operand, Reference!Target, Reference!Immediate
<1>10. i.op \in {"SRL", "SRLV"} => ~ Negative(b)
  BY DEF Demands
<1> HIDE DEF a, b
<1>11. a % Width \in Nat /\ a \in Int /\ b \in Int
  BY <1>8, CountIs DEF Word
<1>12. Reference!Result(i, s) = RdValue(i, c) /\ RdValue(i, c) \in Word
  <2>1. CASE i.op \in {"ADD", "ADDU"}
    <3>1. RdValue(i, c) = ToWord(a + b)
      BY <2>1 DEF RdValue, a, b
    <3>2. Reference!Result(i, s) = ToWord(Signed(a) + Signed(b))
      BY <2>1, <1>6, <1>9, SameNumbers DEF Reference!Result, a, b
    <3>3. QED
      BY <3>1, <3>2, <1>8, <1>11, SumsAgree, ToWordIs
  <2>2. CASE i.op \in {"SUB", "SUBU"}
    <3>1. RdValue(i, c) = ToWord(a - b)
      BY <2>2 DEF RdValue, a, b
    <3>2. Reference!Result(i, s) = ToWord(Signed(a) - Signed(b))
      BY <2>2, <1>6, <1>9, SameNumbers DEF Reference!Result, a, b
    <3>3. QED
      BY <3>1, <3>2, <1>8, <1>11, SumsAgree, ToWordIs
  <2>3. CASE i.op \in {"AND", "OR", "XOR", "NOR"}
    <3>1. RdValue(i, c) = CASE i.op = "AND" -> And(a, b)
                            [] i.op = "OR"  -> Or(a, b)
                            [] i.op = "XOR" -> Xor(a, b)
                            [] i.op = "NOR" -> Not(Or(a, b))
      BY <2>3 DEF RdValue, a, b
    <3>2. Reference!Result(i, s) = CASE i.op = "AND" -> And(a, b)
                                     [] i.op = "OR"  -> Or(a, b)
                                     [] i.op = "XOR" -> Xor(a, b)
                                     [] i.op = "NOR" -> Not(Or(a, b))
      BY <2>3, <1>6, <1>9, SameBits, SameWords DEF Reference!Result, a, b
    <3>3. QED
      BY <3>1, <3>2, <2>3, <1>8, AndWord, OrWord, XorWord, NotWord
  <2>4. CASE i.op \in {"SLT", "SLTU"}
    <3>1. RdValue(i, c) = IF i.op = "SLT" THEN IF Signed(a) < Signed(b) THEN 1 ELSE 0
                                          ELSE IF a < b THEN 1 ELSE 0
      BY <2>4 DEF RdValue, a, b
    <3>2. Reference!Result(i, s) = IF i.op = "SLT" THEN IF Signed(a) < Signed(b) THEN 1 ELSE 0
                                                   ELSE IF a < b THEN 1 ELSE 0
      BY <2>4, <1>6, <1>9, SameNumbers DEF Reference!Result, Reference!Truth, a, b
    <3>3. QED
      BY <3>1, <3>2, SmallWords
  <2>5. CASE i.op \in {"SLL", "SRA", "SRL"}
    <3>1. RdValue(i, c) = IF i.op = "SLL" THEN Shl(b, i.extra) ELSE Sar(b, i.extra)
      BY <2>5 DEF RdValue, b
    <3>2. Reference!Result(i, s) = CASE i.op = "SLL" -> Shl(b, i.extra)
                                     [] i.op = "SRA" -> Sar(b, i.extra)
                                     [] i.op = "SRL" -> Shr(b, i.extra)
      BY <2>5, <1>6, <1>9, SameWords DEF Reference!Result, b
    <3>3. QED
      BY <3>1, <3>2, <2>5, <1>2, <1>8, <1>10, ShiftWord
  <2>6. CASE i.op \in {"SLLV", "SRAV", "SRLV"}
    <3>1. RdValue(i, c) = IF i.op = "SLLV" THEN Shl(b, a % Width) ELSE Sar(b, a % Width)
      BY <2>6 DEF RdValue, a, b
    <3>2. Reference!Result(i, s) = CASE i.op = "SLLV" -> Shl(b, a % Width)
                                     [] i.op = "SRAV" -> Sar(b, a % Width)
                                     [] i.op = "SRLV" -> Shr(b, a % Width)
      BY <2>6, <1>6, <1>9, SameNumbers, SameWords DEF Reference!Result, a, b
    <3>3. QED
      BY <3>1, <3>2, <2>6, <1>8, <1>10, <1>11, ShiftWord
  <2>7. CASE i.op \in {"MFHI", "MFLO"}
    BY <2>7, <1>7 DEF RdValue, Reference!Result, Fits
  <2>8. QED
    BY <2>1, <2>2, <2>3, <2>4, <2>5, <2>6, <2>7 DEF RdOps
<1>13. QED
  BY <1>9, <1>12 DEF s

\* And into rt.
LEMMA RtResult ==
    ASSUME NEW c, NEW reg, Fits(c, reg), NEW mem, NEW i, WellFormed(i, reg), Demands(i, c),
           i.op \in RtOps
    PROVE  /\ Reference!Target(i) = i.rt
           /\ Reference!Result(i, SeenOf(c, mem)) = RtValue(i, c)
           /\ RtValue(i, c) \in Word
<1> DEFINE s == SeenOf(c, mem)
           x == ToWord(i.extra)
           low == LowBytes(i.extra, 2)
           a == c.gpr[i.rs]
<1>1. i.rs \in reg /\ i.op \notin DOMAIN Funct /\ i.op \notin {"J", "JAL"}
  <2>1. i.rs \in reg
    BY DEF WellFormed
  <2>2. i.op \notin DOMAIN Funct /\ i.op \notin {"J", "JAL"}
    BY IsNotFunct DEF RtOps
  <2>3. QED
    BY <2>1, <2>2
<1>2. i.extra \in Int
  <2>1. i.extra \in -(2 ^ 15) .. 2 ^ 15 - 1
    BY <1>1, Zenon DEF WellFormed
  <2>2. QED
    BY <2>1
<1>3. i.op \in Reference!Immediate
  BY DEF RtOps, Reference!Immediate
<1>4. i.op # "LUI" => i.rs \in Reads(i)
  BY DEF Reads, RtOps
<1>5. i.op # "LUI" => s.gpr[i.rs] = a
  BY <1>1, <1>4, OperandsAgree
<1>6. a \in Word
  BY <1>1 DEF Fits
<1>7. x \in Word /\ a \in Int
  BY <1>2, <1>6, ToWordIs DEF Word
<1>8. LowBytes(x, 2) = low /\ ShlBytes(x, 2) = low * Weight(2) /\ low \in 0 .. Weight(2) - 1
  <2>1. WordSize = Weight(2) * Weight(2) /\ Weight(2) \in Nat \ {0}
    BY Powers
  <2>2. (i.extra % (Weight(2) * Weight(2))) % Weight(2) = i.extra % Weight(2)
    BY <1>2, <2>1, ModMod
  <2>3. LowBytes(x, 2) = low
    BY <2>1, <2>2 DEF LowBytes, ToWord
  <2>4. x \in Int
    BY <1>7 DEF Word
  <2>5. (x * Weight(2)) % (Weight(2) * Weight(2)) = (x % Weight(2)) * Weight(2)
    BY <2>1, <2>4, ModMod
  <2>6. ShlBytes(x, 2) = (x * Weight(2)) % WordSize
    BY DEF ShlBytes, Shl, ToWord, Weight
  <2>7. low \in 0 .. Weight(2) - 1
    BY <1>2, <2>1, Division DEF LowBytes
  <2>8. QED
    BY <2>1, <2>3, <2>5, <2>6, <2>7 DEF LowBytes
<1>9. low \in Word /\ low * Weight(2) \in Word
  <2>1. WordSize = Weight(2) * Weight(2) /\ Weight(2) \in Nat \ {0}
    BY Powers
  <2>2. 0 \in 0 .. Weight(2) - 1 /\ 0 * Weight(2) = 0
    BY <2>1
  <2>3. 0 * Weight(2) + low \in 0 .. Weight(2) * Weight(2) - 1
    BY <1>8, <2>1, <2>2, Digit
  <2>4. low * Weight(2) + 0 \in 0 .. Weight(2) * Weight(2) - 1
    BY <1>8, <2>1, <2>2, Digit
  <2>5. low \in Int /\ low * Weight(2) \in Int
    BY <1>8, <2>1
  <2>6. QED
    BY <2>1, <2>2, <2>3, <2>4, <2>5 DEF Word
<1> DEFINE y == Reference!Operand(i, s.gpr)
<1>10. /\ i.op \in {"ADDI", "ADDIU", "SLTI", "SLTIU"} => y = x
       /\ i.op \in {"ANDI", "ORI", "XORI", "LUI"} => y = low
       /\ Reference!Target(i) = i.rt
  BY <1>3, SameNumbers, SameWords DEF Reference!Operand, Reference!Target, Reference!Immediate
<1> HIDE DEF s, x, low, a, y
<1>11. Reference!Result(i, s) = RtValue(i, c) /\ RtValue(i, c) \in Word
  <2>1. CASE i.op \in {"ADDI", "ADDIU"}
    <3>1. RtValue(i, c) = ToWord(a + x)
      BY <2>1 DEF RtValue, a, x
    <3>2. Reference!Result(i, s) = ToWord(Signed(a) + Signed(x))
      BY <2>1, <1>5, <1>10, SameNumbers DEF Reference!Result, y
    <3>3. a + x \in Int
      BY <1>6, <1>7 DEF Word
    <3>4. QED
      BY <3>1, <3>2, <3>3, <1>6, <1>7, SumsAgree, ToWordIs
  <2>2. CASE i.op \in {"ANDI", "ORI", "XORI"}
    <3>1. RtValue(i, c) = CASE i.op = "ANDI" -> And(a, low)
                            [] i.op = "ORI"  -> Or(a, low)
                            [] i.op = "XORI" -> Xor(a, low)
      BY <2>2, <1>8 DEF RtValue, a, x
    <3>2. Reference!Result(i, s) = CASE i.op = "ANDI" -> And(a, low)
                                     [] i.op = "ORI"  -> Or(a, low)
                                     [] i.op = "XORI" -> Xor(a, low)
      BY <2>2, <1>5, <1>10, SameBits DEF Reference!Result, y
    <3>3. QED
      BY <3>1, <3>2, <2>2, <1>6, <1>9, AndWord, OrWord, XorWord
  <2>3. CASE i.op \in {"SLTI", "SLTIU"}
    <3>1. RtValue(i, c) = IF i.op = "SLTI" THEN IF Signed(a) < Signed(x) THEN 1 ELSE 0
                                           ELSE IF a < x THEN 1 ELSE 0
      BY <2>3 DEF RtValue, a, x
    <3>2. Reference!Result(i, s) = IF i.op = "SLTI" THEN IF Signed(a) < Signed(x) THEN 1 ELSE 0
                                                    ELSE IF a < x THEN 1 ELSE 0
      BY <2>3, <1>5, <1>10, SameNumbers DEF Reference!Result, Reference!Truth, y
    <3>3. QED
      BY <3>1, <3>2, SmallWords
  <2>4. CASE i.op = "LUI"
    <3>1. RtValue(i, c) = low * Weight(2)
      BY <2>4, <1>8 DEF RtValue, x
    <3>2. Reference!Result(i, s) = low * Weight(2)
      BY <2>4, <1>10, SameNumbers DEF Reference!Result, y
    <3>3. QED
      BY <3>1, <3>2, <1>9
  <2>5. QED
    BY <2>1, <2>2, <2>3, <2>4 DEF RtOps
<1>12. QED
  BY <1>10, <1>11 DEF s

\* The registers that the other instructions read.
LEMMA ReadsOf ==
    ASSUME NEW i
    PROVE  /\ i.op \in LoadOps \cup {"ADDI", "MTHI", "MTLO", "JR", "JALR", "BGEZ", "BLTZ", "BGEZAL",
                                     "BLTZAL", "BGTZ", "BLEZ"}
                => i.rs \in Reads(i)
           /\ i.op \in StoreOps \cup {"ADD", "SUB", "MULT", "MULTU", "DIV", "DIVU", "BEQ", "BNE"}
                => i.rs \in Reads(i) /\ i.rt \in Reads(i)
<1> DEFINE op == i.op
<1>1. ASSUME op \in LoadOps \cup {"ADDI", "MTHI", "MTLO", "JR", "JALR", "BGEZ", "BLTZ", "BGEZAL",
                                  "BLTZAL", "BGTZ", "BLEZ"}
      PROVE  i.rs \in Reads(i)
  <2>1. op \in (RtOps \ {"LUI"}) \cup LoadOps
                   \cup {"JR", "JALR", "BGEZ", "BLTZ", "BGEZAL", "BLTZAL", "BGTZ", "BLEZ",
                         "MTHI", "MTLO"}
    <3> HIDE DEF op
    <3>1. QED
      BY <1>1 DEF RtOps, LoadOps
  <2>2. /\ op \notin {"J", "JAL", "SYSCALL", "UNIMP", "RES", "LUI", "MFHI", "MFLO"}
        /\ op \notin {"SLL", "SRA", "SRL"}
    <3> HIDE DEF op
    <3>1. QED
      BY <1>1 DEF RtOps, LoadOps
  <2>3. QED
    BY <2>1, <2>2 DEF Reads
<1>2. ASSUME op \in StoreOps \cup {"ADD", "SUB", "MULT", "MULTU", "DIV", "DIVU", "BEQ", "BNE"}
      PROVE  i.rs \in Reads(i) /\ i.rt \in Reads(i)
  <2>1. /\ op \notin {"J", "JAL", "SYSCALL", "UNIMP", "RES", "LUI", "MFHI", "MFLO"}
        /\ op \notin {"SLL", "SRA", "SRL"}
        /\ op \notin (RtOps \ {"LUI"}) \cup LoadOps
                   \cup {"JR", "JALR", "BGEZ", "BLTZ", "BGEZAL", "BLTZAL", "BGTZ", "BLEZ",
                         "MTHI", "MTLO"}
    <3> HIDE DEF op
    <3>1. QED
      BY <1>2 DEF RtOps, LoadOps, StoreOps
  <2>2. QED
    BY <2>1 DEF Reads
<1>3. QED
  BY <1>1, <1>2

\* The simulator's tests of signs find the results that are not words.
LEMMA OverflowsAgree ==
    ASSUME NEW c, NEW reg, Fits(c, reg), NEW mem, NEW i, WellFormed(i, reg), Demands(i, c)
    PROVE  Reference!Overflows(i, SeenOf(c, mem)) <=> Overflows(i, c)
<1> DEFINE s == SeenOf(c, mem)
           a == c.gpr[i.rs]
           b == c.gpr[i.rt]
           x == ToWord(i.extra)
<1>1. i.rs \in reg /\ i.rt \in reg
  BY DEF WellFormed
<1>2. a \in Word /\ b \in Word
  BY <1>1 DEF Fits
<1>3. CASE i.op = "ADD"
  <2>1. s.gpr[i.rs] = a /\ s.gpr[i.rt] = b
    BY <1>1, <1>3, ReadsOf, OperandsAgree
  <2> HIDE DEF s, a, b
  <2>2. Reference!Overflows(i, s) <=> Signed(a) + Signed(b) # Signed(ToWord(Signed(a) + Signed(b)))
    BY <1>3, <2>1, SameNumbers
       DEF Reference!Overflows, Reference!Exact, Reference!Operand, Reference!Immediate
  <2>3. Overflows(i, c) <=> ~ SignsDiffer(a, b) /\ SignsDiffer(a, ToWord(a + b))
    BY <1>3 DEF Overflows, a, b
  <2>4. QED
    BY <1>2, <2>2, <2>3, OverflowTests DEF s
<1>4. CASE i.op = "SUB"
  <2>1. s.gpr[i.rs] = a /\ s.gpr[i.rt] = b
    BY <1>1, <1>4, ReadsOf, OperandsAgree
  <2> HIDE DEF s, a, b
  <2>2. Reference!Overflows(i, s) <=> Signed(a) - Signed(b) # Signed(ToWord(Signed(a) - Signed(b)))
    BY <1>4, <2>1, SameNumbers
       DEF Reference!Overflows, Reference!Exact, Reference!Operand, Reference!Immediate
  <2>3. Overflows(i, c) <=> SignsDiffer(a, b) /\ SignsDiffer(a, ToWord(a - b))
    BY <1>4 DEF Overflows, a, b
  <2>4. QED
    BY <1>2, <2>2, <2>3, OverflowTests DEF s
<1>5. CASE i.op = "ADDI"
  <2>1. s.gpr[i.rs] = a
    BY <1>1, <1>5, ReadsOf, OperandsAgree
  <2>2. i.extra \in Int
    BY <1>5, IsNotFunct, ExtraIs DEF RtOps
  <2>3. x \in Word
    BY <2>2, ToWordIs
  <2> HIDE DEF s, a, x
  <2>4. Reference!Overflows(i, s) <=> Signed(a) + Signed(x) # Signed(ToWord(Signed(a) + Signed(x)))
    BY <1>5, <2>1, SameNumbers
       DEF Reference!Overflows, Reference!Exact, Reference!Operand, Reference!Immediate, x
  <2>5. Overflows(i, c) <=> ~ SignsDiffer(a, x) /\ SignsDiffer(x, ToWord(a + x))
    BY <1>5 DEF Overflows, a, x
  <2>6. (Signed(x) + Signed(a) # Signed(ToWord(Signed(x) + Signed(a))))
          <=> (~ SignsDiffer(x, a) /\ SignsDiffer(x, ToWord(x + a)))
    BY <1>2, <2>3, OverflowTests
  <2>7. x + a = a + x /\ Signed(x) + Signed(a) = Signed(a) + Signed(x)
    BY <1>2, <2>3, SignedIs, Halving DEF Word
  <2>8. QED
    BY <2>4, <2>5, <2>6, <2>7 DEF s, SignsDiffer
<1>6. CASE i.op \notin {"ADD", "SUB", "ADDI"}
  BY <1>6 DEF Reference!Overflows, Overflows
<1>7. QED
  BY <1>3, <1>4, <1>5, <1>6

\* What a load or a store is given as an address.
LEMMA AddressIs ==
    ASSUME NEW c, NEW reg, Fits(c, reg), NEW mem, NEW i, WellFormed(i, reg), Demands(i, c),
           i.op \in LoadOps \cup StoreOps
    PROVE  /\ Reference!Address(i, SeenOf(c, mem)) = Tmp(i, c)
           /\ Reference!Size(i.op) = Bytes(i)
           /\ Tmp(i, c) \in Word /\ Tmp(i, c) \in Nat
<1> DEFINE s == SeenOf(c, mem)
<1>1. i.rs \in reg
  BY DEF WellFormed
<1>2. s.gpr[i.rs] = c.gpr[i.rs]
  BY <1>1, ReadsOf, OperandsAgree
<1>3. i.extra \in Int
  BY ExtraIs
<1>4. c.gpr[i.rs] \in Word
  BY <1>1 DEF Fits
<1>5. c.gpr[i.rs] + i.extra \in Int
  BY <1>3, <1>4 DEF Word
<1>6. Tmp(i, c) \in Word
  BY <1>5, ToWordIs DEF Tmp
<1>7. Tmp(i, c) \in Nat
  BY <1>6 DEF Word
<1> HIDE DEF s
<1>8. Reference!Address(i, s) = Tmp(i, c)
  BY <1>2, SameNumbers DEF Reference!Address, Tmp
<1>9. Reference!Size(i.op) = Bytes(i)
  BY DEF Reference!Size, Bytes
<1>10. QED
  BY <1>6, <1>7, <1>8, <1>9 DEF s

\* Memory that consists of whole words ends between two of them.
LEMMA RefusedIs ==
    ASSUME NEW mem, WholeWords(mem), NEW x \in Nat, NEW size \in {1, 2, 4}
    PROVE  Refused(mem, x, size)
             <=> ~ (x % size = 0 /\ (x \div size + 1) * size - 1 \in DOMAIN mem)
<1>1. \A y \in Nat, k \in 0 .. 3 : y \in DOMAIN mem => (y \div 4) * 4 + k \in DOMAIN mem
  BY DEF WholeWords
<1>2. CASE size = 1
  <2>1. x % 1 = 0 /\ (x \div 1 + 1) * 1 - 1 = x
    OBVIOUS
  <2>2. QED
    BY <1>2, <2>1 DEF Refused, Unaligned
<1>3. CASE size = 2
  <2>1. CASE x % 2 = 0
    <3>1. (x \div 2 + 1) * 2 - 1 = x + 1 /\ x + 1 \in Nat
      BY <2>1
    <3>2. PICK k \in {0, 2} : x = (x \div 4) * 4 + k
      BY <2>1
    <3>3. (x + 1) \div 4 = x \div 4
      BY <3>2
    <3>4. k \in 0 .. 3 /\ k + 1 \in 0 .. 3 /\ (x \div 4) * 4 + (k + 1) = x + 1
      BY <3>2
    <3>5. x \in DOMAIN mem <=> x + 1 \in DOMAIN mem
      BY <1>1, <3>1, <3>2, <3>3, <3>4
    <3>6. QED
      BY <1>3, <2>1, <3>1, <3>5 DEF Refused, Unaligned
  <2>2. CASE x % 2 # 0
    BY <1>3, <2>2 DEF Refused, Unaligned
  <2>3. QED
    BY <2>1, <2>2
<1>4. CASE size = 4
  <2>1. CASE x % 4 = 0
    <3>1. (x \div 4 + 1) * 4 - 1 = x + 3 /\ x + 3 \in Nat
      BY <2>1
    <3>2. (x \div 4) * 4 + 3 = x + 3 /\ (x \div 4) * 4 + 0 = x /\ (x + 3) \div 4 = x \div 4
      BY <2>1
    <3>3. x \in DOMAIN mem <=> x + 3 \in DOMAIN mem
      BY <1>1, <3>1, <3>2
    <3>4. QED
      BY <1>4, <2>1, <3>1, <3>3 DEF Refused, Unaligned
  <2>2. CASE x % 4 # 0
    BY <1>4, <2>2 DEF Refused, Unaligned
  <2>3. QED
    BY <2>1, <2>2
<1>5. QED
  BY <1>2, <1>3, <1>4

\* Translate refuses the addresses that are not aligned or not in memory.
LEMMA AddressErrors ==
    ASSUME NEW c, NEW reg, Fits(c, reg), NEW mem, WholeWords(mem), NEW i, WellFormed(i, reg),
           Demands(i, c), i.op \in LoadOps \cup StoreOps
    PROVE  ~ (Reference!Aligned(i, SeenOf(c, mem)) /\ Reference!Accessible(i, SeenOf(c, mem)))
             <=> Refused(mem, Access(i, c), Bytes(i))
<1> DEFINE s == SeenOf(c, mem)
           x == Tmp(i, c)
<1>1. s.mem = mem
  BY DEF SeenOf
<1>2. Reference!Address(i, s) = x /\ Reference!Size(i.op) = Bytes(i) /\ x \in Nat
  BY AddressIs
<1>3. Bytes(i) \in {1, 2, 4}
  BY DEF Bytes
<1>4. CASE Merging(i)
  <2> DEFINE base == x - (x % 4)
  <2>1. Access(i, c) = base
    BY <1>4 DEF Access, Byte
  <2>2. base \in Nat /\ base % 4 = 0 /\ base \div 4 = x \div 4
    BY <1>2
  <2>3. Bytes(i) = 4
    BY <1>4 DEF Merging, Bytes
  <2> HIDE DEF x, s
  <2>4. Reference!Aligned(i, s)
    BY <1>4 DEF Reference!Aligned, Merging
  <2>5. Reference!Accessible(i, s) <=> (x \div 4 + 1) * 4 - 1 \in DOMAIN mem
    BY <1>1, <1>2, <2>3 DEF Reference!Accessible
  <2> HIDE DEF base
  <2>6. Refused(mem, base, 4) <=> ~ (base % 4 = 0 /\ (base \div 4 + 1) * 4 - 1 \in DOMAIN mem)
    BY <2>2, RefusedIs
  <2>7. QED
    BY <2>1, <2>2, <2>3, <2>4, <2>5, <2>6 DEF s
<1>5. CASE ~ Merging(i)
  <2>1. Access(i, c) = x
    BY <1>5 DEF Access
  <2> HIDE DEF x, s
  <2>2. Reference!Aligned(i, s) <=> x % Bytes(i) = 0
    BY <1>2, <1>5 DEF Reference!Aligned, Merging
  <2>3. Reference!Accessible(i, s) <=> (x \div Bytes(i) + 1) * Bytes(i) - 1 \in DOMAIN mem
    BY <1>1, <1>2 DEF Reference!Accessible
  <2>4. QED
    BY <1>2, <1>3, <2>1, <2>2, <2>3, RefusedIs DEF s
<1>6. QED
  BY <1>4, <1>5

\* OneInstruction raises the exceptions of the MIPS: overflow, which it finds from
\* signs, address error and illegal instruction, for every operand.
THEOREM ExceptionsAgree ==
    ASSUME NEW c, NEW reg, Fits(c, reg), NEW mem, WholeWords(mem), NEW i, WellFormed(i, reg),
           Demands(i, c), i.op # "SYSCALL"
    PROVE  Reference!Raises(i, SeenOf(c, mem)) = Exception(i, c, mem)
<1> DEFINE s == SeenOf(c, mem)
<1>1. Reference!Overflows(i, s) <=> Overflows(i, c)
  BY OverflowsAgree
<1>2. i.op \in LoadOps \cup StoreOps =>
        (~ (Reference!Aligned(i, s) /\ Reference!Accessible(i, s))
           <=> Refused(mem, Access(i, c), Bytes(i)))
  BY AddressErrors
<1>3. Reference!Loads(i) \/ Reference!Stores(i) <=> i.op \in LoadOps \cup StoreOps
  BY DEF Reference!Loads, Reference!Stores, LoadOps, StoreOps
<1>4. i.op = "DIV" => s.gpr[i.rs] = c.gpr[i.rs] /\ s.gpr[i.rt] = c.gpr[i.rt]
  <2>1. i.rs \in reg /\ i.rt \in reg
    BY DEF WellFormed
  <2>2. QED
    BY <2>1, ReadsOf, OperandsAgree
<1> HIDE DEF s
<1> DEFINE undefined == i.op = "DIV" /\ c.gpr[i.rs] = SignBit /\ c.gpr[i.rt] = WordSize - 1
<1>5. (i.op = "DIV" /\ s.gpr[i.rs] = 2 ^ (Reference!Width - 1)
             /\ s.gpr[i.rt] = Reference!WordSize - 1)
          <=> undefined
  BY <1>4, SameNumbers DEF SignBit
<1>6. (i.op = "DIV" /\ c.gpr[i.rs] = 2 ^ (Width - 1) /\ c.gpr[i.rt] = WordSize - 1) <=> undefined
  BY DEF SignBit
<1>7. Overflows(i, c) => i.op \in {"ADD", "ADDI", "SUB"}
  BY DEF Overflows
<1> HIDE DEF undefined
<1>8. CASE i.op \in {"ADD", "ADDI", "SUB"}
  <2>1. i.op \notin LoadOps \cup StoreOps
    BY <1>8 DEF LoadOps, StoreOps
  <2>2. Exception(i, c, mem) = IF Overflows(i, c) THEN "overflow" ELSE "none"
    BY <1>8, <2>1 DEF Exception
  <2>3. Reference!Raises(i, s) = IF Overflows(i, c) THEN "overflow" ELSE "none"
    BY <1>1, <1>3, <1>8, <2>1 DEF Reference!Raises
  <2>4. QED
    BY <2>2, <2>3 DEF s
<1>9. CASE i.op \in LoadOps \cup StoreOps
  <2>1. i.op \notin {"ADD", "ADDI", "SUB", "DIV", "RES", "UNIMP"}
    BY <1>9 DEF LoadOps, StoreOps
  <2>2. Exception(i, c, mem)
          = IF Refused(mem, Access(i, c), Bytes(i)) THEN "address error" ELSE "none"
    BY <1>7, <1>9, <2>1 DEF Exception
  <2>3. Reference!Raises(i, s)
          = IF Refused(mem, Access(i, c), Bytes(i)) THEN "address error" ELSE "none"
    BY <1>1, <1>2, <1>3, <1>7, <1>9, <2>1 DEF Reference!Raises
  <2>4. QED
    BY <2>2, <2>3 DEF s
<1>10. CASE i.op \notin {"ADD", "ADDI", "SUB"} /\ i.op \notin LoadOps \cup StoreOps
  <2>1. Exception(i, c, mem) = IF undefined THEN "undefined"
                               ELSE IF i.op \in {"RES", "UNIMP"} THEN "illegal instruction" ELSE "none"
    BY <1>6, <1>7, <1>10 DEF Exception
  <2>2. Reference!Raises(i, s)
           = IF undefined THEN "undefined"
             ELSE IF i.op \in {"RES", "UNIMP"} THEN "illegal instruction" ELSE "none"
    BY <1>1, <1>3, <1>5, <1>7, <1>10 DEF Reference!Raises
  <2>3. QED
    BY <2>1, <2>2 DEF s
<1>11. QED
  BY <1>8, <1>9, <1>10

\* A word is the sum of its low and its high bytes, wherever it is cut.
LEMMA Cuts ==
    ASSUME NEW b0 \in OneByte, NEW b1 \in OneByte, NEW b2 \in OneByte, NEW b3 \in OneByte,
           NEW x, x = OfFour(b0, b1, b2, b3)
    PROVE  /\ OfFour(0, 0, 0, 0) = 0 /\ x \in Int
           /\ OfFour(b0, 0, 0, 0) \in Int /\ OfFour(0, b1, b2, b3) \in Int
           /\ OfFour(b0, 0, 0, 0) + OfFour(0, b1, b2, b3) = x
           /\ OfFour(b0, b1, 0, 0) \in Int /\ OfFour(0, 0, b2, b3) \in Int
           /\ OfFour(b0, b1, 0, 0) + OfFour(0, 0, b2, b3) = x
           /\ OfFour(b0, b1, b2, 0) \in Int /\ OfFour(0, 0, 0, b3) \in Int
           /\ OfFour(b0, b1, b2, 0) + OfFour(0, 0, 0, b3) = x
<1> DEFINE v == Weight(1)
           w == Weight(2)
           z == Weight(3)
<1>1. v \in Int /\ w \in Int /\ z \in Int
  BY Powers
<1>2. b0 \in Int /\ b1 \in Int /\ b2 \in Int /\ b3 \in Int
  BY ZeroByte
<1> HIDE DEF v, w, z
<1>3. b1 * v \in Int /\ b2 * w \in Int /\ b3 * z \in Int
  BY <1>1, <1>2
<1>4. x = b0 + b1 * v + b2 * w + b3 * z
  BY DEF OfFour, v, w, z
<1>5. /\ OfFour(b0, 0, 0, 0) = b0 /\ OfFour(0, b1, b2, b3) = b1 * v + b2 * w + b3 * z
      /\ OfFour(b0, b1, 0, 0) = b0 + b1 * v /\ OfFour(0, 0, b2, b3) = b2 * w + b3 * z
      /\ OfFour(b0, b1, b2, 0) = b0 + b1 * v + b2 * w /\ OfFour(0, 0, 0, b3) = b3 * z
      /\ OfFour(0, 0, 0, 0) = 0
  BY <1>1, <1>2 DEF OfFour, v, w, z
<1>6. QED
  BY <1>2, <1>3, <1>4, <1>5

\* The bytes of a word that are left of it by cuts and shifts.
LEMMA Slices ==
    ASSUME NEW b0 \in OneByte, NEW b1 \in OneByte, NEW b2 \in OneByte, NEW b3 \in OneByte,
           NEW x, x = OfFour(b0, b1, b2, b3)
    PROVE  /\ LowBytes(x, 0) = OfFour(0, 0, 0, 0) /\ LowBytes(x, 1) = OfFour(b0, 0, 0, 0)
           /\ LowBytes(x, 2) = OfFour(b0, b1, 0, 0) /\ LowBytes(x, 3) = OfFour(b0, b1, b2, 0)
           /\ LowBytes(x, 4) = OfFour(b0, b1, b2, b3)
           /\ HighBytes(x, 1) = OfFour(0, b1, b2, b3) /\ HighBytes(x, 2) = OfFour(0, 0, b2, b3)
           /\ HighBytes(x, 3) = OfFour(0, 0, 0, b3) /\ HighBytes(x, 4) = OfFour(0, 0, 0, 0)
           /\ ShlBytes(x, 0) = OfFour(b0, b1, b2, b3) /\ ShlBytes(x, 1) = OfFour(0, b0, b1, b2)
           /\ ShlBytes(x, 2) = OfFour(0, 0, b0, b1) /\ ShlBytes(x, 3) = OfFour(0, 0, 0, b0)
           /\ ShrBytes(x, 0) = OfFour(b0, b1, b2, b3) /\ ShrBytes(x, 1) = OfFour(b1, b2, b3, 0)
           /\ ShrBytes(x, 2) = OfFour(b2, b3, 0, 0) /\ ShrBytes(x, 3) = OfFour(b3, 0, 0, 0)
<1> DEFINE v == Weight(1)
           w == Weight(2)
           z == Weight(3)
<1>1. /\ v \in Nat \ {0} /\ w \in Nat \ {0} /\ z \in Nat \ {0}
      /\ w = v * v /\ z = v * w /\ WordSize = w * w /\ WordSize = v * z /\ WordSize = z * v
      /\ Weight(0) = 1 /\ Weight(4) = WordSize
  BY Powers, Weights
<1>2. /\ x \in Word /\ x \in Int
      /\ x % v = b0 /\ x \div v = OfFour(b1, b2, b3, 0)
      /\ x % w = OfFour(b0, b1, 0, 0) /\ x \div w = OfFour(b2, b3, 0, 0)
      /\ x % z = OfFour(b0, b1, b2, 0) /\ x \div z = b3
  <2>1. x \in Word
    BY FourBytes
  <2>2. x \in Int
    BY <2>1 DEF Word
  <2>3. QED
    BY <2>1, <2>2, FourBytes
<1>3. b0 \in Int /\ b1 \in Int /\ b2 \in Int /\ b3 \in Int
  BY ZeroByte
<1>4. OfFour(b0, 0, 0, 0) = b0 /\ OfFour(b3, 0, 0, 0) = b3 /\ OfFour(0, 0, 0, 0) = 0
  BY ZeroByte
<1>5. ToWord(x) = x
  BY <1>2, ToWordIs
<1>6. /\ LowBytes(x, 0) = 0 /\ LowBytes(x, 1) = b0
      /\ LowBytes(x, 2) = OfFour(b0, b1, 0, 0) /\ LowBytes(x, 3) = OfFour(b0, b1, b2, 0)
      /\ LowBytes(x, 4) = x
  <2>1. x % 1 = 0
    BY <1>2
  <2>2. QED
    BY <1>1, <1>2, <1>5, <2>1 DEF LowBytes, ToWord
<1>7. /\ ShrBytes(x, 0) = x /\ ShrBytes(x, 1) = OfFour(b1, b2, b3, 0)
      /\ ShrBytes(x, 2) = OfFour(b2, b3, 0, 0) /\ ShrBytes(x, 3) = b3
  <2>1. \A n : ShrBytes(x, n) = x \div Weight(n)
    BY DEF ShrBytes, Shr, Weight
  <2>2. x \div 1 = x
    BY <1>2
  <2>3. QED
    BY <1>1, <1>2, <2>1, <2>2
<1>8. /\ ShlBytes(x, 0) = x /\ ShlBytes(x, 1) = (x % z) * v
      /\ ShlBytes(x, 2) = (x % w) * w /\ ShlBytes(x, 3) = (x % v) * z
  <2>1. \A n : ShlBytes(x, n) = (x * Weight(n)) % WordSize
    BY DEF ShlBytes, Shl, Weight, ToWord
  <2>2. x * 1 = x
    BY <1>2
  <2>3. (x * v) % (v * z) = (x % z) * v
    BY <1>1, <1>2, ModMod
  <2>4. (x * w) % (w * w) = (x % w) * w
    BY <1>1, <1>2, ModMod
  <2>5. (x * z) % (z * v) = (x % v) * z
    BY <1>1, <1>2, ModMod
  <2>6. x % WordSize = x
    BY <1>5 DEF ToWord
  <2>7. ShlBytes(x, 0) = x
    BY <1>1, <2>1, <2>2, <2>6
  <2> HIDE DEF v, w, z
  <2>8. ShlBytes(x, 1) = (x * v) % WordSize /\ ShlBytes(x, 2) = (x * w) % WordSize
        /\ ShlBytes(x, 3) = (x * z) % WordSize
    BY <2>1 DEF v, w, z
  <2>9. QED
    BY <1>1, <2>3, <2>4, <2>5, <2>7, <2>8
<1>9. /\ OfFour(b0, b1, b2, 0) * v = OfFour(0, b0, b1, b2)
      /\ OfFour(b0, b1, 0, 0) * w = OfFour(0, 0, b0, b1)
      /\ b0 * z = OfFour(0, 0, 0, b0)
  <2> HIDE DEF v, w, z
  <2>1. w \in Int /\ v \in Int /\ z \in Int
    BY <1>1
  <2>2. (b0 + b1 * v + b2 * w) * v = b0 * v + b1 * (v * v) + b2 * (w * v)
    BY <1>3, <2>1
  <2>3. (b0 + b1 * v) * w = b0 * w + b1 * (v * w)
    BY <1>3, <2>1
  <2>4. w * v = z
    BY <1>1, <2>1
  <2>5. /\ OfFour(b0, b1, b2, 0) = b0 + b1 * v + b2 * w
        /\ OfFour(b0, b1, 0, 0) = b0 + b1 * v
        /\ OfFour(0, b0, b1, b2) = b0 * v + b1 * w + b2 * z
        /\ OfFour(0, 0, b0, b1) = b0 * w + b1 * z
        /\ OfFour(0, 0, 0, b0) = b0 * z
    BY <1>3, <2>1 DEF OfFour, v, w, z
  <2>6. QED
    BY <1>1, <2>2, <2>3, <2>4, <2>5
<1>10. /\ HighBytes(x, 1) = OfFour(0, b1, b2, b3) /\ HighBytes(x, 2) = OfFour(0, 0, b2, b3)
       /\ HighBytes(x, 3) = OfFour(0, 0, 0, b3) /\ HighBytes(x, 4) = 0
  <2>1. x - x = 0
    BY <1>2
  <2>2. /\ OfFour(b0, 0, 0, 0) + OfFour(0, b1, b2, b3) = x
        /\ OfFour(b0, b1, 0, 0) + OfFour(0, 0, b2, b3) = x
        /\ OfFour(b0, b1, b2, 0) + OfFour(0, 0, 0, b3) = x
        /\ OfFour(0, b1, b2, b3) \in Int /\ OfFour(0, 0, b2, b3) \in Int
        /\ OfFour(0, 0, 0, b3) \in Int /\ OfFour(b0, 0, 0, 0) \in Int
        /\ OfFour(b0, b1, 0, 0) \in Int /\ OfFour(b0, b1, b2, 0) \in Int
    BY Cuts
  <2>3. QED
    BY <1>2, <1>4, <1>6, <2>1, <2>2 DEF HighBytes
<1> HIDE DEF v, w, z
<1>11. QED
  BY <1>2, <1>4, <1>6, <1>7, <1>8, <1>9, <1>10

\* A load that is not refused: where it reads, all bytes are there.
LEMMA ReadsThere ==
    ASSUME NEW mem, WholeWords(mem), NEW x \in Nat, NEW size \in {1, 2, 4}, ~ Refused(mem, x, size)
    PROVE  \A k \in 0 .. size - 1 : x + k \in DOMAIN mem /\ mem[x + k] \in OneByte
<1>1. x % size = 0 /\ x \in DOMAIN mem
  BY DEF Refused, Unaligned
<1>2. SUFFICES ASSUME NEW k \in 0 .. size - 1 PROVE x + k \in DOMAIN mem
  BY DEF WholeWords
<1>3. \A j \in 0 .. 3 : (x \div 4) * 4 + j \in DOMAIN mem
  BY <1>1 DEF WholeWords
<1>4. PICK j \in 0 .. 3 : x + k = (x \div 4) * 4 + j
  <2>1. (x % 4) + k \in 0 .. 3 /\ x + k = (x \div 4) * 4 + ((x % 4) + k)
    BY <1>1
  <2>2. QED
    BY <2>1
<1>5. QED
  BY <1>3, <1>4

\* What SignExtend makes of a byte or a half word is a word.
LEMMA SignExtendWord ==
    ASSUME NEW x \in Int, NEW n \in {1, 2}
    PROVE  SignExtend(x, n) \in Word
<1> DEFINE low == LowBytes(x, n)
<1>1. Weight(n) \in Nat \ {0} /\ Weight(n) <= WordSize
  <2>1. Weight(1) \in Nat \ {0} /\ Weight(2) \in Nat \ {0} /\ Weight(3) \in Nat \ {0}
        /\ WordSize = Weight(2) * Weight(2) /\ WordSize = Weight(1) * Weight(3)
    BY Powers
  <2>2. \A p, q \in Nat \ {0} : p <= p * q
    OBVIOUS
  <2>3. QED
    BY <2>1, <2>2
<1>2. low \in 0 .. Weight(n) - 1
  BY <1>1, Division DEF LowBytes
<1>3. low \in Word /\ low - Weight(n) \in Int
  BY <1>1, <1>2, Halving DEF Word
<1> HIDE DEF low
<1>4. ToWord(low - Weight(n)) \in Word
  BY <1>3, ToWordIs
<1>5. QED
  BY <1>3, <1>4 DEF SignExtend, low

\* Loads of bytes, half words and words.
LEMMA PlainLoads ==
    ASSUME NEW c, NEW reg, Fits(c, reg), NEW mem, WholeWords(mem), NEW i, WellFormed(i, reg),
           Demands(i, c), i.op \in LoadOps, ~ Merging(i), ~ Refused(mem, Access(i, c), Bytes(i))
    PROVE  /\ NextLoad(i, c, mem) \in Word
           /\ Reference!Loaded(i, SeenOf(c, mem)) = NextLoad(i, c, mem)
<1> DEFINE s == SeenOf(c, mem)
           x == Tmp(i, c)
           n == Bytes(i)
           Here(k) == IF k < n THEN mem[x + k] ELSE 0
           value == ReadMem(mem, x, n)
<1>1. s.mem = mem
  BY DEF SeenOf
<1>2. Reference!Address(i, s) = x /\ Reference!Size(i.op) = n /\ x \in Nat
  BY AddressIs
<1>3. n \in {1, 2, 4} /\ Access(i, c) = x /\ ~ Refused(mem, x, n)
  BY DEF Bytes, Access
<1> HIDE DEF s, x, n
<1>4. \A k \in 0 .. n - 1 : mem[x + k] \in OneByte
  BY <1>2, <1>3, ReadsThere
<1>5. \A k \in 0 .. 3 : Here(k) \in OneByte
  BY <1>3, <1>4, ZeroByte
<1>6. value = OfFour(Here(0), Here(1), Here(2), Here(3))
  <2>1. value = OfFour(mem[x], IF n > 1 THEN mem[x + 1] ELSE 0,
                       IF n > 2 THEN mem[x + 2] ELSE 0, IF n > 2 THEN mem[x + 3] ELSE 0)
    BY <1>2, <1>3, <1>4, ReadMemIs
  <2>2. x + 0 = x
    BY <1>2
  <2>3. /\ Here(0) = mem[x]
        /\ Here(1) = IF n > 1 THEN mem[x + 1] ELSE 0
        /\ Here(2) = IF n > 2 THEN mem[x + 2] ELSE 0
        /\ Here(3) = IF n > 2 THEN mem[x + 3] ELSE 0
    BY <1>3, <2>2
  <2> HIDE DEF Here, value
  <2>4. QED
    BY <2>1, <2>3
<1>7. /\ i.op \in {"LW", "LBU", "LHU"} => Reference!Loaded(i, s) = value
      /\ i.op \in {"LB", "LH"} => Reference!Loaded(i, s) = SignExtend(value, n)
  <2>1. ASSUME i.op \in {"LW", "LBU", "LHU"}
        PROVE  Reference!Loaded(i, s) = OfFour(Here(0), Here(1), Here(2), Here(3))
    BY <1>1, <1>2, <2>1, SameNumbers DEF Reference!Loaded, Reference!OfBytes, OfFour
  <2>2. ASSUME i.op \in {"LB", "LH"}
        PROVE  Reference!Loaded(i, s) = SignExtend(OfFour(Here(0), Here(1), Here(2), Here(3)), n)
    BY <1>1, <1>2, <2>2, SameNumbers, SameWords DEF Reference!Loaded, Reference!OfBytes, OfFour
  <2> HIDE DEF Here, value
  <2>3. QED
    BY <1>6, <2>1, <2>2
<1>8. value \in Word
  <2>1. Here(0) \in OneByte /\ Here(1) \in OneByte /\ Here(2) \in OneByte /\ Here(3) \in OneByte
    BY <1>5
  <2> HIDE DEF Here, value
  <2>2. QED
    BY <1>6, <2>1, FourBytes
<1>9. SignExtend(value, n) \in Word \/ n = 4
  <2>1. value \in Int
    BY <1>8 DEF Word
  <2> HIDE DEF value
  <2>2. QED
    BY <1>3, <2>1, SignExtendWord
<1>10. /\ i.op \in {"LW", "LBU", "LHU"} => NextLoad(i, c, mem) = value
       /\ i.op \in {"LB", "LH"} => NextLoad(i, c, mem) = SignExtend(value, n) /\ n # 4
       /\ i.op \in {"LW", "LBU", "LHU", "LB", "LH"}
  BY <1>3 DEF NextLoad, LoadOps, Merging, Bytes, n
<1> HIDE DEF value, Here
<1>11. QED
  BY <1>7, <1>8, <1>9, <1>10 DEF s

\* What LWL and LWR make of the word they find and of what the register holds.
LEMMA MergedLoads ==
    ASSUME NEW c, NEW reg, Fits(c, reg), NEW mem, WholeWords(mem), NEW i, WellFormed(i, reg),
           Demands(i, c), i.op \in LoadOps, Merging(i), ~ Refused(mem, Access(i, c), Bytes(i))
    PROVE  /\ NextLoad(i, c, mem) \in Word
           /\ i.rt # 0 => Reference!Loaded(i, SeenOf(c, mem)) = NextLoad(i, c, mem)
<1> DEFINE s == SeenOf(c, mem)
           x == Tmp(i, c)
           b == Byte(i, c)
           base == x - b
           value == ReadMem(mem, base, 4)
           old == PendingRt(i, c)
           o(k) == ByteOf(old, k)
           m(k) == mem[base + k]
           Left(k) == IF k >= 3 - b THEN m(k - (3 - b)) ELSE o(k)
           Right(k) == IF k <= 3 - b THEN m(b + k) ELSE o(k)
<1>1. s.mem = mem
  BY DEF SeenOf
<1>2. Reference!Address(i, s) = x /\ x \in Nat
  BY AddressIs
<1>3. /\ i.op \in {"LWL", "LWR"} /\ Bytes(i) = 4 /\ Access(i, c) = base
  BY DEF LoadOps, Merging, Bytes, Access, Byte
<1>4. b \in 0 .. 3 /\ base \in Nat /\ b = x % 4
  BY <1>2 DEF Byte
<1>5. i.rt \in reg
  BY DEF WellFormed
<1>6. old \in Word
  BY <1>5 DEF PendingRt, Fits
<1>7. i.rt # 0 => s.gpr[i.rt] = old
  BY <1>5, SeenGpr DEF PendingRt
<1> HIDE DEF s, old, x
<1>8. o(0) \in OneByte /\ o(1) \in OneByte /\ o(2) \in OneByte /\ o(3) \in OneByte
      /\ old = OfFour(o(0), o(1), o(2), o(3))
  BY <1>6, WordOfBytes
<1>9. m(0) \in OneByte /\ m(1) \in OneByte /\ m(2) \in OneByte /\ m(3) \in OneByte
  <2>1. \A k \in 0 .. 4 - 1 : mem[base + k] \in OneByte
    BY <1>3, <1>4, ReadsThere
  <2>2. QED
    BY <2>1
<1>10. value = OfFour(m(0), m(1), m(2), m(3))
  <2>1. \A k \in 0 .. 4 - 1 : mem[base + k] \in OneByte
    BY <1>3, <1>4, ReadsThere
  <2>2. value = OfFour(mem[base], mem[base + 1], mem[base + 2], mem[base + 3])
    <3> HIDE DEF base
    <3>1. QED
      BY <1>4, <2>1, ReadMemIs
  <2>3. base + 0 = base
    BY <1>4
  <2>4. QED
    BY <2>2, <2>3
<1>11. i.op = "LWL" => NextLoad(i, c, mem) = LowBytes(old, 3 - b) + ShlBytes(value, 3 - b)
  BY <1>3 DEF NextLoad, old
<1>12. i.op = "LWR" => NextLoad(i, c, mem) = HighBytes(old, 3 - b + 1) + ShrBytes(value, b)
  BY <1>3 DEF NextLoad, old
<1>13. i.op = "LWL" /\ i.rt # 0 =>
         Reference!Loaded(i, s) = OfFour(Left(0), Left(1), Left(2), Left(3))
  <2>1. ASSUME i.op = "LWL", i.rt # 0
        PROVE  Reference!Loaded(i, s)
                 = OfFour(IF 0 >= 3 - (x % 4) THEN mem[x - (3 - 0)] ELSE ByteOf(old, 0),
                          IF 1 >= 3 - (x % 4) THEN mem[x - (3 - 1)] ELSE ByteOf(old, 1),
                          IF 2 >= 3 - (x % 4) THEN mem[x - (3 - 2)] ELSE ByteOf(old, 2),
                          IF 3 >= 3 - (x % 4) THEN mem[x - (3 - 3)] ELSE ByteOf(old, 3))
    BY <1>1, <1>2, <1>7, <2>1, SameNumbers, SameWords DEF Reference!Loaded, Reference!OfBytes, OfFour
  <2>2. \A k \in 0 .. 3 : base + (k - (3 - b)) = x - (3 - k)
    BY <1>2, <1>4
  <2>3. \A k \in 0 .. 3 : Left(k) = IF k >= 3 - (x % 4) THEN mem[x - (3 - k)] ELSE ByteOf(old, k)
    BY <1>4, <2>2
  <2> HIDE DEF Left
  <2>4. QED
    BY <2>1, <2>3
<1>14. i.op = "LWR" /\ i.rt # 0 =>
         Reference!Loaded(i, s) = OfFour(Right(0), Right(1), Right(2), Right(3))
  <2>1. ASSUME i.op = "LWR", i.rt # 0
        PROVE  Reference!Loaded(i, s)
                 = OfFour(IF 0 <= 3 - (x % 4) THEN mem[x + 0] ELSE ByteOf(old, 0),
                          IF 1 <= 3 - (x % 4) THEN mem[x + 1] ELSE ByteOf(old, 1),
                          IF 2 <= 3 - (x % 4) THEN mem[x + 2] ELSE ByteOf(old, 2),
                          IF 3 <= 3 - (x % 4) THEN mem[x + 3] ELSE ByteOf(old, 3))
    BY <1>1, <1>2, <1>7, <2>1, SameNumbers, SameWords DEF Reference!Loaded, Reference!OfBytes, OfFour
  <2>2. \A k \in 0 .. 3 : base + (b + k) = x + k
    BY <1>2, <1>4
  <2>3. \A k \in 0 .. 3 : Right(k) = IF k <= 3 - (x % 4) THEN mem[x + k] ELSE ByteOf(old, k)
    BY <1>4, <2>2
  <2> HIDE DEF Right
  <2>4. QED
    BY <2>1, <2>3
<1>15. /\ b = 0 => /\ OfFour(Left(0), Left(1), Left(2), Left(3)) = OfFour(o(0), o(1), o(2), m(0))
                   /\ OfFour(Right(0), Right(1), Right(2), Right(3)) = OfFour(m(0), m(1), m(2), m(3))
       /\ b = 1 => /\ OfFour(Left(0), Left(1), Left(2), Left(3)) = OfFour(o(0), o(1), m(0), m(1))
                   /\ OfFour(Right(0), Right(1), Right(2), Right(3)) = OfFour(m(1), m(2), m(3), o(3))
       /\ b = 2 => /\ OfFour(Left(0), Left(1), Left(2), Left(3)) = OfFour(o(0), m(0), m(1), m(2))
                   /\ OfFour(Right(0), Right(1), Right(2), Right(3)) = OfFour(m(2), m(3), o(2), o(3))
       /\ b = 3 => /\ OfFour(Left(0), Left(1), Left(2), Left(3)) = OfFour(m(0), m(1), m(2), m(3))
                   /\ OfFour(Right(0), Right(1), Right(2), Right(3)) = OfFour(m(3), o(1), o(2), o(3))
  <2> HIDE DEF m, o, b
  <2>1. QED
    OBVIOUS
<1> HIDE DEF m, o, b, base, value, Left, Right
<1> DEFINE new == NextLoad(i, c, mem)
<1>16. CASE i.op = "LWL"
  <2>1. new = OfFour(Left(0), Left(1), Left(2), Left(3)) /\ new \in Word
    <3>1. CASE b = 0
      <4>1. new = LowBytes(old, 3) + ShlBytes(value, 3)
        BY <1>11, <1>16, <3>1
      <4>2. new = OfFour(o(0), o(1), o(2), 0) + OfFour(0, 0, 0, m(0))
        BY <1>8, <1>9, <1>10, <4>1, Slices
      <4>3. new = OfFour(o(0), o(1), o(2), m(0))
        BY <1>8, <1>9, <4>2, Cuts
      <4>4. QED
        BY <1>8, <1>9, <1>15, <3>1, <4>3, FourBytes
    <3>2. CASE b = 1
      <4>1. new = LowBytes(old, 2) + ShlBytes(value, 2)
        BY <1>11, <1>16, <3>2
      <4>2. new = OfFour(o(0), o(1), 0, 0) + OfFour(0, 0, m(0), m(1))
        BY <1>8, <1>9, <1>10, <4>1, Slices
      <4>3. new = OfFour(o(0), o(1), m(0), m(1))
        BY <1>8, <1>9, <4>2, Cuts
      <4>4. QED
        BY <1>8, <1>9, <1>15, <3>2, <4>3, FourBytes
    <3>3. CASE b = 2
      <4>1. new = LowBytes(old, 1) + ShlBytes(value, 1)
        BY <1>11, <1>16, <3>3
      <4>2. new = OfFour(o(0), 0, 0, 0) + OfFour(0, m(0), m(1), m(2))
        BY <1>8, <1>9, <1>10, <4>1, Slices
      <4>3. new = OfFour(o(0), m(0), m(1), m(2))
        BY <1>8, <1>9, <4>2, Cuts
      <4>4. QED
        BY <1>8, <1>9, <1>15, <3>3, <4>3, FourBytes
    <3>4. CASE b = 3
      <4>1. new = LowBytes(old, 0) + ShlBytes(value, 0)
        BY <1>11, <1>16, <3>4
      <4>2. new = OfFour(0, 0, 0, 0) + OfFour(m(0), m(1), m(2), m(3))
        BY <1>8, <1>9, <1>10, <4>1, Slices
      <4>3. OfFour(0, 0, 0, 0) = 0 /\ OfFour(m(0), m(1), m(2), m(3)) \in Int
        BY <1>9, Cuts
      <4>4. new = OfFour(m(0), m(1), m(2), m(3))
        BY <4>2, <4>3
      <4>5. QED
        BY <1>9, <1>15, <3>4, <4>4, FourBytes
    <3>5. QED
      BY <1>4, <3>1, <3>2, <3>3, <3>4
  <2>2. QED
    BY <1>13, <1>16, <2>1 DEF s
<1>17. CASE i.op = "LWR"
  <2>1. new = OfFour(Right(0), Right(1), Right(2), Right(3)) /\ new \in Word
    <3>1. CASE b = 0
      <4>1. new = HighBytes(old, 4) + ShrBytes(value, 0)
        BY <1>12, <1>17, <3>1
      <4>2. new = OfFour(0, 0, 0, 0) + OfFour(m(0), m(1), m(2), m(3))
        BY <1>8, <1>9, <1>10, <4>1, Slices
      <4>3. OfFour(0, 0, 0, 0) = 0 /\ OfFour(m(0), m(1), m(2), m(3)) \in Int
        BY <1>9, Cuts
      <4>4. new = OfFour(m(0), m(1), m(2), m(3))
        BY <4>2, <4>3
      <4>5. QED
        BY <1>9, <1>15, <3>1, <4>4, FourBytes
    <3>2. CASE b = 1
      <4>1. new = HighBytes(old, 3) + ShrBytes(value, 1)
        BY <1>12, <1>17, <3>2
      <4>2. new = OfFour(0, 0, 0, o(3)) + OfFour(m(1), m(2), m(3), 0)
        BY <1>8, <1>9, <1>10, <4>1, Slices
      <4>3. new = OfFour(m(1), m(2), m(3), o(3))
        <5>1. /\ OfFour(m(1), m(2), m(3), 0) + OfFour(0, 0, 0, o(3)) = OfFour(m(1), m(2), m(3), o(3))
              /\ OfFour(m(1), m(2), m(3), 0) \in Int /\ OfFour(0, 0, 0, o(3)) \in Int
          BY <1>8, <1>9, Cuts
        <5>2. QED
          BY <4>2, <5>1
      <4>4. QED
        BY <1>8, <1>9, <1>15, <3>2, <4>3, FourBytes
    <3>3. CASE b = 2
      <4>1. new = HighBytes(old, 2) + ShrBytes(value, 2)
        BY <1>12, <1>17, <3>3
      <4>2. new = OfFour(0, 0, o(2), o(3)) + OfFour(m(2), m(3), 0, 0)
        BY <1>8, <1>9, <1>10, <4>1, Slices
      <4>3. new = OfFour(m(2), m(3), o(2), o(3))
        <5>1. /\ OfFour(m(2), m(3), 0, 0) + OfFour(0, 0, o(2), o(3)) = OfFour(m(2), m(3), o(2), o(3))
              /\ OfFour(m(2), m(3), 0, 0) \in Int /\ OfFour(0, 0, o(2), o(3)) \in Int
          BY <1>8, <1>9, Cuts
        <5>2. QED
          BY <4>2, <5>1
      <4>4. QED
        BY <1>8, <1>9, <1>15, <3>3, <4>3, FourBytes
    <3>4. CASE b = 3
      <4>1. new = HighBytes(old, 1) + ShrBytes(value, 3)
        BY <1>12, <1>17, <3>4
      <4>2. new = OfFour(0, o(1), o(2), o(3)) + OfFour(m(3), 0, 0, 0)
        BY <1>8, <1>9, <1>10, <4>1, Slices
      <4>3. new = OfFour(m(3), o(1), o(2), o(3))
        <5>1. /\ OfFour(m(3), 0, 0, 0) + OfFour(0, o(1), o(2), o(3)) = OfFour(m(3), o(1), o(2), o(3))
              /\ OfFour(m(3), 0, 0, 0) \in Int /\ OfFour(0, o(1), o(2), o(3)) \in Int
          BY <1>8, <1>9, Cuts
        <5>2. QED
          BY <4>2, <5>1
      <4>4. QED
        BY <1>8, <1>9, <1>15, <3>4, <4>3, FourBytes
    <3>5. QED
      BY <1>4, <3>1, <3>2, <3>3, <3>4
  <2>2. QED
    BY <1>14, <1>17, <2>1 DEF s
<1>18. QED
  BY <1>3, <1>16, <1>17

\* Memory after a store of what value's bytes are.
LEMMA WriteMemWhole ==
    ASSUME NEW mem, WholeWords(mem), NEW addr \in Nat, NEW size \in Nat, NEW value \in Int
    PROVE  WholeWords(WriteMem(mem, addr, size, value))
<1> DEFINE new == WriteMem(mem, addr, size, value)
<1>1. \A x \in Nat : ByteOf(value, x) \in OneByte
  <2>1. \A d \in Nat \ {0} : value \div d \in Int
    BY Division
  <2>2. \A x \in Nat : Weight(x) \in Nat \ {0}
    BY Weights
  <2>3. Weight(1) \in Nat \ {0}
    BY Weights
  <2>4. \A a \in Int : a % Weight(1) \in 0 .. Weight(1) - 1
    BY <2>3, Division
  <2>5. QED
    BY <2>1, <2>2, <2>4 DEF ByteOf, LowBytes, OneByte
<1>2. DOMAIN new = DOMAIN mem
  BY DEF WriteMem
<1>3. \A x \in DOMAIN mem : x \in Nat /\ mem[x] \in OneByte
  BY DEF WholeWords
<1>4. \A x \in DOMAIN mem : new[x] \in OneByte
  <2>1. SUFFICES ASSUME NEW x \in DOMAIN mem PROVE new[x] \in OneByte
    OBVIOUS
  <2>2. x \in addr .. addr + size - 1 => x - addr \in Nat
    BY <1>3
  <2>3. new[x] = IF x \in addr .. addr + size - 1 THEN ByteOf(value, x - addr) ELSE mem[x]
    BY DEF WriteMem
  <2> HIDE DEF new
  <2>4. QED
    BY <1>1, <1>3, <2>2, <2>3
<1>5. new = [x \in DOMAIN new |-> new[x]]
  BY DEF WriteMem
<1> HIDE DEF new
<1>6. new \in [DOMAIN new -> OneByte]
  BY <1>2, <1>4, <1>5
<1>7. WholeWords(new)
  BY <1>2, <1>6 DEF WholeWords
<1>8. QED
  BY <1>7 DEF new

\* What a store writes into memory, and that the memory still consists of words.
LEMMA StoresAgree ==
    ASSUME NEW c, NEW reg, Fits(c, reg), NEW mem, WholeWords(mem), NEW i, WellFormed(i, reg),
           Demands(i, c), i.op \in StoreOps, ~ Refused(mem, Access(i, c), Bytes(i))
    PROVE  LET new == WriteMem(mem, Access(i, c), Bytes(i), StoreValue(i, c, mem))
           IN  Reference!Stored(i, SeenOf(c, mem)) = new /\ WholeWords(new)
<1> DEFINE s == SeenOf(c, mem)
           x == Tmp(i, c)
           v == c.gpr[i.rt]
           new == WriteMem(mem, Access(i, c), Bytes(i), StoreValue(i, c, mem))
<1>1. s.mem = mem
  BY DEF SeenOf
<1>2. Reference!Address(i, s) = x /\ Reference!Size(i.op) = Bytes(i) /\ x \in Nat
  BY AddressIs
<1>3. i.rt \in reg /\ i.rs \in reg
  BY DEF WellFormed
<1>4. s.gpr[i.rt] = v
  <2>1. i.rt \in Reads(i)
    BY ReadsOf
  <2>2. QED
    BY <1>3, <2>1, OperandsAgree
<1>5. v \in Word /\ v \in Int
  <2>1. v \in Word
    BY <1>3 DEF Fits
  <2>2. QED
    BY <2>1 DEF Word
<1> DEFINE o(k) == ByteOf(v, k)
<1>6. o(0) \in OneByte /\ o(1) \in OneByte /\ o(2) \in OneByte /\ o(3) \in OneByte
      /\ v = OfFour(o(0), o(1), o(2), o(3))
  BY <1>5, WordOfBytes
<1>7. \A y \in DOMAIN mem : y \in Nat
  BY DEF WholeWords
<1>8. CASE ~ Merging(i)
  <2>1. Access(i, c) = x /\ StoreValue(i, c, mem) = v /\ Bytes(i) \in {1, 2, 4}
    BY <1>8 DEF Access, StoreValue, Merging, Bytes
  <2>2. WholeWords(new)
    BY <1>2, <1>5, <2>1, WriteMemWhole
  <2>3. i.op \in {"SB", "SH", "SW"}
    BY <1>8 DEF Merging, StoreOps
  <2>4. Reference!Stored(i, s) = [y \in DOMAIN mem |->
           IF y \in x .. x + Bytes(i) - 1 THEN ByteOf(v, y - x) ELSE mem[y]]
    <3> HIDE DEF s, x, v
    <3>1. QED
      BY <1>1, <1>2, <1>4, <2>3, SameWords DEF Reference!Stored
  <2>5. QED
    BY <2>1, <2>2, <2>4 DEF WriteMem
<1>9. CASE Merging(i)
  <2> DEFINE b == Byte(i, c)
             base == x - b
             value == ReadMem(mem, base, 4)
             m(k) == mem[base + k]
             stored == StoreValue(i, c, mem)
             ref == Reference!Stored(i, s)
  <2>1. i.op \in {"SWL", "SWR"} /\ Bytes(i) = 4 /\ Access(i, c) = base
    BY <1>9 DEF Merging, StoreOps, Bytes, Access, Byte
  <2>2. b \in 0 .. 3 /\ base \in Nat /\ b = x % 4
    BY <1>2 DEF Byte
  <2>3. base - (base % 4) = base /\ x - (x % 4) = base
    BY <1>2, <2>2
  <2>4. \A k \in 0 .. 4 - 1 : mem[base + k] \in OneByte
    BY <2>1, <2>2, ReadsThere
  <2>5. m(0) \in OneByte /\ m(1) \in OneByte /\ m(2) \in OneByte /\ m(3) \in OneByte
    BY <2>4
  <2>6. value = OfFour(m(0), m(1), m(2), m(3))
    <3>1. value = OfFour(mem[base], mem[base + 1], mem[base + 2], mem[base + 3])
      <4> HIDE DEF base
      <4>1. QED
        BY <2>2, <2>4, ReadMemIs
    <3>2. base + 0 = base
      BY <2>2
    <3>3. QED
      BY <3>1, <3>2
  <2>7. i.op = "SWL" => stored = HighBytes(value, 4 - (3 - b)) + ShrBytes(v, 3 - b)
    BY <2>1 DEF StoreValue
  <2>8. i.op = "SWR" => stored = LowBytes(value, b) + ShlBytes(v, b)
    BY <2>1 DEF StoreValue
  <2>9. ref = [y \in DOMAIN mem |->
                 IF i.op = "SWL" /\ y \in base .. x THEN ByteOf(v, 3 - (x - y))
                 ELSE IF i.op = "SWR" /\ y \in x .. base + 3 THEN ByteOf(v, y - x) ELSE mem[y]]
    <3>1. Reference!Stored(i, s)
            = [y \in DOMAIN mem |->
                 IF i.op = "SWL" /\ y \in x - (x % 4) .. x THEN ByteOf(v, 3 - (x - y))
                 ELSE IF i.op = "SWR" /\ y \in x .. x - (x % 4) + 3 THEN ByteOf(v, y - x) ELSE mem[y]]
      <4> HIDE DEF s, x, v
      <4>1. QED
        BY <1>1, <1>2, <1>4, <2>1, SameWords DEF Reference!Stored
    <3>2. QED
      BY <2>3, <3>1
  <2> DEFINE Left(k) == IF k <= b THEN o(3 - (b - k)) ELSE m(k)
             Right(k) == IF k >= b THEN o(k - b) ELSE m(k)
             Byt(k) == IF i.op = "SWL" THEN Left(k) ELSE Right(k)
  <2>10. \A y \in DOMAIN mem :
           ref[y] = IF y \in base .. base + 4 - 1 THEN Byt(y - base) ELSE mem[y]
    <3>1. SUFFICES ASSUME NEW y \in DOMAIN mem
                   PROVE  ref[y] = IF y \in base .. base + 4 - 1 THEN Byt(y - base) ELSE mem[y]
      OBVIOUS
    <3>2. y \in Nat
      BY <1>7
    <3>3. x = base + b
      BY <1>2, <2>2
    <3>4. ref[y] = IF i.op = "SWL" /\ y \in base .. x THEN ByteOf(v, 3 - (x - y))
                   ELSE IF i.op = "SWR" /\ y \in x .. base + 3 THEN ByteOf(v, y - x) ELSE mem[y]
      <4> HIDE DEF s, x, base, v, ref
      <4>1. QED
        BY <2>9
    <3>5. Byt(y - base) = IF i.op = "SWL" THEN IF y - base <= b THEN ByteOf(v, 3 - (b - (y - base)))
                                               ELSE mem[base + (y - base)]
                          ELSE IF y - base >= b THEN ByteOf(v, (y - base) - b)
                                               ELSE mem[base + (y - base)]
      OBVIOUS
    <3> HIDE DEF x, base, b, v, ref, Byt
    <3>6. base + (y - base) = y
      BY <2>2, <3>2
    <3>7. 3 - (b - (y - base)) = 3 - (x - y) /\ (y - base) - b = y - x
      BY <2>2, <3>2, <3>3
    <3>8. CASE y \in base .. base + 4 - 1
      <4>1. (y - base <= b <=> y \in base .. x) /\ (y - base >= b <=> y \in x .. base + 3)
        BY <2>2, <3>2, <3>3, <3>8
      <4>2. QED
        BY <2>1, <3>4, <3>5, <3>6, <3>7, <3>8, <4>1
    <3>9. CASE y \notin base .. base + 4 - 1
      <4>1. y \notin base .. x /\ y \notin x .. base + 3
        BY <2>2, <3>2, <3>3, <3>9
      <4>2. QED
        BY <3>4, <3>9, <4>1
    <3>10. QED
      BY <3>8, <3>9
  <2>11. /\ b = 0 => /\ OfFour(Left(0), Left(1), Left(2), Left(3)) = OfFour(o(3), m(1), m(2), m(3))
                     /\ OfFour(Right(0), Right(1), Right(2), Right(3)) = OfFour(o(0), o(1), o(2), o(3))
         /\ b = 1 => /\ OfFour(Left(0), Left(1), Left(2), Left(3)) = OfFour(o(2), o(3), m(2), m(3))
                     /\ OfFour(Right(0), Right(1), Right(2), Right(3)) = OfFour(m(0), o(0), o(1), o(2))
         /\ b = 2 => /\ OfFour(Left(0), Left(1), Left(2), Left(3)) = OfFour(o(1), o(2), o(3), m(3))
                     /\ OfFour(Right(0), Right(1), Right(2), Right(3)) = OfFour(m(0), m(1), o(0), o(1))
         /\ b = 3 => /\ OfFour(Left(0), Left(1), Left(2), Left(3)) = OfFour(o(0), o(1), o(2), o(3))
                     /\ OfFour(Right(0), Right(1), Right(2), Right(3)) = OfFour(m(0), m(1), m(2), o(0))
    <3> HIDE DEF m, o, b
    <3>1. QED
      OBVIOUS
  <2>12. Left(0) \in OneByte /\ Left(1) \in OneByte /\ Left(2) \in OneByte /\ Left(3) \in OneByte
         /\ Right(0) \in OneByte /\ Right(1) \in OneByte /\ Right(2) \in OneByte /\ Right(3) \in OneByte
    <3>1. \A k \in 0 .. 3 : o(k) \in OneByte /\ m(k) \in OneByte
      <4> HIDE DEF m, o
      <4>1. QED
        BY <1>6, <2>5
    <3> HIDE DEF m, o, b
    <3>2. QED
      BY <2>2, <3>1
  <2> HIDE DEF m, o, b, base, value, x, v, stored
  <2>13. i.op = "SWL" => stored = OfFour(Left(0), Left(1), Left(2), Left(3))
    <3>1. ASSUME i.op = "SWL", b = 0 PROVE stored = OfFour(o(3), m(1), m(2), m(3))
      <4>1. stored = HighBytes(value, 1) + ShrBytes(v, 3)
        BY <2>7, <3>1
      <4>2. stored = OfFour(0, m(1), m(2), m(3)) + OfFour(o(3), 0, 0, 0)
        BY <1>6, <2>5, <2>6, <4>1, Slices
      <4>3. /\ OfFour(o(3), 0, 0, 0) + OfFour(0, m(1), m(2), m(3)) = OfFour(o(3), m(1), m(2), m(3))
            /\ OfFour(o(3), 0, 0, 0) \in Int /\ OfFour(0, m(1), m(2), m(3)) \in Int
        BY <1>6, <2>5, Cuts
      <4>4. QED
        BY <4>2, <4>3
    <3>2. ASSUME i.op = "SWL", b = 1 PROVE stored = OfFour(o(2), o(3), m(2), m(3))
      <4>1. stored = HighBytes(value, 2) + ShrBytes(v, 2)
        BY <2>7, <3>2
      <4>2. stored = OfFour(0, 0, m(2), m(3)) + OfFour(o(2), o(3), 0, 0)
        BY <1>6, <2>5, <2>6, <4>1, Slices
      <4>3. /\ OfFour(o(2), o(3), 0, 0) + OfFour(0, 0, m(2), m(3)) = OfFour(o(2), o(3), m(2), m(3))
            /\ OfFour(o(2), o(3), 0, 0) \in Int /\ OfFour(0, 0, m(2), m(3)) \in Int
        BY <1>6, <2>5, Cuts
      <4>4. QED
        BY <4>2, <4>3
    <3>3. ASSUME i.op = "SWL", b = 2 PROVE stored = OfFour(o(1), o(2), o(3), m(3))
      <4>1. stored = HighBytes(value, 3) + ShrBytes(v, 1)
        BY <2>7, <3>3
      <4>2. stored = OfFour(0, 0, 0, m(3)) + OfFour(o(1), o(2), o(3), 0)
        BY <1>6, <2>5, <2>6, <4>1, Slices
      <4>3. /\ OfFour(o(1), o(2), o(3), 0) + OfFour(0, 0, 0, m(3)) = OfFour(o(1), o(2), o(3), m(3))
            /\ OfFour(o(1), o(2), o(3), 0) \in Int /\ OfFour(0, 0, 0, m(3)) \in Int
        BY <1>6, <2>5, Cuts
      <4>4. QED
        BY <4>2, <4>3
    <3>4. ASSUME i.op = "SWL", b = 3 PROVE stored = OfFour(o(0), o(1), o(2), o(3))
      <4>1. stored = HighBytes(value, 4) + ShrBytes(v, 0)
        BY <2>7, <3>4
      <4>2. stored = OfFour(0, 0, 0, 0) + OfFour(o(0), o(1), o(2), o(3))
        BY <1>6, <2>5, <2>6, <4>1, Slices
      <4>3. OfFour(0, 0, 0, 0) = 0 /\ OfFour(o(0), o(1), o(2), o(3)) \in Int
        BY <1>6, Cuts
      <4>4. QED
        BY <4>2, <4>3
    <3>5. QED
      BY <2>2, <2>11, <3>1, <3>2, <3>3, <3>4
  <2>14. i.op = "SWR" => stored = OfFour(Right(0), Right(1), Right(2), Right(3))
    <3>1. ASSUME i.op = "SWR", b = 0 PROVE stored = OfFour(o(0), o(1), o(2), o(3))
      <4>1. stored = LowBytes(value, 0) + ShlBytes(v, 0)
        BY <2>8, <3>1
      <4>2. stored = OfFour(0, 0, 0, 0) + OfFour(o(0), o(1), o(2), o(3))
        BY <1>6, <2>5, <2>6, <4>1, Slices
      <4>3. OfFour(0, 0, 0, 0) = 0 /\ OfFour(o(0), o(1), o(2), o(3)) \in Int
        BY <1>6, Cuts
      <4>4. QED
        BY <4>2, <4>3
    <3>2. ASSUME i.op = "SWR", b = 1 PROVE stored = OfFour(m(0), o(0), o(1), o(2))
      <4>1. stored = LowBytes(value, 1) + ShlBytes(v, 1)
        BY <2>8, <3>2
      <4>2. stored = OfFour(m(0), 0, 0, 0) + OfFour(0, o(0), o(1), o(2))
        BY <1>6, <2>5, <2>6, <4>1, Slices
      <4>3. QED
        BY <1>6, <2>5, <4>2, Cuts
    <3>3. ASSUME i.op = "SWR", b = 2 PROVE stored = OfFour(m(0), m(1), o(0), o(1))
      <4>1. stored = LowBytes(value, 2) + ShlBytes(v, 2)
        BY <2>8, <3>3
      <4>2. stored = OfFour(m(0), m(1), 0, 0) + OfFour(0, 0, o(0), o(1))
        BY <1>6, <2>5, <2>6, <4>1, Slices
      <4>3. QED
        BY <1>6, <2>5, <4>2, Cuts
    <3>4. ASSUME i.op = "SWR", b = 3 PROVE stored = OfFour(m(0), m(1), m(2), o(0))
      <4>1. stored = LowBytes(value, 3) + ShlBytes(v, 3)
        BY <2>8, <3>4
      <4>2. stored = OfFour(m(0), m(1), m(2), 0) + OfFour(0, 0, 0, o(0))
        BY <1>6, <2>5, <2>6, <4>1, Slices
      <4>3. QED
        BY <1>6, <2>5, <4>2, Cuts
    <3>5. QED
      BY <2>2, <2>11, <3>1, <3>2, <3>3, <3>4
  <2> HIDE DEF Left, Right
  <2>15. Byt(0) \in OneByte /\ Byt(1) \in OneByte /\ Byt(2) \in OneByte /\ Byt(3) \in OneByte
         /\ stored = OfFour(Byt(0), Byt(1), Byt(2), Byt(3))
    BY <2>1, <2>12, <2>13, <2>14
  <2> HIDE DEF Byt
  <2>16. ByteOf(stored, 0) = Byt(0) /\ ByteOf(stored, 1) = Byt(1) /\ ByteOf(stored, 2) = Byt(2)
         /\ ByteOf(stored, 3) = Byt(3) /\ stored \in Word
    BY <2>15, BytesAre, FourBytes
  <2>17. \A k \in 0 .. 3 : ByteOf(stored, k) = Byt(k)
    BY <2>16
  <2>18. stored \in Int
    BY <2>16 DEF Word
  <2>19. new = WriteMem(mem, base, 4, stored)
    BY <2>1 DEF stored
  <2>20. WholeWords(new)
    BY <2>2, <2>18, <2>19, WriteMemWhole
  <2>21. \A y \in DOMAIN mem : new[y] = ref[y]
    <3>1. SUFFICES ASSUME NEW y \in DOMAIN mem PROVE new[y] = ref[y]
      OBVIOUS
    <3>2. y \in Nat
      BY <1>7
    <3>3. new[y] = IF y \in base .. base + 4 - 1 THEN ByteOf(stored, y - base) ELSE mem[y]
      BY <2>19 DEF WriteMem
    <3>4. y \in base .. base + 4 - 1 => y - base \in 0 .. 3
      BY <2>2, <3>2
    <3> HIDE DEF new, ref
    <3>5. QED
      BY <2>10, <2>17, <3>3, <3>4
  <2>22. new = ref
    <3>1. new = [y \in DOMAIN mem |-> new[y]]
      BY <2>19 DEF WriteMem
    <3>2. ref = [y \in DOMAIN mem |-> ref[y]]
      BY <2>9
    <3> HIDE DEF new, ref
    <3>3. QED
      BY <2>21, <3>1, <3>2
  <2>23. QED
    BY <2>20, <2>22
<1>10. QED
  BY <1>8, <1>9

-----------------------------------------------------------------------------
(* Multiplication.                                                         *)

\* What Mult's loop works on, and its two steps.
Sums == [lo : Word, hi : Word, bLo : Word, bHi : Word]
Added(s) == LET lo == ToWord(s.lo + s.bLo)
            IN  [s EXCEPT !.lo = lo, !.hi = ToWord(@ + (IF lo < s.bLo THEN 1 ELSE 0) + s.bHi)]
Doubled(s) == [s EXCEPT !.bHi = ToWord(2 * @ + (IF Negative(s.bLo) THEN 1 ELSE 0)),
                        !.bLo = ToWord(2 * @)]

\* The values of f are those of Mult's loop for the factors a and b.
Multiplies(f, a, b) ==
    f = [n \in 0 .. Width |->
           IF n = 0 THEN [lo |-> 0, hi |-> 0, bLo |-> b, bHi |-> 0]
           ELSE Doubled(IF Bit(a, n - 1) = 1 THEN Added(f[n - 1]) ELSE f[n - 1])]

\* The words that the steps compute.
LEMMA StepsAre ==
    ASSUME NEW s \in Sums
    PROVE  /\ Added(s) \in Sums /\ Doubled(s) \in Sums
           /\ LET lo == ToWord(s.lo + s.bLo)
              IN  /\ Added(s).lo = lo
                  /\ Added(s).hi = ToWord(s.hi + (IF lo < s.bLo THEN 1 ELSE 0) + s.bHi)
                  /\ Added(s).bLo = s.bLo /\ Added(s).bHi = s.bHi
           /\ Doubled(s).bHi = ToWord(2 * s.bHi + (IF Negative(s.bLo) THEN 1 ELSE 0))
           /\ Doubled(s).bLo = ToWord(2 * s.bLo)
           /\ Doubled(s).lo = s.lo /\ Doubled(s).hi = s.hi
<1>1. s.lo \in Word /\ s.hi \in Word /\ s.bLo \in Word /\ s.bHi \in Word
  BY DEF Sums
<1> DEFINE lo == ToWord(s.lo + s.bLo)
           carry == IF lo < s.bLo THEN 1 ELSE 0
           top == IF Negative(s.bLo) THEN 1 ELSE 0
<1>2. /\ s.lo + s.bLo \in Int /\ s.hi + carry + s.bHi \in Int
      /\ 2 * s.bHi + top \in Int /\ 2 * s.bLo \in Int
  BY <1>1 DEF Word
<1>3. lo \in Word /\ ToWord(s.hi + carry + s.bHi) \in Word
      /\ ToWord(2 * s.bHi + top) \in Word /\ ToWord(2 * s.bLo) \in Word
  BY <1>2, ToWordIs
<1> HIDE DEF lo, carry, top
<1>4. Added(s) = [s EXCEPT !.lo = lo, !.hi = ToWord(@ + carry + s.bHi)]
  BY DEF Added, lo, carry
<1>5. Doubled(s) = [s EXCEPT !.bHi = ToWord(2 * @ + top), !.bLo = ToWord(2 * @)]
  BY DEF Doubled, top
<1>6. QED
  BY <1>1, <1>3, <1>4, <1>5 DEF Sums, lo, carry, top

\* The loop computes something.
LEMMA MultipliesExists ==
    ASSUME NEW a \in Word, NEW b \in Word
    PROVE  \E f : Multiplies(f, a, b)
<1> DEFINE start == [lo |-> 0, hi |-> 0, bLo |-> b, bHi |-> 0]
           h == [k \in 1 .. Width |->
                   [s \in Sums |-> Doubled(IF Bit(a, k - 1) = 1 THEN Added(s) ELSE s)]]
<1>1. start \in Sums
  BY SmallWords DEF Sums
<1>2. Maps(h, Width, Sums)
  <2>1. ASSUME NEW k \in 1 .. Width, NEW s \in Sums PROVE h[k][s] \in Sums
    BY StepsAre
  <2> HIDE DEF h
  <2>2. QED
    BY <2>1 DEF Maps
<1> HIDE DEF start, h
<1>3. PICK g : Recursive(g, Width, Sums, start, h)
  <2>1. Width \in Nat
    BY WidthIs
  <2>2. QED
    BY <1>1, <1>2, <2>1, Recursion, Zenon
<1>4. g \in [0 .. Width -> Sums] /\ g[0] = start /\ \A k \in 1 .. Width : g[k] = h[k][g[k - 1]]
  BY <1>3 DEF Recursive
<1>5. ASSUME NEW n \in 0 .. Width
      PROVE  g[n] = IF n = 0 THEN start
                    ELSE Doubled(IF Bit(a, n - 1) = 1 THEN Added(g[n - 1]) ELSE g[n - 1])
  <2>1. CASE n = 0
    BY <1>4, <2>1
  <2>2. CASE n # 0
    <3>1. n \in 1 .. Width /\ n - 1 \in 0 .. Width
      BY <2>2, WidthIs
    <3>2. g[n] = h[n][g[n - 1]] /\ g[n - 1] \in Sums
      BY <1>4, <3>1
    <3>3. QED
      BY <2>2, <3>1, <3>2 DEF h
  <2>3. QED
    BY <2>1, <2>2
<1>6. g = [n \in 0 .. Width |->
             IF n = 0 THEN start
             ELSE Doubled(IF Bit(a, n - 1) = 1 THEN Added(g[n - 1]) ELSE g[n - 1])]
  BY <1>4, <1>5
<1>7. QED
  BY <1>6 DEF Multiplies, start

\* The products of two words are pairs of words.
LEMMA ProductBound ==
    ASSUME NEW p \in Nat, NEW q \in Nat, NEW w \in Nat \ {0}, p < w, q <= w
    PROVE  p * q \in Nat /\ p * q < w * w
<1>1. p * q <= p * w
  <2>1. p * w = p * q + p * (w - q)
    OBVIOUS
  <2>2. p * (w - q) \in Nat
    OBVIOUS
  <2>3. p * q \in Nat
    OBVIOUS
  <2>4. QED
    BY <2>1, <2>2, <2>3
<1>2. p * w < w * w
  <2>1. w * w = p * w + (w - p) * w
    OBVIOUS
  <2>2. (w - p) * w \in Nat \ {0}
    OBVIOUS
  <2>3. p * w \in Nat
    OBVIOUS
  <2>4. QED
    BY <2>1, <2>2, <2>3
<1>3. p * q \in Nat /\ p * w \in Nat /\ w * w \in Nat
  OBVIOUS
<1>4. QED
  BY <1>1, <1>2, <1>3

\* A number below w * w whose low digit is a digit has a digit as its high one.
LEMMA HighDigit ==
    ASSUME NEW w \in Nat \ {0}, NEW h \in Nat, NEW l \in Nat, h * w + l < w * w
    PROVE  h < w
<1>1. SUFFICES ASSUME h >= w PROVE FALSE
  OBVIOUS
<1>2. h * w = w * w + (h - w) * w
  OBVIOUS
<1>3. (h - w) * w \in Nat /\ w * w \in Nat
  BY <1>1
<1>4. QED
  BY <1>2, <1>3

\* Added adds the pair of words, Doubled doubles it.
LEMMA PairSteps ==
    ASSUME NEW s \in Sums
    PROVE  LET W == WordSize  p == s.hi * W + s.lo  b == s.bHi * W + s.bLo
               d == Added(s)  e == Doubled(s)
           IN  /\ p + b < W * W => d.hi * W + d.lo = p + b
               /\ 2 * b < W * W => e.bHi * W + e.bLo = 2 * b
<1> DEFINE W == WordSize
           p == s.hi * W + s.lo
           b == s.bHi * W + s.bLo
           d == Added(s)
           e == Doubled(s)
<1>1. W \in Nat \ {0} /\ W = 2 * SignBit /\ SignBit \in Nat \ {0}
  BY Halving
<1>2. /\ s.lo \in 0 .. W - 1 /\ s.hi \in 0 .. W - 1 /\ s.bLo \in 0 .. W - 1 /\ s.bHi \in 0 .. W - 1
  BY DEF Sums, Word
<1> HIDE DEF W
<1>3. p + b < W * W => d.hi * W + d.lo = p + b
  <2> DEFINE lo == ToWord(s.lo + s.bLo)
             carry == IF lo < s.bLo THEN 1 ELSE 0
             h == s.hi + carry + s.bHi
  <2>1. SUFFICES ASSUME p + b < W * W PROVE d.hi * W + d.lo = p + b
    OBVIOUS
  <2>2. d.lo = lo /\ d.hi = ToWord(h)
    BY StepsAre
  <2>3. s.lo + s.bLo \in Int
    BY <1>1, <1>2
  <2>4. lo = IF s.lo + s.bLo < W THEN s.lo + s.bLo ELSE s.lo + s.bLo - W
    BY <1>1, <1>2, <2>3, ToWordNear DEF W, Word
  <2>5. lo \in Nat /\ carry \in Nat /\ s.lo + s.bLo = lo + carry * W
    BY <1>1, <1>2, <2>4
  <2> HIDE DEF lo, carry
  <2>6. h \in Nat /\ h * W = s.hi * W + carry * W + s.bHi * W
    <3>1. \A x, y, z, w \in Int : (x + y + z) * w = x * w + y * w + z * w
      OBVIOUS
    <3>2. s.hi \in Int /\ carry \in Int /\ s.bHi \in Int /\ W \in Int
      BY <1>1, <1>2, <2>5
    <3>3. h \in Nat
      BY <1>1, <1>2, <2>5
    <3>4. QED
      BY <3>1, <3>2, <3>3
  <2>7. s.hi * W \in Nat /\ s.bHi * W \in Nat /\ carry * W \in Nat
    BY <1>1, <1>2, <2>5
  <2> HIDE DEF h
  <2>8. h * W + lo = p + b
    <3>1. \A x, y, z, u, v, q \in Int :
             u + v = q + y => (x + y + z) + q = (x + u) + (z + v)
      OBVIOUS
    <3>2. s.hi * W \in Int /\ carry * W \in Int /\ s.bHi * W \in Int /\ s.lo \in Int
          /\ s.bLo \in Int /\ lo \in Int
      BY <1>1, <1>2, <2>5, <2>7
    <3>3. QED
      BY <2>5, <2>6, <3>1, <3>2
  <2>9. h < W
    <3>1. h * W + lo < W * W
      BY <2>1, <2>8
    <3>2. QED
      BY <1>1, <2>5, <2>6, <3>1, HighDigit
  <2>10. ToWord(h) = h
    BY <2>6, <2>9, <1>1, ToWordIs DEF W, Word
  <2>11. QED
    BY <2>2, <2>8, <2>10
<1>4. 2 * b < W * W => e.bHi * W + e.bLo = 2 * b
  <2> DEFINE lo == ToWord(2 * s.bLo)
             top == IF Negative(s.bLo) THEN 1 ELSE 0
             h == 2 * s.bHi + top
  <2>1. SUFFICES ASSUME 2 * b < W * W PROVE e.bHi * W + e.bLo = 2 * b
    OBVIOUS
  <2>2. e.bLo = lo /\ e.bHi = ToWord(h)
    BY StepsAre
  <2>3. 2 * s.bLo \in Int /\ (Negative(s.bLo) <=> 2 * s.bLo >= W)
    BY <1>1, <1>2 DEF Negative, SignBit
  <2>4. lo = IF 2 * s.bLo < W THEN 2 * s.bLo ELSE 2 * s.bLo - W
    BY <1>1, <1>2, <2>3, ToWordNear DEF W, Word
  <2>5. lo \in Nat /\ top \in Nat /\ 2 * s.bLo = lo + top * W
    BY <1>1, <1>2, <2>3, <2>4
  <2>6. h \in Nat /\ h * W = 2 * (s.bHi * W) + top * W
    BY <1>1, <1>2, <2>5
  <2>7. s.bHi * W \in Nat /\ top * W \in Nat
    BY <1>1, <1>2, <2>5
  <2> HIDE DEF lo, top, h
  <2>8. h * W + lo = 2 * b
    BY <1>2, <2>5, <2>6, <2>7
  <2>9. h < W
    <3>1. h * W + lo < W * W
      BY <2>1, <2>8
    <3>2. QED
      BY <1>1, <2>5, <2>6, <3>1, HighDigit
  <2>10. ToWord(h) = h
    BY <2>6, <2>9, <1>1, ToWordIs DEF W, Word
  <2>11. QED
    BY <2>2, <2>8, <2>10
<1>5. QED
  BY <1>3, <1>4 DEF W

\* The remainder by the next power of two, by the next bit.
LEMMA BitStep ==
    ASSUME NEW a \in Nat, NEW n \in Nat
    PROVE  /\ Bit(a, n) \in {0, 1}
           /\ a % 2 ^ (n + 1) = (a % 2 ^ n) + Bit(a, n) * 2 ^ n
           /\ a % 2 ^ n \in Nat /\ a % 2 ^ n <= a
<1> DEFINE d == 2 ^ n
           q == a \div d
           r == a % d
           bit == q % 2
           z == q \div 2
<1>1. d \in Nat \ {0} /\ 2 ^ (n + 1) = 2 * d
  BY TwoTo
<1> HIDE DEF d
<1>2. q \in Int /\ r \in 0 .. d - 1 /\ a = q * d + r
  BY <1>1, Division
<1> HIDE DEF q, r
<1>3. z \in Int /\ bit \in {0, 1} /\ q = 2 * z + bit
  BY <1>2
<1> HIDE DEF z, bit
<1>4. a = z * (2 * d) + (bit * d + r)
  <2>1. (2 * z + bit) * d = z * (2 * d) + bit * d
    BY <1>1, <1>3
  <2>2. z * (2 * d) \in Int /\ bit * d \in Int
    BY <1>1, <1>3
  <2>3. QED
    BY <1>2, <1>3, <2>1, <2>2
<1>5. bit * d + r \in 0 .. 2 * d - 1
  <2>1. bit * d = 0 \/ bit * d = d
    BY <1>1, <1>3
  <2>2. \A e : e = 0 \/ e = d => e + r \in 0 .. 2 * d - 1
    BY <1>1, <1>2
  <2>3. QED
    BY <2>1, <2>2
<1>6. a % (2 * d) = bit * d + r
  <2> DEFINE e == 2 * d
             u == bit * d + r
  <2>1. e \in Nat \ {0} /\ u \in 0 .. e - 1 /\ a = z * e + u
    BY <1>1, <1>4, <1>5
  <2> HIDE DEF e, u
  <2>2. a % e = u
    BY <1>3, <2>1, DivisionIs
  <2>3. QED
    BY <2>2 DEF e, u
<1>7. r <= a
  <2>1. q >= 0
    <3>1. SUFFICES ASSUME q < 0 PROVE FALSE
      BY <1>2
    <3>2. q * d = -d + (q + 1) * d
      BY <1>1, <1>2
    <3>3. (q + 1) * d <= 0
      BY <1>1, <1>2, <3>1
    <3>4. (q + 1) * d \in Int
      BY <1>1, <1>2
    <3>5. QED
      BY <1>1, <1>2, <3>2, <3>3, <3>4
  <2>2. q * d \in Nat
    BY <1>1, <1>2, <2>1
  <2>3. QED
    BY <1>2, <2>2
<1>8. Bit(a, n) = bit /\ 2 ^ n = d /\ a % 2 ^ n = r
  BY DEF Bit, bit, q, d, r
<1>9. bit * d \in Int
  BY <1>1, <1>3
<1>10. QED
  BY <1>1, <1>2, <1>3, <1>6, <1>7, <1>8, <1>9

\* Powers of two up to the size of a word.
LEMMA PowerBelow ==
    ASSUME NEW n \in 0 .. Width
    PROVE  2 ^ n \in Nat \ {0} /\ 2 ^ n <= WordSize
<1>1. n \in Nat /\ Width - n \in Nat /\ n + (Width - n) = Width
  BY WidthIs
<1>2. WordSize = 2 ^ n * 2 ^ (Width - n)
  BY <1>1, TwoToSum DEF WordSize
<1>3. 2 ^ n \in Nat \ {0} /\ 2 ^ (Width - n) \in Nat \ {0}
  BY <1>1, TwoTo
<1>4. \A p, q \in Nat \ {0} : p <= p * q
  OBVIOUS
<1>5. QED
  BY <1>2, <1>3, <1>4

\* After n steps the loop has multiplied by the low n bits of a.
LEMMA MultipliesIs ==
    ASSUME NEW a \in Word, NEW b \in Word, NEW f, Multiplies(f, a, b)
    PROVE  /\ f[Width].lo \in Word /\ f[Width].hi \in Word
           /\ f[Width].hi * WordSize + f[Width].lo = a * b
<1> DEFINE W == WordSize
           P(s) == s.hi * W + s.lo
           B(s) == s.bHi * W + s.bLo
           T == {n \in 0 .. Width : /\ f[n] \in Sums
                                    /\ P(f[n]) = (a % 2 ^ n) * b
                                    /\ B(f[n]) = 2 ^ n * b}
<1>1. W \in Nat \ {0} /\ a \in Nat /\ b \in Nat /\ a < W /\ b < W
  BY Halving DEF Word
<1>2. f[0] = [lo |-> 0, hi |-> 0, bLo |-> b, bHi |-> 0]
  BY WidthIs DEF Multiplies
<1>3. ASSUME NEW n \in 0 .. Width - 1
      PROVE  f[n + 1] = Doubled(IF Bit(a, n) = 1 THEN Added(f[n]) ELSE f[n])
  <2>1. n + 1 \in 0 .. Width /\ n + 1 # 0 /\ (n + 1) - 1 = n
    BY WidthIs
  <2>2. QED
    BY <2>1 DEF Multiplies
<1> HIDE DEF W
<1>4. 0 \in T
  <2>1. 2 ^ 0 = 1 /\ a % 1 = 0 /\ 1 * b = b /\ 0 * b = 0 /\ 0 * W = 0
    BY <1>1
  <2>2. f[0] \in Sums
    BY <1>2, SmallWords DEF Sums
  <2>3. 0 \in 0 .. Width
    BY WidthIs
  <2>4. P(f[0]) = 0 /\ B(f[0]) = b
    BY <1>1, <1>2, <2>1
  <2>5. QED
    BY <2>1, <2>2, <2>3, <2>4
<1>5. ASSUME NEW n \in 0 .. Width - 1, n \in T PROVE n + 1 \in T
  <2> DEFINE d == 2 ^ n
             r == a % d
             bit == Bit(a, n)
             s == IF bit = 1 THEN Added(f[n]) ELSE f[n]
             t == f[n + 1]
             r2 == a % 2 ^ (n + 1)
  <2>1. n \in Nat /\ n \in 0 .. Width /\ n + 1 \in 0 .. Width
    BY WidthIs
  <2>2. d \in Nat \ {0} /\ d <= W /\ 2 ^ (n + 1) = 2 * d /\ 2 * d <= W
    BY <2>1, PowerBelow, TwoTo DEF W
  <2>3. bit \in {0, 1} /\ r2 = r + bit * d /\ r \in Nat /\ r2 \in Nat /\ r2 <= a
    BY <1>1, <2>1, BitStep
  <2>4. f[n] \in Sums /\ P(f[n]) = r * b /\ B(f[n]) = d * b
    BY <1>5
  <2>5. t = Doubled(s)
    BY <1>3
  <2> HIDE DEF t
  <2>6. s \in Sums /\ t \in Sums
    BY <2>4, <2>5, StepsAre
  <2>7. B(s) = d * b
    <3>1. B(Added(f[n])) = B(f[n])
      BY <2>4, StepsAre
    <3> HIDE DEF B
    <3>2. QED
      BY <2>4, <3>1
  <2>8. P(s) = r2 * b
    <3>1. r2 * b = r * b + (bit * d) * b
      <4>1. \A u, v, w \in Int : (u + v) * w = u * w + v * w
        OBVIOUS
      <4>2. bit * d \in Int /\ r \in Int /\ b \in Int
        BY <1>1, <2>2, <2>3
      <4> HIDE DEF r, r2, bit, d
      <4>3. QED
        BY <2>3, <4>1, <4>2
    <3>2. CASE bit = 0
      <4>1. r2 = r /\ s = f[n]
        <5> HIDE DEF d, r, bit, r2
        <5>1. QED
          BY <2>2, <2>3, <3>2
      <4> HIDE DEF P, r, r2, s
      <4>2. QED
        BY <2>4, <4>1
    <3>3. CASE bit = 1
      <4>1. (bit * d) * b = d * b
        BY <1>1, <2>2, <3>3
      <4>2. r2 * b < W * W
        BY <1>1, <2>3, ProductBound
      <4>3. P(f[n]) + B(f[n]) < W * W
        <5> HIDE DEF P, B, r, r2, bit, d
        <5>1. QED
          BY <2>4, <3>1, <4>1, <4>2
      <4>4. P(Added(f[n])) = P(f[n]) + B(f[n])
        BY <2>4, <4>3, PairSteps DEF W
      <4>5. s = Added(f[n])
        BY <3>3
      <4> HIDE DEF P, B, r, r2, bit, d, s
      <4>6. QED
        BY <2>4, <3>1, <4>1, <4>4, <4>5
    <3>4. QED
      BY <2>3, <3>2, <3>3
  <2> HIDE DEF s
  <2>9. P(t) = r2 * b
    <3>1. t.hi = s.hi /\ t.lo = s.lo
      BY <2>5, <2>6, StepsAre
    <3>2. QED
      BY <2>8, <3>1
  <2>10. B(t) = (2 * d) * b
    <3>1. (2 * d) * b = 2 * (d * b) /\ (2 * d) * b = b * (2 * d)
      BY <1>1, <2>2
    <3>2. b * (2 * d) < W * W
      <4>1. 2 * d \in Nat
        BY <2>2
      <4>2. QED
        BY <1>1, <2>2, <4>1, ProductBound
    <3>3. 2 * B(s) < W * W
      <4> HIDE DEF B, d
      <4>1. QED
        BY <2>7, <3>1, <3>2
    <3>4. B(Doubled(s)) = 2 * B(s)
      BY <2>6, <3>3, PairSteps DEF W
    <3> HIDE DEF B, d
    <3>5. QED
      BY <2>5, <2>7, <3>1, <3>4
  <2> HIDE DEF P, B
  <2>11. QED
    BY <2>1, <2>2, <2>6, <2>9, <2>10 DEF t
<1>6. Width \in T
  <2> HIDE DEF T
  <2>1. \A n \in 0 .. Width : n \in T
    BY <1>4, <1>5, WidthIs, AllUpTo
  <2>2. QED
    BY <2>1, WidthIs
<1>7. a % 2 ^ Width = a
  <2>1. ToWord(a) = a
    BY <1>1, ToWordIs
  <2>2. QED
    BY <2>1 DEF ToWord, WordSize
<1>8. f[Width] \in Sums /\ P(f[Width]) = a * b
  <2> HIDE DEF P, B
  <2>1. QED
    BY <1>6, <1>7
<1>9. f[Width].lo \in Word /\ f[Width].hi \in Word
  BY <1>8 DEF Sums
<1>10. QED
  BY <1>8, <1>9 DEF W

\* The two words of a product.
Double(n) == [hi |-> (n \div WordSize) % WordSize, lo |-> n % WordSize]

\* The magnitude of an int is a word.
LEMMA MagnitudeWord ==
    ASSUME NEW x \in Word
    PROVE  /\ Negative(x) => ToWord(-x) \in Word /\ ToWord(-x) = -Signed(x) /\ Signed(x) < 0
           /\ ~ Negative(x) => x = Signed(x) /\ Signed(x) >= 0
           /\ Signed(x) \in Int /\ (x = 0 => Signed(x) = 0)
<1>1. /\ Signed(x) \in Int /\ (Negative(x) <=> Signed(x) < 0)
      /\ ~ Negative(x) => Signed(x) = x
      /\ Negative(x) => Signed(x) = x - WordSize
      /\ Negative(x) \in BOOLEAN
  BY SignedIs, Halving
<1>2. x \in 0 .. WordSize - 1 /\ WordSize \in Nat \ {0} /\ WordSize = 2 * SignBit
      /\ SignBit \in Nat \ {0}
  BY Halving DEF Word
<1>3. -x \in Int
  BY <1>2
<1>4. Negative(x) => x # 0
  BY <1>2 DEF Negative, SignBit
<1>5. x # 0 => ToWord(-x) = -x + WordSize
  BY <1>2, <1>3, ToWordNear
<1>6. ToWord(-x) \in Word
  BY <1>3, ToWordIs
<1>7. QED
  BY <1>1, <1>2, <1>4, <1>5, <1>6

\* The words of a product that is not negative.
LEMMA DoubleIs ==
    ASSUME NEW h \in Word, NEW l \in Word
    PROVE  /\ Double(h * WordSize + l) = [hi |-> h, lo |-> l]
           /\ LET low == ToWord(Not(l) + 1)
              IN  Double(-(h * WordSize + l))
                    = [hi |-> ToWord(Not(h) + (IF low = 0 THEN 1 ELSE 0)), lo |-> low]
<1> DEFINE W == WordSize
           low == ToWord(Not(l) + 1)
<1>1. W \in Nat \ {0} /\ h \in 0 .. W - 1 /\ l \in 0 .. W - 1 /\ h \in Int /\ l \in Int
  BY Halving DEF Word
<1>2. Not(l) = W - 1 - l /\ Not(h) = W - 1 - h
  BY DEF Not
<1> HIDE DEF W
<1>3. Double(h * W + l) = [hi |-> h, lo |-> l]
  <2>1. (h * W + l) \div W = h /\ (h * W + l) % W = l
    BY <1>1, DivisionIs
  <2>2. h % W = h
    BY <1>1, ModSmall
  <2>3. QED
    BY <2>1, <2>2 DEF Double, W
<1>4. low = IF l = 0 THEN 0 ELSE W - l
  <2>1. Not(l) + 1 = W - l /\ Not(l) + 1 \in Int
    BY <1>1, <1>2
  <2>2. W - l \in 0 .. W - 1 \/ (l = 0 /\ W - l = W)
    BY <1>1
  <2>3. QED
    BY <1>1, <2>1, <2>2, ToWordNear DEF W, Word
<1> DEFINE k == IF l = 0 THEN -h ELSE -h - 1
           carry == IF low = 0 THEN 1 ELSE 0
<1>5. k \in Int /\ low \in 0 .. W - 1 /\ low \in Int
  BY <1>1, <1>4
<1>6. -(h * W + l) = k * W + low
  <2>1. (-h) * W = -(h * W) /\ (-h - 1) * W = -(h * W) - W /\ h * W \in Int
    BY <1>1
  <2>2. CASE l = 0
    BY <1>1, <1>4, <2>1, <2>2
  <2>3. CASE l # 0
    BY <1>1, <1>4, <2>1, <2>3
  <2>4. QED
    BY <2>2, <2>3
<1>7. ToWord(Not(h) + carry) = k % W
  <2> DEFINE one == 1
  <2>1. Not(h) + carry = k + one * W /\ one \in Int
    BY <1>1, <1>2, <1>4
  <2> HIDE DEF one, k, carry
  <2>2. (k + one * W) % W = k % W
    BY <1>1, <1>5, <2>1, ModAdd
  <2> HIDE DEF k, carry
  <2>3. QED
    BY <2>1, <2>2 DEF ToWord, W
<1> HIDE DEF k, carry, low
<1>8. Double(-(h * W + l)) = [hi |-> k % W, lo |-> low]
  <2>1. (k * W + low) \div W = k /\ (k * W + low) % W = low
    BY <1>1, <1>5, DivisionIs
  <2>2. (-(h * W + l)) \div W = k /\ (-(h * W + l)) % W = low
    BY <1>6, <2>1
  <2>3. QED
    BY <2>2 DEF Double, W
<1>9. QED
  BY <1>3, <1>7, <1>8 DEF W, low, carry

\* What Mult returns, by its loop.
LEMMA MultLoop ==
    ASSUME NEW x \in Word, NEW y \in Word, x # 0, y # 0, NEW signed \in BOOLEAN
    PROVE  LET a == IF signed /\ Negative(x) THEN ToWord(-x) ELSE x
               b == IF signed /\ Negative(y) THEN ToWord(-y) ELSE y
           IN  a \in Word /\ b \in Word =>
                 \E f : /\ Multiplies(f, a, b)
                       /\ LET lo == ToWord(Not(f[Width].lo) + 1)
                          IN  Mult(x, y, signed)
                                = IF (signed /\ Negative(x)) = (signed /\ Negative(y))
                                  THEN [hi |-> f[Width].hi, lo |-> f[Width].lo]
                                  ELSE [hi |-> ToWord(Not(f[Width].hi) + (IF lo = 0 THEN 1 ELSE 0)),
                                        lo |-> lo]
<1> DEFINE a == IF signed /\ Negative(x) THEN ToWord(-x) ELSE x
           b == IF signed /\ Negative(y) THEN ToWord(-y) ELSE y
           AddTo(s) == LET lo == ToWord(s.lo + s.bLo)
                       IN  [s EXCEPT !.lo = lo,
                                     !.hi = ToWord(@ + (IF lo < s.bLo THEN 1 ELSE 0) + s.bHi)]
           Shifted(s) == [s EXCEPT !.bHi = ToWord(2 * @ + (IF Negative(s.bLo) THEN 1 ELSE 0)),
                                   !.bLo = ToWord(2 * @)]
           P(f) == f = [n \in 0 .. Width |->
                          IF n = 0 THEN [lo |-> 0, hi |-> 0, bLo |-> b, bHi |-> 0]
                          ELSE Shifted(IF Bit(a, n - 1) = 1 THEN AddTo(f[n - 1]) ELSE f[n - 1])]
           loop == CHOOSE f : P(f)
           lo == ToWord(Not(loop[Width].lo) + 1)
<1>1. SUFFICES ASSUME a \in Word, b \in Word
               PROVE  \E f : /\ Multiplies(f, a, b)
                            /\ LET l == ToWord(Not(f[Width].lo) + 1)
                               IN  Mult(x, y, signed)
                                     = IF (signed /\ Negative(x)) = (signed /\ Negative(y))
                                       THEN [hi |-> f[Width].hi, lo |-> f[Width].lo]
                                       ELSE [hi |-> ToWord(Not(f[Width].hi) + (IF l = 0 THEN 1 ELSE 0)),
                                             lo |-> l]
  BY Zenon
<1>2. Mult(x, y, signed)
        = IF (signed /\ Negative(x)) = (signed /\ Negative(y))
          THEN [hi |-> loop[Width].hi, lo |-> loop[Width].lo]
          ELSE [hi |-> ToWord(Not(loop[Width].hi) + (IF lo = 0 THEN 1 ELSE 0)), lo |-> lo]
  BY DEF Mult
<1>3. \E g : P(g)
  <2>1. \E f : Multiplies(f, a, b)
    BY <1>1, MultipliesExists
  <2> HIDE DEF a, b
  <2>2. QED
    BY <2>1 DEF Multiplies, Added, Doubled
<1> HIDE DEF P, a, b
<1>4. P(loop)
  BY <1>3
<1> HIDE DEF loop
<1>5. Multiplies(loop, a, b)
  BY <1>4 DEF P, Multiplies, Added, Doubled
<1>6. QED
  BY <1>2, <1>5

\* Mult (mipssim.cc) adds and doubles bit by bit, carries by hand between the two
\* words, negates before and after, and stops when no bit is left: what it leaves in
\* hi and lo is the product, of ints or of unsigned ints, for every pair of words.
THEOREM MultIs ==
    ASSUME NEW x \in Word, NEW y \in Word, NEW signed \in BOOLEAN
    PROVE  /\ Mult(x, y, signed)
                = IF signed THEN Double(Signed(x) * Signed(y)) ELSE Double(x * y)
           /\ Mult(x, y, signed).hi \in Word /\ Mult(x, y, signed).lo \in Word
<1> DEFINE a == IF signed /\ Negative(x) THEN ToWord(-x) ELSE x
           b == IF signed /\ Negative(y) THEN ToWord(-y) ELSE y
           u == IF signed THEN Signed(x) ELSE x
           v == IF signed THEN Signed(y) ELSE y
           negX == signed /\ Negative(x)
           negY == signed /\ Negative(y)
<1>1. /\ a \in Word /\ b \in Word /\ u \in Int /\ v \in Int
      /\ negX => a = -u
      /\ negY => b = -v
      /\ ~ negX => a = u
      /\ ~ negY => b = v
  <2>1. x \in Int /\ y \in Int
    BY DEF Word
  <2>2. QED
    BY <2>1, MagnitudeWord
<1>2. negX \in BOOLEAN /\ negY \in BOOLEAN
  OBVIOUS
<1>3. (x = 0 => u = 0) /\ (y = 0 => v = 0)
  BY MagnitudeWord
<1>4. Double(u * v) = IF signed THEN Double(Signed(x) * Signed(y)) ELSE Double(x * y)
  BY <1>2
<1>5. CASE x = 0 \/ y = 0
  <2>1. Mult(x, y, signed) = [hi |-> 0, lo |-> 0]
    BY <1>5 DEF Mult
  <2> HIDE DEF u, v
  <2>2. u * v = 0
    BY <1>1, <1>3, <1>5
  <2>3. Double(0) = [hi |-> 0, lo |-> 0]
    <3>1. 0 \div WordSize = 0 /\ 0 % WordSize = 0
      BY Halving, ModSmall
    <3>2. QED
      BY <3>1 DEF Double
  <2>4. Mult(x, y, signed) = Double(u * v)
    BY <2>1, <2>2, <2>3
  <2>5. QED
    BY <1>4, <2>1, <2>4, SmallWords
<1>6. CASE x # 0 /\ y # 0
  <2>1. PICK f : /\ Multiplies(f, a, b)
                 /\ LET lo == ToWord(Not(f[Width].lo) + 1)
                    IN  Mult(x, y, signed)
                          = IF negX = negY
                            THEN [hi |-> f[Width].hi, lo |-> f[Width].lo]
                            ELSE [hi |-> ToWord(Not(f[Width].hi) + (IF lo = 0 THEN 1 ELSE 0)),
                                  lo |-> lo]
    BY <1>1, <1>6, MultLoop, Zenon
  <2> DEFINE h == f[Width].hi
             l == f[Width].lo
             lo == ToWord(Not(l) + 1)
             hi == ToWord(Not(h) + (IF lo = 0 THEN 1 ELSE 0))
  <2>2. h \in Word /\ l \in Word /\ h * WordSize + l = a * b
    BY <1>1, <2>1, MultipliesIs
  <2>3. Mult(x, y, signed) = IF negX = negY THEN [hi |-> h, lo |-> l] ELSE [hi |-> hi, lo |-> lo]
    BY <2>1
  <2>4. lo \in Word /\ hi \in Word
    <3>1. Not(l) + 1 \in Int
      BY <2>2, Halving DEF Word, Not
    <3>2. \A k \in {0, 1} : Not(h) + k \in Int
      BY <2>2, Halving DEF Word, Not
    <3>3. lo \in Word
      BY <3>1, ToWordIs
    <3> HIDE DEF lo, h
    <3>4. (IF lo = 0 THEN 1 ELSE 0) \in {0, 1}
      OBVIOUS
    <3>5. Not(h) + (IF lo = 0 THEN 1 ELSE 0) \in Int
      BY <3>2, <3>4
    <3>6. QED
      BY <3>3, <3>5, ToWordIs
  <2>5. Double(h * WordSize + l) = [hi |-> h, lo |-> l]
        /\ Double(-(h * WordSize + l)) = [hi |-> hi, lo |-> lo]
    BY <2>2, DoubleIs
  <2> HIDE DEF hi, lo, h, l
  <2>6. CASE negX = negY
    <3>1. a * b = u * v
      <4> HIDE DEF a, b, u, v, negX, negY
      <4>1. (-u) * (-v) = u * v
        BY <1>1
      <4>2. QED
        BY <1>1, <1>2, <2>6, <4>1
    <3> HIDE DEF a, b, u, v, negX, negY
    <3>2. Mult(x, y, signed) = Double(u * v)
      BY <2>2, <2>3, <2>5, <2>6, <3>1
    <3>3. Mult(x, y, signed) = [hi |-> h, lo |-> l]
      BY <2>3, <2>6
    <3>4. QED
      BY <1>4, <2>2, <3>2, <3>3
  <2>7. CASE negX # negY
    <3>1. -(a * b) = u * v
      <4> HIDE DEF a, b, u, v, negX, negY
      <4>1. (-u) * v = -(u * v) /\ u * (-v) = -(u * v) /\ u * v \in Int
        BY <1>1
      <4>2. (a = -u /\ b = v) \/ (a = u /\ b = -v)
        BY <1>1, <1>2, <2>7
      <4>3. QED
        BY <1>1, <4>1, <4>2
    <3> HIDE DEF a, b, u, v, negX, negY
    <3>2. Mult(x, y, signed) = Double(u * v)
      BY <2>2, <2>3, <2>5, <2>7, <3>1
    <3>3. Mult(x, y, signed) = [hi |-> hi, lo |-> lo]
      BY <2>3, <2>7
    <3>4. QED
      BY <1>4, <2>4, <3>2, <3>3
  <2>8. QED
    BY <2>6, <2>7
<1>7. QED
  BY <1>5, <1>6

\* Div divides as C does, to words.
LEMMA DivIs ==
    ASSUME NEW a \in Int, NEW b \in Int
    PROVE  /\ Reference!Quotient(a, b) = Truncated(a, b)
           /\ Div(a, b).hi \in Word /\ Div(a, b).lo \in Word
<1>1. Reference!Quotient(a, b) = Truncated(a, b)
  BY DEF Reference!Quotient, Reference!Magnitude, Truncated
<1>2. b # 0 => Truncated(a, b) \in Int
  <2> DEFINE p == IF a < 0 THEN -a ELSE a
             d == IF b < 0 THEN -b ELSE b
             q == p \div d
  <2>1. SUFFICES ASSUME b # 0 PROVE Truncated(a, b) \in Int
    OBVIOUS
  <2>2. p \in Int /\ d \in Nat \ {0}
    BY <2>1
  <2> HIDE DEF p, d
  <2>3. q \in Int
    BY <2>2, Division
  <2> HIDE DEF q
  <2>4. Truncated(a, b) = IF (a < 0) = (b < 0) THEN q ELSE -q
    BY DEF Truncated, p, d, q
  <2>5. QED
    BY <2>3, <2>4
<1>3. CASE b = 0
  BY <1>1, <1>3, SmallWords DEF Div
<1>4. CASE b # 0
  <2> DEFINE t == Truncated(a, b)
  <2>1. t \in Int
    BY <1>2, <1>4
  <2> HIDE DEF t
  <2>2. a - b * t \in Int
    BY <2>1
  <2>3. ToWord(a - b * t) \in Word /\ ToWord(t) \in Word
    BY <2>1, <2>2, ToWordIs
  <2>4. Div(a, b) = [hi |-> ToWord(a - b * t), lo |-> ToWord(t)]
    BY <1>4 DEF Div, t
  <2>5. QED
    BY <1>1, <2>3, <2>4
<1>5. QED
  BY <1>3, <1>4

\* HI and LO after an instruction.
LEMMA HiLoAgree ==
    ASSUME NEW c, NEW reg, Fits(c, reg), NEW mem, NEW i, WellFormed(i, reg), Demands(i, c)
    PROVE  /\ HiLo(i, c).hi \in Word /\ HiLo(i, c).lo \in Word
           /\ Reference!Divides(i) => Reference!HiLo(i, SeenOf(c, mem)) = HiLo(i, c)
           /\ ~ Reference!Divides(i) => HiLo(i, c).hi = c.hi /\ HiLo(i, c).lo = c.lo
<1> DEFINE s == SeenOf(c, mem)
           a == c.gpr[i.rs]
           b == c.gpr[i.rt]
<1>1. i.rs \in reg /\ i.rt \in reg
  BY DEF WellFormed
<1>2. a \in Word /\ b \in Word /\ c.hi \in Word /\ c.lo \in Word
  BY <1>1 DEF Fits
<1>3. /\ i.op \in {"MULT", "MULTU", "DIV", "DIVU"} => s.gpr[i.rs] = a /\ s.gpr[i.rt] = b
      /\ i.op \in {"MTHI", "MTLO"} => s.gpr[i.rs] = a
      /\ s.hi = c.hi /\ s.lo = c.lo
  <2>1. /\ i.op \in {"MULT", "MULTU", "DIV", "DIVU"} => i.rs \in Reads(i) /\ i.rt \in Reads(i)
        /\ i.op \in {"MTHI", "MTLO"} => i.rs \in Reads(i)
    BY ReadsOf
  <2>2. s.hi = c.hi /\ s.lo = c.lo
    BY DEF SeenOf
  <2>3. QED
    BY <1>1, <2>1, <2>2, OperandsAgree
<1> HIDE DEF s
<1>4. CASE i.op \in {"MULT", "MULTU"}
  <2> DEFINE signed == i.op = "MULT"
  <2>1. HiLo(i, c) = Mult(a, b, signed)
    BY <1>4 DEF HiLo
  <2>2. Reference!HiLo(i, s) = IF signed THEN Double(Signed(a) * Signed(b)) ELSE Double(a * b)
    BY <1>3, <1>4, SameNumbers DEF Reference!HiLo, Double
  <2>3. signed \in BOOLEAN /\ Reference!Divides(i)
    BY <1>4 DEF Reference!Divides
  <2> HIDE DEF a, b, signed
  <2>4. QED
    BY <1>2, <2>1, <2>2, <2>3, MultIs DEF s
<1>5. CASE i.op \in {"DIV", "DIVU"}
  <2> DEFINE u == IF i.op = "DIV" THEN Signed(a) ELSE a
             v == IF i.op = "DIV" THEN Signed(b) ELSE b
  <2>1. u \in Int /\ v \in Int
    BY <1>2, MagnitudeWord DEF Word
  <2>2. HiLo(i, c) = Div(u, v)
    BY <1>5 DEF HiLo
  <2>3. Reference!HiLo(i, s) = Div(u, v)
    <3>1. Reference!Quotient(u, v) = Truncated(u, v)
      BY <2>1, DivIs
    <3>2. Reference!HiLo(i, s) = IF v = 0 THEN [hi |-> 0, lo |-> 0]
                                ELSE [hi |-> ToWord(u - v * Reference!Quotient(u, v)),
                                      lo |-> ToWord(Reference!Quotient(u, v))]
      BY <1>3, <1>5, SameNumbers DEF Reference!HiLo
    <3> HIDE DEF u, v
    <3>3. QED
      BY <3>1, <3>2 DEF Div
  <2>4. Reference!Divides(i)
    BY <1>5 DEF Reference!Divides
  <2> HIDE DEF u, v
  <2>5. QED
    BY <2>1, <2>2, <2>3, <2>4, DivIs DEF s
<1>6. CASE i.op \in {"MTHI", "MTLO"}
  BY <1>2, <1>3, <1>6 DEF HiLo, Reference!HiLo, Reference!Divides, s
<1>7. CASE i.op \notin {"MULT", "MULTU", "DIV", "DIVU", "MTHI", "MTLO"}
  BY <1>2, <1>7 DEF HiLo, Reference!Divides
<1>8. QED
  BY <1>4, <1>5, <1>6, <1>7

-----------------------------------------------------------------------------
(* Branches.                                                               *)

\* Sums may be cut to words at once or at the end.
LEMMA ToWordSum ==
    ASSUME NEW a \in Int, NEW b \in Int
    PROVE  ToWord(ToWord(a) + b) = ToWord(a + b) /\ ToWord(a) \in Int
<1> DEFINE W == WordSize
           q == a \div W
           x == ToWord(a)
<1>1. W \in Nat \ {0}
  BY Halving
<1>2. q \in Int /\ x \in Int /\ a = q * W + x
  BY <1>1, Division DEF ToWord
<1>3. q * W \in Int
  BY <1>1, <1>2
<1> HIDE DEF q, x
<1>4. a + b = (x + b) + q * W /\ a + b \in Int /\ x + b \in Int
  BY <1>1, <1>2, <1>3
<1>5. ToWord(a + b) = ToWord(x + b)
  BY <1>2, <1>4, ToWordSame
<1>6. QED
  BY <1>2, <1>5 DEF x

\* The instructions that may not stand in a delay slot.
Controls == {"SYSCALL", "J", "JR", "BEQ", "BNE", "BGEZ", "BLTZ", "BGTZ", "BLEZ", "JALR"} \cup LinkOps

\* Where an instruction outside a delay slot goes.
LEMMA NextPCs ==
    ASSUME NEW c, NEW reg, Fits(c, reg), NEW i, Demands(i, c), i.op \in Controls
    PROVE  /\ ToWord(c.nextPC + 4) = ToWord(c.pc + 8)
           /\ \A k \in Int : ToWord(c.nextPC + k) = ToWord(c.pc + 4 + k)
<1>1. c.nextPC = ToWord(c.pc + 4) /\ c.pc \in Int
  BY DEF Demands, Controls, Fits, Word
<1>2. \A k \in Int : ToWord(c.nextPC + k) = ToWord(c.pc + 4 + k)
  <2>1. SUFFICES ASSUME NEW k \in Int PROVE ToWord(c.nextPC + k) = ToWord(c.pc + 4 + k)
    OBVIOUS
  <2>2. c.pc + 4 \in Int
    BY <1>1
  <2>3. QED
    BY <1>1, <2>2, ToWordSum
<1>3. c.pc + 4 + 4 = c.pc + 8
  BY <1>1
<1>4. ToWord(c.nextPC + 4) = ToWord(c.pc + 4 + 4)
  BY <1>2
<1>5. QED
  BY <1>2, <1>3, <1>4

\* Links do not change what a branch depends on.
LEMMA LinkedIs ==
    ASSUME NEW c, NEW reg, Fits(c, reg), NEW i, WellFormed(i, reg), Demands(i, c)
    PROVE  /\ i.op = "JALR" => Linked(i, c)[i.rs] = c.gpr[i.rs]
           /\ i.op \in {"BGEZAL", "BLTZAL"} => Linked(i, c)[i.rs] = c.gpr[i.rs]
           /\ i.op \notin LinkOps \cup {"JALR"} => Linked(i, c) = c.gpr
<1>1. i.rs \in reg /\ c.gpr \in [reg -> Word]
  BY DEF WellFormed, Fits
<1>2. ASSUME i.op = "JALR" PROVE Linked(i, c)[i.rs] = c.gpr[i.rs]
  <2>1. Linked(i, c) = [c.gpr EXCEPT ![i.rd] = ToWord(c.nextPC + 4)]
    BY <1>2 DEF Linked, LinkOps
  <2>2. i.rs # i.rd
    BY <1>2 DEF Demands
  <2>3. QED
    BY <1>1, <2>1, <2>2
<1>3. ASSUME i.op \in {"BGEZAL", "BLTZAL"} PROVE Linked(i, c)[i.rs] = c.gpr[i.rs]
  <2>1. Linked(i, c) = [c.gpr EXCEPT ![31] = ToWord(c.nextPC + 4)]
    BY <1>3 DEF Linked, LinkOps
  <2>2. i.rs # 31
    BY <1>3 DEF Demands
  <2>3. QED
    BY <1>1, <2>1, <2>2
<1>4. i.op \notin LinkOps \cup {"JALR"} => Linked(i, c) = c.gpr
  BY DEF Linked
<1>5. QED
  BY <1>2, <1>3, <1>4

\* The conditions of the branches.
LEMMA TakenIs ==
    ASSUME NEW c, NEW reg, Fits(c, reg), NEW mem, NEW i, WellFormed(i, reg), Demands(i, c)
    PROVE  Taken(i, Linked(i, c)) <=> Reference!Branches(i, SeenOf(c, mem))
<1> DEFINE s == SeenOf(c, mem)
           a == c.gpr[i.rs]
           b == c.gpr[i.rt]
<1>1. i.rs \in reg /\ i.rt \in reg
  BY DEF WellFormed
<1>2. a \in Word /\ b \in Word
  BY <1>1 DEF Fits
<1>3. /\ i.op \in {"BEQ", "BNE"} => i.rs \in Reads(i) /\ i.rt \in Reads(i)
      /\ i.op \in {"BGEZ", "BLTZ", "BGEZAL", "BLTZAL", "BGTZ", "BLEZ"} => i.rs \in Reads(i)
  BY ReadsOf
<1>4. /\ i.op \in {"BEQ", "BNE"} => s.gpr[i.rs] = a /\ s.gpr[i.rt] = b
      /\ i.op \in {"BGEZ", "BLTZ", "BGEZAL", "BLTZAL", "BGTZ", "BLEZ"} => s.gpr[i.rs] = a
  BY <1>1, <1>3, OperandsAgree
<1>5. /\ i.op \in {"BEQ", "BNE"} => Linked(i, c)[i.rs] = a /\ Linked(i, c)[i.rt] = b
      /\ i.op \in {"BGEZ", "BLTZ", "BGEZAL", "BLTZAL", "BGTZ", "BLEZ"} => Linked(i, c)[i.rs] = a
  BY LinkedIs DEF LinkOps
<1>6. /\ Signed(a) \in Int /\ Negative(a) \in BOOLEAN /\ (Negative(a) <=> Signed(a) < 0)
      /\ (Signed(a) = Signed(b) <=> a = b)
  BY <1>2, SignedIs, SignedInjective, Halving
<1> HIDE DEF s, a, b
<1> DEFINE g == Linked(i, c)
<1> HIDE DEF g
<1>7. CASE i.op \in {"BEQ", "BNE"}
  BY <1>4, <1>5, <1>6, <1>7, SameNumbers DEF Taken, Reference!Branches, g, s
<1>8. CASE i.op \in {"BGEZ", "BLTZ", "BGEZAL", "BLTZAL", "BGTZ", "BLEZ"}
  <2>1. g[i.rs] = a /\ s.gpr[i.rs] = a
    BY <1>4, <1>5, <1>8 DEF g
  <2>2. /\ i.op \in {"BGEZ", "BGEZAL"} => (Taken(i, g) <=> ~ Negative(a))
        /\ i.op \in {"BLTZ", "BLTZAL"} => (Taken(i, g) <=> Negative(a))
        /\ i.op = "BGTZ" => (Taken(i, g) <=> Signed(a) > 0)
        /\ i.op = "BLEZ" => (Taken(i, g) <=> Signed(a) <= 0)
    BY <1>8, <2>1 DEF Taken
  <2>3. /\ i.op \in {"BGEZ", "BGEZAL"} => (Reference!Branches(i, s) <=> Signed(a) >= 0)
        /\ i.op \in {"BLTZ", "BLTZAL"} => (Reference!Branches(i, s) <=> Signed(a) < 0)
        /\ i.op = "BGTZ" => (Reference!Branches(i, s) <=> Signed(a) > 0)
        /\ i.op = "BLEZ" => (Reference!Branches(i, s) <=> Signed(a) <= 0)
    BY <1>8, <2>1, SameNumbers DEF Reference!Branches
  <2>4. Negative(a) <=> ~ (Signed(a) >= 0)
    BY <1>6
  <2>5. Taken(i, g) <=> Reference!Branches(i, s)
    BY <1>6, <1>8, <2>2, <2>3, <2>4
  <2>6. QED
    BY <2>5 DEF g, s
<1>9. CASE i.op \notin {"BEQ", "BNE", "BGEZ", "BLTZ", "BGEZAL", "BLTZAL", "BGTZ", "BLEZ"}
  BY <1>9 DEF Taken, Reference!Branches
<1>10. QED
  BY <1>7, <1>8, <1>9

\* The field of a jump.
LEMMA JumpField ==
    ASSUME NEW i, NEW reg, WellFormed(i, reg), i.op \in {"J", "JAL"}
    PROVE  i.extra \in Nat /\ 4 * i.extra < JumpRegion
<1> DEFINE op == i.op
<1>1. op \notin DOMAIN Funct
  <2>1. op \in {"J", "JAL"}
    OBVIOUS
  <2> HIDE DEF op
  <2>2. QED
    BY <2>1, FunctIs
<1>2. i.extra \in {x \in 0 .. 2 ^ 26 - 1 : 4 * x < JumpRegion}
  BY <1>1, Zenon DEF WellFormed
<1>3. i.extra \in 0 .. 2 ^ 26 - 1 /\ 4 * i.extra < JumpRegion
  BY <1>2, Zenon
<1>4. QED
  BY <1>3

\* A jump stays in the region of its slot, and there is such an address.
LEMMA JumpIs ==
    ASSUME NEW n \in Word, NEW x \in Nat, 4 * x < JumpRegion
    PROVE  /\ n - (n % JumpRegion) + 4 * x = (n \div JumpRegion) * JumpRegion + 4 * x
           /\ n - (n % JumpRegion) + 4 * x \in Word
<1> DEFINE R == JumpRegion
           q == n \div R
           r == n % R
           k == WordSize \div R
<1>1. R \in Nat \ {0} /\ WordSize % R = 0 /\ WordSize \in Nat \ {0} /\ n \in 0 .. WordSize - 1
  BY CpuAssumption, Halving DEF Word
<1> HIDE DEF R
<1>2. q \in Int /\ r \in 0 .. R - 1 /\ n = q * R + r
  BY <1>1, Division
<1>3. k \in Int /\ WordSize = k * R
  <2>1. WordSize \in Int
    BY <1>1
  <2>2. k \in Int /\ WordSize = k * R + (WordSize % R)
    BY <1>1, <2>1, Division
  <2>3. k * R \in Int
    BY <1>1, <2>2
  <2>4. QED
    BY <1>1, <2>2, <2>3
<1> HIDE DEF q, r, k
<1>4. q * R \in Int /\ k * R \in Int
  BY <1>1, <1>2, <1>3
<1>5. q >= 0
  <2>1. SUFFICES ASSUME q <= -1 PROVE FALSE
    BY <1>2
  <2>2. q * R = -R + (q + 1) * R
    BY <1>1, <1>2
  <2>3. (q + 1) * R <= 0 /\ (q + 1) * R \in Int
    BY <1>1, <1>2, <2>1
  <2>4. QED
    BY <1>1, <1>2, <1>4, <2>2, <2>3
<1>6. q <= k - 1
  <2>1. SUFFICES ASSUME q >= k PROVE FALSE
    BY <1>2, <1>3
  <2>2. q * R = k * R + (q - k) * R
    BY <1>1, <1>2, <1>3
  <2>3. (q - k) * R >= 0 /\ (q - k) * R \in Int
    BY <1>1, <1>2, <1>3, <2>1
  <2>4. QED
    BY <1>1, <1>2, <1>3, <1>4, <2>2, <2>3
<1>7. k \in Nat \ {0} /\ q \in 0 .. k - 1 /\ 4 * x \in 0 .. R - 1
  BY <1>2, <1>3, <1>5, <1>6, <1>1 DEF R
<1> DEFINE y == 4 * x
<1> HIDE DEF y
<1>8. q * R + y \in 0 .. k * R - 1
  BY <1>1, <1>7, Digit DEF y
<1>9. n - r + y = q * R + y
  BY <1>2, <1>4, <1>7 DEF y
<1>10. QED
  BY <1>3, <1>8, <1>9 DEF R, q, r, y, Word

\* Control goes where it goes on the MIPS.
LEMMA PCsAgree ==
    ASSUME NEW c, NEW reg, Fits(c, reg), NEW mem, NEW i, WellFormed(i, reg), Demands(i, c)
    PROVE  /\ PcAfter(i, c) = Reference!After(i, SeenOf(c, mem))
           /\ PcAfter(i, c) \in Word
<1> DEFINE s == SeenOf(c, mem)
           next == ToWord(c.nextPC + 4)
<1>1. s.pc = c.pc /\ s.npc = c.nextPC
  BY DEF SeenOf
<1>2. c.pc \in Int /\ c.nextPC \in Int
  BY DEF Fits, Word
<1>3. next \in Word
  <2>1. c.nextPC + 4 \in Int
    BY <1>2
  <2>2. QED
    BY <2>1, ToWordIs
<1>4. i.rs \in reg
  BY DEF WellFormed
<1>5. CASE i.op \in {"J", "JAL"}
  <2>1. i.op \in Controls
    BY <1>5 DEF Controls, LinkOps
  <2>2. next = ToWord(c.pc + 8)
    BY <2>1, NextPCs
  <2>3. (c.pc + 4) \div JumpRegion = next \div JumpRegion
    BY <1>5, <2>2 DEF Demands
  <2>4. i.extra \in Nat /\ 4 * i.extra < JumpRegion
    BY <1>5, JumpField
  <2>5. /\ next - (next % JumpRegion) + 4 * i.extra = (next \div JumpRegion) * JumpRegion + 4 * i.extra
        /\ next - (next % JumpRegion) + 4 * i.extra \in Word
    BY <1>3, <2>4, JumpIs
  <2>6. PcAfter(i, c) = next - (next % JumpRegion) + 4 * i.extra
    BY <1>5 DEF PcAfter
  <2> HIDE DEF s, next
  <2>7. Reference!After(i, s) = ((c.pc + 4) \div JumpRegion) * JumpRegion + 4 * i.extra
    BY <1>1, <1>5 DEF Reference!After
  <2>8. QED
    BY <2>3, <2>5, <2>6, <2>7 DEF s
<1>6. CASE i.op \in {"JR", "JALR"}
  <2>1. Linked(i, c)[i.rs] = c.gpr[i.rs]
    BY <1>6, LinkedIs DEF LinkOps
  <2>2. i.rs \in Reads(i)
    BY <1>6, ReadsOf
  <2>3. s.gpr[i.rs] = c.gpr[i.rs]
    BY <1>4, <2>2, OperandsAgree
  <2>4. c.gpr[i.rs] \in Word
    BY <1>4 DEF Fits
  <2> HIDE DEF s
  <2>5. PcAfter(i, c) = Linked(i, c)[i.rs] /\ Reference!After(i, s) = s.gpr[i.rs]
    BY <1>6 DEF PcAfter, Reference!After
  <2>6. QED
    BY <2>1, <2>3, <2>4, <2>5 DEF s
<1>7. CASE i.op \notin {"J", "JAL", "JR", "JALR"}
  <2> DEFINE g == Linked(i, c)
             there == ToWord(c.nextPC + 4 * i.extra)
  <2>1. Taken(i, g) <=> Reference!Branches(i, s)
    BY TakenIs
  <2>2. i.extra \in Int /\ 4 * i.extra \in Int
    BY ExtraIs
  <2>3. there \in Word
    <3>1. c.nextPC + 4 * i.extra \in Int
      BY <1>2, <2>2
    <3>2. QED
      BY <3>1, ToWordIs
  <2>4. Taken(i, g) => there = ToWord(c.pc + 4 + 4 * i.extra)
    <3>1. Taken(i, g) => i.op \in Controls
      BY DEF Taken, Controls, LinkOps
    <3>2. QED
      BY <2>2, <3>1, NextPCs
  <2> HIDE DEF s, next, g, there
  <2>5. PcAfter(i, c) = IF Taken(i, g) THEN there ELSE next
    BY <1>7 DEF PcAfter, g, there, next
  <2>6. Reference!After(i, s) = IF Reference!Branches(i, s) THEN ToWord(c.pc + 4 + 4 * i.extra) ELSE next
    BY <1>1, <1>7, SameNumbers DEF Reference!After, next
  <2>7. QED
    BY <1>3, <2>1, <2>3, <2>4, <2>5, <2>6 DEF s
<1>8. QED
  BY <1>5, <1>6, <1>7

-----------------------------------------------------------------------------
(* A whole instruction.                                                    *)

\* The jumps and branches that do not link, and the instructions that write hi
\* or lo.
BranchOps == {"J", "JR", "BEQ", "BNE", "BGEZ", "BLTZ", "BGTZ", "BLEZ"}
HiLoOps == {"MULT", "MULTU", "DIV", "DIVU", "MTHI", "MTLO"}

\* What the other instruction words hold.
LEMMA OpFieldIs ==
    /\ DOMAIN Condition = {"BLTZ", "BGEZ", "BLTZAL", "BGEZAL"}
    /\ DOMAIN OpField = {"J", "JAL", "BEQ", "BNE", "BLEZ", "BGTZ", "ADDI", "ADDIU", "SLTI", "SLTIU",
                         "ANDI", "ORI", "XORI", "LUI", "UNIMP", "RES", "LB", "LH", "LWL", "LW",
                         "LBU", "LHU", "LWR", "SB", "SH", "SWL", "SW", "SWR"}
BY DEF Condition, OpField

\* The instructions fall into these classes.
LEMMA Classes ==
    ASSUME NEW i, NEW reg, WellFormed(i, reg)
    PROVE  \/ i.op \in RdOps \/ i.op \in RtOps \/ i.op \in LinkOps \/ i.op = "JALR"
           \/ i.op \in BranchOps \/ i.op \in LoadOps \/ i.op \in StoreOps \/ i.op \in HiLoOps
           \/ i.op \in {"SYSCALL", "RES", "UNIMP"}
<1> DEFINE op == i.op
<1>1. op \in DOMAIN Funct \/ op \in DOMAIN Condition \/ op \in DOMAIN OpField
  BY DEF WellFormed
<1> HIDE DEF op
<1>2. CASE op \in DOMAIN Funct
  BY <1>2, FunctIs DEF RdOps, BranchOps, HiLoOps, op
<1>3. CASE op \in DOMAIN Condition
  BY <1>3, OpFieldIs DEF LinkOps, BranchOps, op
<1>4. CASE op \in DOMAIN OpField
  BY <1>4, OpFieldIs DEF RtOps, BranchOps, LoadOps, StoreOps, LinkOps, op
<1>5. QED
  BY <1>1, <1>2, <1>3, <1>4

\* A register written, with register 0 cleared: SetReg and DelayedLoad.
Put(g, r, v) == [[g EXCEPT ![r] = v] EXCEPT ![0] = 0]

\* A write at once and the end of the load in progress commute, unless they are
\* of the same register.
LEMMA PutTwice ==
    ASSUME NEW reg, NEW g \in [reg -> Word], 0 \in reg, NEW r, NEW v, NEW q, NEW w, r = 0 \/ r # q
    PROVE  Put(Put([g EXCEPT ![q] = w], r, v), 0, 0) = Put(Put(g, r, v), q, w)
<1>1. DOMAIN g = reg
  OBVIOUS
<1>2. QED
  BY <1>1 DEF Put

\* A write of register 0 only clears it, which one write has done.
LEMMA PutZero ==
    ASSUME NEW reg, NEW g \in [reg -> Word], 0 \in reg, NEW r, NEW v, NEW w
    PROVE  Put(Put(g, r, v), 0, w) = Put(g, r, v)
<1>1. DOMAIN g = reg
  OBVIOUS
<1>2. QED
  BY <1>1 DEF Put

\* The registers stay registers.
LEMMA PutWord ==
    ASSUME NEW reg, NEW g \in [reg -> Word], 0 \in reg, NEW r, NEW v \in Word
    PROVE  Put(g, r, v) \in [reg -> Word] /\ Put(g, r, v)[0] = 0
BY SmallWords DEF Put

\* The general registers with what an instruction writes at once.
Written(i, c) == CASE i.op \in RdOps -> [c.gpr EXCEPT ![i.rd] = RdValue(i, c)]
                   [] i.op \in RtOps -> [c.gpr EXCEPT ![i.rt] = RtValue(i, c)]
                   [] OTHER          -> Linked(i, c)

\* What an instruction leaves in each register of the machine.
LEMMA RetiredIs ==
    ASSUME NEW c, NEW reg, Fits(c, reg), NEW mem, NEW i
    PROVE  /\ DOMAIN Retired(i, c, mem) = DOMAIN c
           /\ Retired(i, c, mem).gpr = Put(Written(i, c), c.loadReg, c.loadValue)
           /\ Retired(i, c, mem).hi = HiLo(i, c).hi
           /\ Retired(i, c, mem).lo = HiLo(i, c).lo
           /\ Retired(i, c, mem).pc = c.nextPC
           /\ Retired(i, c, mem).nextPC = PcAfter(i, c)
           /\ Retired(i, c, mem).loadReg = IF i.op \in LoadOps THEN i.rt ELSE 0
           /\ Retired(i, c, mem).loadValue = IF i.op \in LoadOps THEN NextLoad(i, c, mem) ELSE 0
<1> DEFINE g == Written(i, c)
           done == [c EXCEPT !.gpr = g, !.hi = HiLo(i, c).hi, !.lo = HiLo(i, c).lo]
           r == IF i.op \in LoadOps THEN i.rt ELSE 0
           v == IF i.op \in LoadOps THEN NextLoad(i, c, mem) ELSE 0
           e == DelayedLoad(done, r, v)
<1>1. Retired(i, c, mem) = [e EXCEPT !.pc = c.nextPC, !.nextPC = PcAfter(i, c)]
  BY DEF Retired, Written
<1> HIDE DEF g, r, v
<1>2. {"gpr", "hi", "lo", "pc", "nextPC", "loadReg", "loadValue"} \subseteq DOMAIN c
  BY DEF Fits
<1>3. /\ DOMAIN done = DOMAIN c
      /\ done.gpr = g /\ done.hi = HiLo(i, c).hi /\ done.lo = HiLo(i, c).lo
      /\ done.loadReg = c.loadReg /\ done.loadValue = c.loadValue
  BY <1>2
<1> HIDE DEF done
<1>4. /\ DOMAIN e = DOMAIN c
      /\ e.gpr = Put(g, c.loadReg, c.loadValue)
      /\ e.hi = done.hi /\ e.lo = done.lo /\ e.loadReg = r /\ e.loadValue = v
  BY <1>2, <1>3 DEF DelayedLoad, Put
<1> HIDE DEF e
<1>5. QED
  BY <1>1, <1>2, <1>3, <1>4 DEF g, r, v

\* What a thread sees of its processor, as a record.
View(gpr, hi, lo, pc, npc, mem) == [gpr |-> gpr, hi |-> hi, lo |-> lo, pc |-> pc, npc |-> npc,
                                    mem |-> mem, status |-> "running"]

\* Its parts change one at a time.
LEMMA ViewGpr ==
    ASSUME NEW g, NEW h, NEW l, NEW p, NEW n, NEW m, NEW v
    PROVE  [View(g, h, l, p, n, m) EXCEPT !.gpr = v] = View(v, h, l, p, n, m)
BY DEF View

\* The same of the memory.
LEMMA ViewMem ==
    ASSUME NEW g, NEW h, NEW l, NEW p, NEW n, NEW m, NEW v
    PROVE  [View(g, h, l, p, n, m) EXCEPT !.mem = v] = View(g, h, l, p, n, v)
BY DEF View

\* What the parts are.
LEMMA ViewParts ==
    ASSUME NEW g, NEW h, NEW l, NEW p, NEW n, NEW m
    PROVE  /\ View(g, h, l, p, n, m).gpr = g /\ View(g, h, l, p, n, m).hi = h
           /\ View(g, h, l, p, n, m).lo = l /\ View(g, h, l, p, n, m).pc = p
           /\ View(g, h, l, p, n, m).npc = n /\ View(g, h, l, p, n, m).mem = m
           /\ View(g, h, l, p, n, m).status = "running"
BY DEF View

\* What is seen of registers.
LEMMA SeenIs ==
    ASSUME NEW c, NEW reg, Fits(c, reg), NEW mem
    PROVE  SeenOf(c, mem) = View(Put(c.gpr, c.loadReg, c.loadValue), c.hi, c.lo, c.pc, c.nextPC, mem)
<1>1. {"gpr", "hi", "lo", "pc", "nextPC", "loadReg", "loadValue"} \subseteq DOMAIN c
  BY DEF Fits
<1>2. DelayedLoad(c, 0, 0).gpr = Put(c.gpr, c.loadReg, c.loadValue)
  BY <1>1 DEF DelayedLoad, Put
<1>3. QED
  BY <1>2 DEF SeenOf, View

\* The classes do not overlap.
LEMMA Apart ==
    ASSUME NEW op
    PROVE  /\ op \in RdOps => op \notin RtOps \cup LinkOps \cup {"JALR"} \cup BranchOps \cup LoadOps
                                        \cup StoreOps \cup HiLoOps
           /\ op \in RtOps => op \notin LinkOps \cup {"JALR"} \cup BranchOps \cup LoadOps
                                        \cup StoreOps \cup HiLoOps
           /\ op \in LinkOps \cup {"JALR"} => op \notin BranchOps \cup LoadOps \cup StoreOps \cup HiLoOps
           /\ op \in BranchOps => op \notin LoadOps \cup StoreOps \cup HiLoOps
           /\ op \in LoadOps => op \notin StoreOps \cup HiLoOps
           /\ op \in StoreOps => op \notin HiLoOps
<1>1. op \in RdOps => op \notin RtOps \cup LinkOps \cup {"JALR"} \cup BranchOps \cup LoadOps
                                        \cup StoreOps \cup HiLoOps
  BY DEF RdOps, RtOps, LinkOps, BranchOps, LoadOps, StoreOps, HiLoOps
<1>2. op \in RtOps => op \notin LinkOps \cup {"JALR"} \cup BranchOps \cup LoadOps
                                        \cup StoreOps \cup HiLoOps
  BY DEF RtOps, LinkOps, BranchOps, LoadOps, StoreOps, HiLoOps
<1>3. op \in LinkOps \cup {"JALR"} => op \notin BranchOps \cup LoadOps \cup StoreOps \cup HiLoOps
  BY DEF LinkOps, BranchOps, LoadOps, StoreOps, HiLoOps
<1>4. /\ op \in BranchOps => op \notin LoadOps \cup StoreOps \cup HiLoOps
      /\ op \in LoadOps => op \notin StoreOps \cup HiLoOps
      /\ op \in StoreOps => op \notin HiLoOps
  BY DEF BranchOps, LoadOps, StoreOps, HiLoOps
<1>5. QED
  BY <1>1, <1>2, <1>3, <1>4, Zenon

\* The classes of Mips are those of the simulator.
LEMMA SameClasses ==
    ASSUME NEW i
    PROVE  /\ Reference!Links(i) <=> i.op \in LinkOps \cup {"JALR"}
           /\ Reference!Jumps(i) <=> i.op \in LinkOps \cup {"JALR"} \cup BranchOps
           /\ Reference!Loads(i) <=> i.op \in LoadOps
           /\ Reference!Stores(i) <=> i.op \in StoreOps
           /\ Reference!Divides(i) <=> i.op \in HiLoOps
BY DEF Reference!Links, Reference!Jumps, Reference!Loads, Reference!Stores, Reference!Divides,
       LinkOps, BranchOps, LoadOps, StoreOps, HiLoOps

\* What an instruction does on the MIPS, by its class.
LEMMA ComputedIs ==
    ASSUME NEW i, NEW s
    PROVE  /\ i.op \in RdOps \cup RtOps =>
                Reference!Computed(i, s)
                  = Reference!SetReg(s, Reference!Target(i), Reference!Result(i, s))
           /\ i.op \in LinkOps \cup {"JALR"} =>
                Reference!Computed(i, s)
                  = Reference!SetReg(s, IF i.op = "JALR" THEN i.rd ELSE 31, ToWord(s.pc + 8))
           /\ i.op \in BranchOps => Reference!Computed(i, s) = s
           /\ i.op \in LoadOps =>
                Reference!Computed(i, s) = Reference!SetReg(s, i.rt, Reference!Loaded(i, s))
           /\ i.op \in StoreOps =>
                Reference!Computed(i, s) = [s EXCEPT !.mem = Reference!Stored(i, s)]
           /\ i.op \in HiLoOps =>
                Reference!Computed(i, s) = [s EXCEPT !.hi = Reference!HiLo(i, s).hi,
                                                     !.lo = Reference!HiLo(i, s).lo]
<1>1. CASE i.op \in RdOps \cup RtOps
  <2>1. i.op \notin LinkOps \cup {"JALR"} /\ i.op \notin BranchOps /\ i.op \notin LoadOps
        /\ i.op \notin StoreOps /\ i.op \notin HiLoOps
    BY <1>1, Apart
  <2>2. QED
    BY <1>1, <2>1, SameClasses DEF Reference!Computed
<1>2. CASE i.op \in LinkOps \cup {"JALR"}
  <2>1. i.op \notin RdOps \cup RtOps /\ i.op \notin BranchOps /\ i.op \notin LoadOps
        /\ i.op \notin StoreOps /\ i.op \notin HiLoOps
    BY <1>2, Apart
  <2>2. QED
    BY <1>2, <2>1, SameClasses, SameNumbers DEF Reference!Computed
<1>3. CASE i.op \in BranchOps
  <2>1. i.op \notin RdOps \cup RtOps /\ i.op \notin LinkOps \cup {"JALR"} /\ i.op \notin LoadOps
        /\ i.op \notin StoreOps /\ i.op \notin HiLoOps
    BY <1>3, Apart
  <2>2. QED
    BY <1>3, <2>1, SameClasses DEF Reference!Computed
<1>4. CASE i.op \in LoadOps
  <2>1. i.op \notin RdOps \cup RtOps /\ i.op \notin LinkOps \cup {"JALR"} /\ i.op \notin BranchOps
        /\ i.op \notin StoreOps /\ i.op \notin HiLoOps
    BY <1>4, Apart
  <2>2. QED
    BY <1>4, <2>1, SameClasses DEF Reference!Computed
<1>5. CASE i.op \in StoreOps
  <2>1. i.op \notin RdOps \cup RtOps /\ i.op \notin LinkOps \cup {"JALR"} /\ i.op \notin BranchOps
        /\ i.op \notin LoadOps /\ i.op \notin HiLoOps
    BY <1>5, Apart
  <2>2. QED
    BY <1>5, <2>1, SameClasses DEF Reference!Computed
<1>6. CASE i.op \in HiLoOps
  <2>1. i.op \notin RdOps \cup RtOps /\ i.op \notin LinkOps \cup {"JALR"} /\ i.op \notin BranchOps
        /\ i.op \notin LoadOps /\ i.op \notin StoreOps
    BY <1>6, Apart
  <2>2. QED
    BY <1>6, <2>1, SameClasses DEF Reference!Computed
<1>7. QED
  BY <1>1, <1>2, <1>3, <1>4, <1>5, <1>6

\* An instruction that ends does not find its address refused, and is an instruction.
LEMMA NoException ==
    ASSUME NEW c, NEW mem, NEW i, Exception(i, c, mem) = "none"
    PROVE  /\ i.op \in LoadOps \cup StoreOps => ~ Refused(mem, Access(i, c), Bytes(i))
           /\ i.op \notin {"SYSCALL", "RES", "UNIMP"}
<1>1. Overflows(i, c) => i.op \in {"ADD", "ADDI", "SUB"}
  BY DEF Overflows
<1>2. i.op \in LoadOps \cup StoreOps => i.op \notin {"SYSCALL", "RES", "UNIMP", "ADD", "ADDI", "SUB", "DIV"}
  BY DEF LoadOps, StoreOps
<1>3. i.op # "SYSCALL"
  <2>1. SUFFICES ASSUME i.op = "SYSCALL" PROVE FALSE
    OBVIOUS
  <2>2. ~ Overflows(i, c) /\ i.op \notin LoadOps \cup StoreOps
    BY <1>1, <1>2, <2>1
  <2>3. Exception(i, c, mem) = "syscall"
    BY <2>1, <2>2 DEF Exception
  <2>4. QED
    BY <2>3
<1>4. i.op \notin {"RES", "UNIMP"}
  <2>1. SUFFICES ASSUME i.op \in {"RES", "UNIMP"} PROVE FALSE
    OBVIOUS
  <2>2. ~ Overflows(i, c) /\ i.op \notin LoadOps \cup StoreOps
    BY <1>1, <1>2, <2>1
  <2>3. Exception(i, c, mem) = "illegal instruction"
    BY <2>1, <2>2 DEF Exception
  <2>4. QED
    BY <2>3
<1>5. i.op \in LoadOps \cup StoreOps => ~ Refused(mem, Access(i, c), Bytes(i))
  <2>1. SUFFICES ASSUME i.op \in LoadOps \cup StoreOps, Refused(mem, Access(i, c), Bytes(i)) PROVE FALSE
    OBVIOUS
  <2>2. ~ Overflows(i, c) /\ i.op \notin {"SYSCALL", "RES", "UNIMP", "DIV"}
    BY <1>1, <1>2, <2>1
  <2>3. Exception(i, c, mem) = "address error"
    BY <2>1, <2>2 DEF Exception
  <2>4. QED
    BY <2>3
<1>6. QED
  BY <1>3, <1>4, <1>5

\* The register a load leaves, and what it will hold.
LEMMA LoadsAgree ==
    ASSUME NEW c, NEW reg, Fits(c, reg), NEW mem, WholeWords(mem), NEW i, WellFormed(i, reg),
           Demands(i, c), i.op \in LoadOps, ~ Refused(mem, Access(i, c), Bytes(i))
    PROVE  /\ NextLoad(i, c, mem) \in Word
           /\ i.rt # 0 => Reference!Loaded(i, SeenOf(c, mem)) = NextLoad(i, c, mem)
BY PlainLoads, MergedLoads

\* The registers written at once.
LEMMA WritesIs ==
    ASSUME NEW i
    PROVE  /\ i.op \in RdOps => Writes(i) = {i.rd}
           /\ i.op \in RtOps => Writes(i) = {i.rt}
           /\ i.op \in LinkOps \cup {"JALR"} => Writes(i) = {IF i.op = "JALR" THEN i.rd ELSE 31}
<1>1. CASE i.op \in RdOps
  <2>1. i.op \notin RtOps /\ i.op \notin LinkOps \cup {"JALR"}
    BY <1>1, Apart
  <2>2. QED
    BY <1>1, <2>1 DEF Writes
<1>2. CASE i.op \in RtOps
  <2>1. i.op \notin RdOps /\ i.op \notin LinkOps \cup {"JALR"}
    BY <1>2, Apart
  <2>2. QED
    BY <1>2, <2>1 DEF Writes
<1>3. CASE i.op \in LinkOps \cup {"JALR"}
  <2>1. i.op \notin RdOps /\ i.op \notin RtOps /\ "JALR" \notin LinkOps
    BY <1>3, Apart DEF LinkOps
  <2>2. QED
    BY <1>3, <2>1 DEF Writes
<1>4. QED
  BY <1>1, <1>2, <1>3

\* The register that takes the return address.
LinkReg(i) == IF i.op = "JALR" THEN i.rd ELSE 31

\* The general registers that an instruction writes at once, as one write.
LEMMA AtOnce ==
    ASSUME NEW c, NEW reg, Fits(c, reg), NEW mem, NEW i, WellFormed(i, reg), Demands(i, c)
    PROVE  /\ i.op \in RdOps \cup RtOps =>
                /\ Written(i, c) = [c.gpr EXCEPT ![Reference!Target(i)]
                                                    = Reference!Result(i, SeenOf(c, mem))]
                /\ Reference!Result(i, SeenOf(c, mem)) \in Word
                /\ c.loadReg = 0 \/ c.loadReg # Reference!Target(i)
           /\ i.op \in LinkOps \cup {"JALR"} =>
                /\ Written(i, c) = [c.gpr EXCEPT ![LinkReg(i)] = ToWord(c.pc + 8)]
                /\ ToWord(c.pc + 8) \in Word
                /\ c.loadReg = 0 \/ c.loadReg # LinkReg(i)
           /\ i.op \notin RdOps \cup RtOps \cup LinkOps \cup {"JALR"} => Written(i, c) = c.gpr
<1> DEFINE g == Written(i, c)
           s == SeenOf(c, mem)
           r == Reference!Target(i)
           l == LinkReg(i)
<1>1. c.loadReg = 0 \/ c.loadReg \notin Writes(i)
  BY DEF Demands
<1>2. ASSUME i.op \in RdOps
      PROVE  /\ g = [c.gpr EXCEPT ![r] = Reference!Result(i, s)] /\ Reference!Result(i, s) \in Word
             /\ c.loadReg = 0 \/ c.loadReg # r
  <2>1. r = i.rd /\ Reference!Result(i, s) = RdValue(i, c) /\ RdValue(i, c) \in Word
    BY <1>2, RdResult
  <2>2. i.op \notin RtOps
    BY <1>2, Apart
  <2>3. g = [c.gpr EXCEPT ![i.rd] = RdValue(i, c)]
    BY <1>2, <2>2 DEF Written
  <2>4. Writes(i) = {i.rd}
    BY <1>2, WritesIs
  <2> HIDE DEF g, r, s
  <2>5. QED
    BY <1>1, <2>1, <2>3, <2>4
<1>3. ASSUME i.op \in RtOps
      PROVE  /\ g = [c.gpr EXCEPT ![r] = Reference!Result(i, s)] /\ Reference!Result(i, s) \in Word
             /\ c.loadReg = 0 \/ c.loadReg # r
  <2>1. r = i.rt /\ Reference!Result(i, s) = RtValue(i, c) /\ RtValue(i, c) \in Word
    BY <1>3, RtResult
  <2>2. i.op \notin RdOps
    BY <1>3, Apart
  <2>3. g = [c.gpr EXCEPT ![i.rt] = RtValue(i, c)]
    BY <1>3, <2>2 DEF Written
  <2>4. Writes(i) = {i.rt}
    BY <1>3, WritesIs
  <2> HIDE DEF g, r, s
  <2>5. QED
    BY <1>1, <2>1, <2>3, <2>4
<1>4. ASSUME i.op \in LinkOps \cup {"JALR"}
      PROVE  /\ g = [c.gpr EXCEPT ![l] = ToWord(c.pc + 8)] /\ ToWord(c.pc + 8) \in Word
             /\ c.loadReg = 0 \/ c.loadReg # l
  <2>1. i.op \notin RdOps /\ i.op \notin RtOps /\ "JALR" \notin LinkOps
    BY <1>4, Apart DEF LinkOps
  <2>2. g = Linked(i, c)
    BY <2>1 DEF Written
  <2>3. Linked(i, c) = [c.gpr EXCEPT ![l] = ToWord(c.nextPC + 4)]
    BY <1>4, <2>1 DEF Linked, LinkReg
  <2>4. i.op \in Controls
    BY <1>4 DEF Controls
  <2>5. ToWord(c.nextPC + 4) = ToWord(c.pc + 8)
    BY <2>4, NextPCs
  <2>6. ToWord(c.pc + 8) \in Word
    <3>1. c.pc + 8 \in Int
      BY DEF Fits, Word
    <3>2. QED
      BY <3>1, ToWordIs
  <2>7. Writes(i) = {l}
    BY <1>4, WritesIs DEF LinkReg
  <2> HIDE DEF g, l
  <2>8. QED
    BY <1>1, <2>2, <2>3, <2>5, <2>6, <2>7
<1>5. i.op \notin RdOps \cup RtOps \cup LinkOps \cup {"JALR"} => g = c.gpr
  BY LinkedIs DEF Written
<1> HIDE DEF g, s, r, l
<1>6. QED
  BY <1>2, <1>3, <1>4, <1>5 DEF g, s, r, l

\* Memory after an instruction.
MemoryAfter(i, c, mem) ==
    IF i.op \notin StoreOps THEN mem
    ELSE WriteMem(mem, Access(i, c), Bytes(i), StoreValue(i, c, mem))

\* What an instruction writes at once are words.
LEMMA WrittenWords ==
    ASSUME NEW c, NEW reg, Fits(c, reg), NEW mem, NEW i, WellFormed(i, reg), Demands(i, c)
    PROVE  Written(i, c) \in [reg -> Word]
<1>1. c.gpr \in [reg -> Word]
  BY DEF Fits
<1>2. ASSUME NEW q, NEW v \in Word PROVE [c.gpr EXCEPT ![q] = v] \in [reg -> Word]
  BY <1>1
<1> DEFINE v == Reference!Result(i, SeenOf(c, mem))
           r == Reference!Target(i)
           w == ToWord(c.pc + 8)
           l == LinkReg(i)
           g == Written(i, c)
<1>3. /\ i.op \in RdOps \cup RtOps => g = [c.gpr EXCEPT ![r] = v] /\ v \in Word
      /\ i.op \in LinkOps \cup {"JALR"} => g = [c.gpr EXCEPT ![l] = w] /\ w \in Word
      /\ i.op \notin RdOps \cup RtOps \cup LinkOps \cup {"JALR"} => g = c.gpr
  BY AtOnce
<1> HIDE DEF v, r, w, l, g
<1>4. v \in Word => [c.gpr EXCEPT ![r] = v] \in [reg -> Word]
  BY <1>2
<1>5. w \in Word => [c.gpr EXCEPT ![l] = w] \in [reg -> Word]
  BY <1>2
<1>6. g \in [reg -> Word]
  BY <1>1, <1>3, <1>4, <1>5
<1>7. QED
  BY <1>6 DEF g

\* An instruction leaves registers of words and memory of whole words.
LEMMA RetiredFits ==
    ASSUME NEW c, NEW reg, Fits(c, reg), NEW mem, WholeWords(mem), NEW i, WellFormed(i, reg),
           Demands(i, c), Exception(i, c, mem) = "none"
    PROVE  Fits(Retired(i, c, mem), reg) /\ WholeWords(MemoryAfter(i, c, mem))
<1> DEFINE g == Written(i, c)
           d == Retired(i, c, mem)
<1>1. /\ {"gpr", "hi", "lo", "pc", "nextPC", "loadReg", "loadValue"} \subseteq DOMAIN c
      /\ reg \subseteq 0 .. 31 /\ 0 \in reg
      /\ c.loadReg \in reg /\ c.loadValue \in Word /\ c.nextPC \in Word
  BY DEF Fits
<1>2. g \in [reg -> Word]
  BY WrittenWords
<1>3. /\ DOMAIN d = DOMAIN c /\ d.gpr = Put(g, c.loadReg, c.loadValue)
      /\ d.hi = HiLo(i, c).hi /\ d.lo = HiLo(i, c).lo
      /\ d.pc = c.nextPC /\ d.nextPC = PcAfter(i, c)
      /\ d.loadReg = IF i.op \in LoadOps THEN i.rt ELSE 0
      /\ d.loadValue = IF i.op \in LoadOps THEN NextLoad(i, c, mem) ELSE 0
  BY RetiredIs
<1>4. i.rt \in reg
  BY DEF WellFormed
<1>5. i.op \in LoadOps => NextLoad(i, c, mem) \in Word
  BY NoException, LoadsAgree
<1>6. HiLo(i, c).hi \in Word /\ HiLo(i, c).lo \in Word /\ PcAfter(i, c) \in Word
  BY HiLoAgree, PCsAgree
<1> HIDE DEF d, g
<1>7. Put(g, c.loadReg, c.loadValue) \in [reg -> Word] /\ Put(g, c.loadReg, c.loadValue)[0] = 0
  <2> DEFINE q == c.loadReg
             y == c.loadValue
  <2>1. y \in Word
    BY <1>1
  <2> HIDE DEF q, y
  <2>2. Put(g, q, y) \in [reg -> Word] /\ Put(g, q, y)[0] = 0
    BY <1>1, <1>2, <2>1, SmallWords DEF Put
  <2>3. QED
    BY <2>2 DEF q, y
<1>8. d.loadReg \in reg /\ d.loadValue \in Word
  BY <1>1, <1>3, <1>4, <1>5, SmallWords
<1>9. Fits(d, reg)
  BY <1>1, <1>3, <1>6, <1>7, <1>8 DEF Fits
<1>10. WholeWords(MemoryAfter(i, c, mem))
  <2>1. CASE i.op \notin StoreOps
    BY <2>1 DEF MemoryAfter
  <2>2. CASE i.op \in StoreOps
    <3>1. ~ Refused(mem, Access(i, c), Bytes(i))
      BY <2>2, NoException
    <3>2. WholeWords(WriteMem(mem, Access(i, c), Bytes(i), StoreValue(i, c, mem)))
      BY <2>2, <3>1, StoresAgree
    <3>3. QED
      BY <2>2, <3>2 DEF MemoryAfter
  <2>3. QED
    BY <2>1, <2>2
<1>11. QED
  BY <1>9, <1>10 DEF d

\* What an instruction of the MIPS computes, in terms of the simulator.
LEMMA ComputesAgree ==
    ASSUME NEW c, NEW reg, Fits(c, reg), NEW mem, WholeWords(mem), NEW i, WellFormed(i, reg),
           Demands(i, c), Exception(i, c, mem) = "none"
    PROVE  Reference!Computed(i, SeenOf(c, mem))
             = View(Put(Retired(i, c, mem).gpr, Retired(i, c, mem).loadReg, Retired(i, c, mem).loadValue),
                    Retired(i, c, mem).hi, Retired(i, c, mem).lo, c.pc, c.nextPC,
                    MemoryAfter(i, c, mem))
<1> DEFINE g == Written(i, c)
           s == SeenOf(c, mem)
           d == Retired(i, c, mem)
           r == Reference!Target(i)
           v == Reference!Result(i, s)
           l == LinkReg(i)
           w == ToWord(c.pc + 8)
           x == Reference!Loaded(i, s)
           old == Put(c.gpr, c.loadReg, c.loadValue)
           new == Put(d.gpr, d.loadReg, d.loadValue)
           m == MemoryAfter(i, c, mem)
           done == Reference!Computed(i, s)
           load == NextLoad(i, c, mem)
<1>1. i.op \notin {"SYSCALL", "RES", "UNIMP"}
      /\ (i.op \in LoadOps \cup StoreOps => ~ Refused(mem, Access(i, c), Bytes(i)))
  BY NoException
<1>2. s = View(old, c.hi, c.lo, c.pc, c.nextPC, mem)
  BY SeenIs
<1>3. /\ d.gpr = Put(g, c.loadReg, c.loadValue)
      /\ d.hi = HiLo(i, c).hi /\ d.lo = HiLo(i, c).lo
      /\ d.loadReg = IF i.op \in LoadOps THEN i.rt ELSE 0
      /\ d.loadValue = IF i.op \in LoadOps THEN load ELSE 0
  BY RetiredIs
<1>4. /\ i.op \in RdOps \cup RtOps => g = [c.gpr EXCEPT ![r] = v] /\ (c.loadReg = 0 \/ c.loadReg # r)
      /\ i.op \in LinkOps \cup {"JALR"} => g = [c.gpr EXCEPT ![l] = w] /\ (c.loadReg = 0 \/ c.loadReg # l)
      /\ i.op \notin RdOps \cup RtOps \cup LinkOps \cup {"JALR"} => g = c.gpr
  BY AtOnce
<1>5. c.gpr \in [reg -> Word] /\ 0 \in reg /\ c.loadValue \in Word
  BY DEF Fits
<1>6. i.op \notin HiLoOps => d.hi = c.hi /\ d.lo = c.lo
  BY <1>3, HiLoAgree, SameClasses
<1>7. i.op \in HiLoOps => Reference!HiLo(i, s).hi = d.hi /\ Reference!HiLo(i, s).lo = d.lo
  <2>1. i.op \in HiLoOps => Reference!HiLo(i, s) = HiLo(i, c)
    BY HiLoAgree, SameClasses
  <2>2. QED
    BY <1>3, <2>1
<1>8. i.op \in StoreOps => Reference!Stored(i, s) = m
  BY <1>1, StoresAgree DEF MemoryAfter
<1>9. i.op \notin StoreOps => m = mem
  BY DEF MemoryAfter
<1>10. i.op \in LoadOps /\ i.rt # 0 => x = load
  BY <1>1, LoadsAgree
<1>11. /\ i.op \in RdOps \cup RtOps => done = Reference!SetReg(s, r, v)
       /\ i.op \in LinkOps \cup {"JALR"} => done = Reference!SetReg(s, l, ToWord(s.pc + 8))
       /\ i.op \in BranchOps => done = s
       /\ i.op \in LoadOps => done = Reference!SetReg(s, i.rt, x)
       /\ i.op \in StoreOps => done = [s EXCEPT !.mem = Reference!Stored(i, s)]
       /\ i.op \in HiLoOps => done = [s EXCEPT !.hi = Reference!HiLo(i, s).hi,
                                               !.lo = Reference!HiLo(i, s).lo]
  BY ComputedIs DEF LinkReg
<1>12. i.op \in RdOps \cup RtOps \/ i.op \in LinkOps \cup {"JALR"} \/ i.op \in BranchOps
       \/ i.op \in LoadOps \/ i.op \in StoreOps \/ i.op \in HiLoOps
  BY <1>1, Classes
<1>13. s.pc = c.pc
  BY <1>2, ViewParts
<1> HIDE DEF g, s, d, r, v, l, w, x, old, new, m, done, load
<1>14. ASSUME NEW q, NEW y
       PROVE  Reference!SetReg(s, q, y) = View(Put(old, q, y), c.hi, c.lo, c.pc, c.nextPC, mem)
  <2>1. s.gpr = old
    BY <1>2, ViewParts
  <2>2. Reference!SetReg(s, q, y) = [s EXCEPT !.gpr = Put(s.gpr, q, y)]
    BY DEF Reference!SetReg, Put
  <2>3. [View(old, c.hi, c.lo, c.pc, c.nextPC, mem) EXCEPT !.gpr = Put(old, q, y)]
          = View(Put(old, q, y), c.hi, c.lo, c.pc, c.nextPC, mem)
    BY ViewGpr
  <2>4. QED
    BY <1>2, <2>1, <2>2, <2>3
<1>15. old \in [reg -> Word]
  BY <1>5, PutWord DEF old
<1>16. ASSUME NEW q, NEW y, g = [c.gpr EXCEPT ![q] = y], c.loadReg = 0 \/ c.loadReg # q,
              i.op \notin LoadOps
       PROVE  new = Put(old, q, y)
  <2>1. new = Put(Put(g, c.loadReg, c.loadValue), 0, 0)
    BY <1>3, <1>16 DEF new
  <2>2. Put(Put([c.gpr EXCEPT ![q] = y], c.loadReg, c.loadValue), 0, 0)
          = Put(Put(c.gpr, c.loadReg, c.loadValue), q, y)
    BY <1>5, <1>16, PutTwice
  <2>3. QED
    BY <1>16, <2>1, <2>2 DEF old
<1>17. ASSUME g = c.gpr, i.op \notin LoadOps
       PROVE  new = old
  <2>1. new = Put(Put(g, c.loadReg, c.loadValue), 0, 0)
    BY <1>3, <1>17 DEF new
  <2>2. Put(Put(c.gpr, c.loadReg, c.loadValue), 0, 0) = Put(c.gpr, c.loadReg, c.loadValue)
    BY <1>5, PutZero
  <2>3. QED
    BY <1>17, <2>1, <2>2 DEF old
<1>18. done = View(new, d.hi, d.lo, c.pc, c.nextPC, m)
  <2>1. CASE i.op \in RdOps \cup RtOps
    <3>1. i.op \notin LoadOps /\ i.op \notin StoreOps /\ i.op \notin HiLoOps
      BY <2>1, Apart
    <3>2. new = Put(old, r, v)
      BY <1>4, <1>16, <2>1, <3>1
    <3>3. QED
      BY <1>6, <1>9, <1>11, <1>14, <2>1, <3>1, <3>2
  <2>2. CASE i.op \in LinkOps \cup {"JALR"}
    <3>1. i.op \notin LoadOps /\ i.op \notin StoreOps /\ i.op \notin HiLoOps
      BY <2>2, Apart
    <3>2. new = Put(old, l, w)
      BY <1>4, <1>16, <2>2, <3>1
    <3>3. done = Reference!SetReg(s, l, w)
      BY <1>11, <1>13, <2>2 DEF w
    <3>4. QED
      BY <1>6, <1>9, <1>14, <3>1, <3>2, <3>3
  <2>3. CASE i.op \in BranchOps
    <3>1. i.op \notin RdOps \cup RtOps \cup LinkOps \cup {"JALR"} /\ i.op \notin LoadOps
          /\ i.op \notin StoreOps /\ i.op \notin HiLoOps
      BY <2>3, Apart
    <3>2. new = old
      BY <1>4, <1>17, <3>1
    <3>3. QED
      BY <1>2, <1>6, <1>9, <1>11, <2>3, <3>1, <3>2
  <2>4. CASE i.op \in LoadOps
    <3>1. i.op \notin RdOps \cup RtOps \cup LinkOps \cup {"JALR"}
          /\ i.op \notin StoreOps /\ i.op \notin HiLoOps
      BY <2>4, Apart
    <3>2. new = Put(old, i.rt, load)
      BY <1>3, <1>4, <2>4, <3>1 DEF new, old
    <3>3. Put(old, i.rt, load) = Put(old, i.rt, x)
      <4>1. CASE i.rt # 0
        BY <1>10, <2>4, <4>1
      <4>2. CASE i.rt = 0
        <5>1. DOMAIN old = reg
          BY <1>15
        <5>2. Put(old, 0, load) = Put(old, 0, x)
          BY <1>5, <5>1 DEF Put
        <5>3. QED
          BY <4>2, <5>2
      <4>3. QED
        BY <4>1, <4>2
    <3>4. QED
      BY <1>6, <1>9, <1>11, <1>14, <2>4, <3>1, <3>2, <3>3
  <2>5. CASE i.op \in StoreOps
    <3>1. i.op \notin RdOps \cup RtOps \cup LinkOps \cup {"JALR"} /\ i.op \notin LoadOps
          /\ i.op \notin HiLoOps
      BY <2>5, Apart
    <3>2. new = old
      BY <1>4, <1>17, <3>1
    <3>3. done = [s EXCEPT !.mem = m]
      BY <1>8, <1>11, <2>5
    <3>4. [View(old, c.hi, c.lo, c.pc, c.nextPC, mem) EXCEPT !.mem = m]
            = View(old, c.hi, c.lo, c.pc, c.nextPC, m)
      BY ViewMem
    <3>5. QED
      BY <1>2, <1>6, <3>1, <3>2, <3>3, <3>4
  <2>6. CASE i.op \in HiLoOps
    <3>1. i.op \notin RdOps \cup RtOps \cup LinkOps \cup {"JALR"} /\ i.op \notin LoadOps
          /\ i.op \notin StoreOps
      BY <2>6, Apart
    <3>2. new = old
      BY <1>4, <1>17, <3>1
    <3>3. done = [s EXCEPT !.hi = d.hi, !.lo = d.lo]
      BY <1>7, <1>11, <2>6
    <3> DEFINE hi == d.hi
               lo == d.lo
               was == View(old, c.hi, c.lo, c.pc, c.nextPC, mem)
    <3> HIDE DEF hi, lo
    <3>4. [was EXCEPT !.hi = hi] = View(old, hi, c.lo, c.pc, c.nextPC, mem)
      BY DEF View
    <3>5. [View(old, hi, c.lo, c.pc, c.nextPC, mem) EXCEPT !.lo = lo]
            = View(old, hi, lo, c.pc, c.nextPC, mem)
      BY DEF View
    <3> HIDE DEF was
    <3>6. [was EXCEPT !.hi = hi, !.lo = lo] = View(old, hi, lo, c.pc, c.nextPC, mem)
      BY <3>4, <3>5
    <3>7. done = View(old, hi, lo, c.pc, c.nextPC, mem)
      BY <1>2, <3>3, <3>6 DEF was, hi, lo
    <3>8. QED
      BY <1>9, <3>1, <3>2, <3>7 DEF hi, lo
  <2>7. QED
    BY <1>12, <2>1, <2>2, <2>3, <2>4, <2>5, <2>6
<1>19. QED
  BY <1>18 DEF done, s, new, d, m

\* One instruction of OneInstruction that raises no exception, with the load that
\* was in progress before it and the load that it begins itself finished, leaves the
\* registers, both program counters and the memory of the instruction of the MIPS.
THEOREM InstructionsAgree ==
    ASSUME NEW c, NEW reg, Fits(c, reg), NEW mem, WholeWords(mem), NEW i, WellFormed(i, reg),
           Demands(i, c), Exception(i, c, mem) = "none"
    PROVE  SeenOf(Retired(i, c, mem), MemoryAfter(i, c, mem))
             = Reference!Execute(i, SeenOf(c, mem))
<1> DEFINE s == SeenOf(c, mem)
           d == Retired(i, c, mem)
           m == MemoryAfter(i, c, mem)
           new == Put(d.gpr, d.loadReg, d.loadValue)
           done == Reference!Computed(i, s)
           after == Reference!After(i, s)
<1>1. Reference!Raises(i, s) = "none"
  BY NoException, ExceptionsAgree
<1>2. s.npc = c.nextPC
  BY SeenIs, ViewParts
<1>3. done = View(new, d.hi, d.lo, c.pc, c.nextPC, m)
  BY ComputesAgree
<1>4. d.pc = c.nextPC /\ d.nextPC = after
  BY RetiredIs, PCsAgree
<1>5. SeenOf(d, m) = View(new, d.hi, d.lo, d.pc, d.nextPC, m)
  BY RetiredFits, SeenIs
<1>6. Reference!Execute(i, s) = [done EXCEPT !.pc = s.npc, !.npc = after]
  BY <1>1 DEF Reference!Execute
<1> HIDE DEF s, d, m, new, done, after
<1> DEFINE pc == c.nextPC
<1> HIDE DEF pc
<1>7. /\ [View(new, d.hi, d.lo, c.pc, pc, m) EXCEPT !.pc = pc]
           = View(new, d.hi, d.lo, pc, pc, m)
      /\ [View(new, d.hi, d.lo, pc, pc, m) EXCEPT !.npc = after]
           = View(new, d.hi, d.lo, pc, after, m)
  BY DEF View
<1>8. Reference!Execute(i, s) = SeenOf(d, m)
  BY <1>2, <1>3, <1>4, <1>5, <1>6, <1>7 DEF pc
<1>9. QED
  BY <1>8 DEF s, d, m

-----------------------------------------------------------------------------
(* Decoding.                                                               *)

\* The values of a field of five bits and of one of six.
Five == 0 .. 31
Six  == 0 .. 63

\* The low half of an instruction that has a "funct" field, a sign-extended half,
\* and the values that fit in one and in the target of a jump.
LowHalf(d, x, f) == d * 2048 + x * 64 + f
Extended(low) == IF low >= 32768 THEN low - 65536 ELSE low
Short == -(2 ^ 15) .. 2 ^ 15 - 1
Long  == 0 .. 2 ^ 26 - 1

\* The fields of an instruction word.
LEMMA FieldsIs ==
    ASSUME NEW op \in Six, NEW a \in Five, NEW b \in Five, NEW low,
           NEW e, e = Halves(op, a, b, low)
    PROVE  /\ e.hi \div 1024 = op /\ (e.hi \div 32) % 32 = a /\ e.hi % 32 = b
           /\ e.lo = low
<1> USE DEF Five, Six
<1>1. 2 ^ 10 = 1024 /\ 2 ^ 5 = 32
  BY SMT
<1>2. e.hi = op * 1024 + a * 32 + b /\ e.lo = low
  BY <1>1, SMT DEF Halves
<1> DEFINE hi == e.hi
<1> HIDE DEF hi
<1>3. hi = op * 1024 + a * 32 + b
  BY <1>2, SMT DEF hi
<1>4. hi \div 1024 = op
  BY <1>3, SMT
<1>5. hi \div 32 = op * 32 + a
  BY <1>3, SMT
<1>6. (op * 32 + a) % 32 = a /\ hi % 32 = b
  BY <1>3, SMT
<1>7. QED
  BY <1>2, <1>4, <1>5, <1>6, SMT DEF hi

\* The low half of an instruction that has a "funct" field.
LEMMA LowIs ==
    ASSUME NEW d \in Five, NEW x \in Five, NEW f \in Six
    PROVE  /\ LowHalf(d, x, f) \div 2048 = d /\ (LowHalf(d, x, f) \div 64) % 32 = x
           /\ LowHalf(d, x, f) % 64 = f
<1> DEFINE low == LowHalf(d, x, f)
<1>0. low = d * 2048 + x * 64 + f
  BY DEF LowHalf
<1> HIDE DEF low
<1> USE <1>0 DEF Five, Six
<1>1. low \div 2048 = d
  BY SMT
<1>2. low \div 64 = d * 32 + x
  BY SMT
<1>3. (d * 32 + x) % 32 = x /\ low % 64 = f
  BY SMT
<1>4. QED
  BY <1>1, <1>2, <1>3, SMT DEF low

\* A sign-extended half.
LEMMA HalfIs ==
    ASSUME NEW x \in Int, -32768 <= x, x <= 32767
    PROVE  Extended(x % 65536) = x
BY SMT DEF Extended

\* A signed half comes back from the half word that holds it.
LEMMA ExtraHalf ==
    ASSUME NEW x \in Short
    PROVE  Extended(x % Half) = x
<1>1. 2 ^ 15 = 32768 /\ Half = 65536
  BY SMT DEF Half
<1> DEFINE p == 2 ^ 15
<1>2. p = 32768
  BY <1>1, SMT
<1>3. x \in -p .. p - 1
  BY DEF Short
<1>4. p \in Int
  BY <1>2, SMT
<1> HIDE DEF p
<1>5. x \in Int /\ -p <= x /\ x <= p - 1
  BY <1>3, <1>4, SMT
<1>6. -32768 <= x /\ x <= 32767
  BY <1>2, <1>5, SMT
<1>7. QED
  BY <1>1, <1>5, <1>6, HalfIs, SMT

\* The target of a jump, in its two parts.
LEMMA TargetIs ==
    ASSUME NEW x \in Nat, x < 67108864
    PROVE  (x \div 65536) * 65536 + (x % 65536) = x /\ x \div 65536 \in 0 .. 1023
<1>1. x \div 65536 \in 0 .. 1023
  BY SMT
<1>2. (x \div 65536) * 65536 + (x % 65536) = x
  BY SMT
<1>3. QED
  BY <1>1, <1>2, SMT

\* The target of a jump comes back from its high and low bits.
LEMMA ExtraJump ==
    ASSUME NEW x \in Long
    PROVE  (x \div Half) * Half + (x % Half) = x /\ x \div Half \in 0 .. 1023
<1>1. 2 ^ 26 = 67108864 /\ Half = 65536
  BY SMT DEF Half
<1> DEFINE p == 2 ^ 26
<1>2. p = 67108864
  BY <1>1, SMT
<1>3. p \in Int
  BY <1>2, SMT
<1>4. x \in 0 .. p - 1
  BY DEF Long
<1> HIDE DEF p
<1>5. x \in Nat /\ x < p
  BY <1>3, <1>4, SMT
<1>6. x < 67108864
  BY <1>2, <1>5, SMT
<1>7. QED
  BY <1>1, <1>5, <1>6, TargetIs, SMT

\* The tables of the simulator and of the manual.
LEMMA SpecialTable ==
    ASSUME NEW op \in DOMAIN Funct
    PROVE  Funct[op] \in Six /\ specialTable[Funct[op] + 1] = op
<1>1. /\ Funct["SLL"] = 0 /\ Funct["SRL"] = 2 /\ Funct["SRA"] = 3 /\ Funct["SLLV"] = 4
      /\ Funct["SRLV"] = 6 /\ Funct["SRAV"] = 7 /\ Funct["JR"] = 8 /\ Funct["JALR"] = 9
      /\ Funct["SYSCALL"] = 12 /\ Funct["MFHI"] = 16 /\ Funct["MTHI"] = 17
      /\ Funct["MFLO"] = 18 /\ Funct["MTLO"] = 19 /\ Funct["MULT"] = 24
      /\ Funct["MULTU"] = 25 /\ Funct["DIV"] = 26 /\ Funct["DIVU"] = 27 /\ Funct["ADD"] = 32
      /\ Funct["ADDU"] = 33 /\ Funct["SUB"] = 34 /\ Funct["SUBU"] = 35 /\ Funct["AND"] = 36
      /\ Funct["OR"] = 37 /\ Funct["XOR"] = 38 /\ Funct["NOR"] = 39 /\ Funct["SLT"] = 42
      /\ Funct["SLTU"] = 43
  BY DEF Funct
<1>2. /\ specialTable[1] = "SLL" /\ specialTable[3] = "SRL" /\ specialTable[4] = "SRA"
      /\ specialTable[5] = "SLLV" /\ specialTable[7] = "SRLV" /\ specialTable[8] = "SRAV"
      /\ specialTable[9] = "JR" /\ specialTable[10] = "JALR" /\ specialTable[13] = "SYSCALL"
      /\ specialTable[17] = "MFHI" /\ specialTable[18] = "MTHI" /\ specialTable[19] = "MFLO"
      /\ specialTable[20] = "MTLO" /\ specialTable[25] = "MULT" /\ specialTable[26] = "MULTU"
      /\ specialTable[27] = "DIV" /\ specialTable[28] = "DIVU" /\ specialTable[33] = "ADD"
      /\ specialTable[34] = "ADDU" /\ specialTable[35] = "SUB" /\ specialTable[36] = "SUBU"
      /\ specialTable[37] = "AND" /\ specialTable[38] = "OR" /\ specialTable[39] = "XOR"
      /\ specialTable[40] = "NOR" /\ specialTable[43] = "SLT" /\ specialTable[44] = "SLTU"
  BY DEF specialTable, Fill
<1>3. QED
  BY <1>1, <1>2, FunctIs DEF Six

\* opTable finds the operation of an "op" field (mipssim.h).
LEMMA OpTable ==
    /\ opTable[1] = "SPECIAL" /\ opTable[2] = "BCOND"
    /\ \A op \in DOMAIN OpField : OpField[op] \in Six /\ opTable[OpField[op] + 1] = op
<1>1. /\ OpField["J"] = 2 /\ OpField["JAL"] = 3 /\ OpField["BEQ"] = 4 /\ OpField["BNE"] = 5
      /\ OpField["BLEZ"] = 6 /\ OpField["BGTZ"] = 7 /\ OpField["ADDI"] = 8
      /\ OpField["ADDIU"] = 9 /\ OpField["SLTI"] = 10 /\ OpField["SLTIU"] = 11
      /\ OpField["ANDI"] = 12 /\ OpField["ORI"] = 13 /\ OpField["XORI"] = 14
      /\ OpField["LUI"] = 15 /\ OpField["UNIMP"] = 16 /\ OpField["RES"] = 20
      /\ OpField["LB"] = 32 /\ OpField["LH"] = 33 /\ OpField["LWL"] = 34
      /\ OpField["LW"] = 35 /\ OpField["LBU"] = 36 /\ OpField["LHU"] = 37
      /\ OpField["LWR"] = 38 /\ OpField["SB"] = 40 /\ OpField["SH"] = 41
      /\ OpField["SWL"] = 42 /\ OpField["SW"] = 43 /\ OpField["SWR"] = 46
  BY DEF OpField
<1>2. /\ opTable[1] = "SPECIAL" /\ opTable[2] = "BCOND"
      /\ opTable[3] = "J" /\ opTable[4] = "JAL" /\ opTable[5] = "BEQ" /\ opTable[6] = "BNE"
      /\ opTable[7] = "BLEZ" /\ opTable[8] = "BGTZ" /\ opTable[9] = "ADDI"
      /\ opTable[10] = "ADDIU" /\ opTable[11] = "SLTI" /\ opTable[12] = "SLTIU"
      /\ opTable[13] = "ANDI" /\ opTable[14] = "ORI" /\ opTable[15] = "XORI"
      /\ opTable[16] = "LUI" /\ opTable[17] = "UNIMP" /\ opTable[21] = "RES"
      /\ opTable[33] = "LB" /\ opTable[34] = "LH" /\ opTable[35] = "LWL"
      /\ opTable[36] = "LW" /\ opTable[37] = "LBU" /\ opTable[38] = "LHU"
      /\ opTable[39] = "LWR" /\ opTable[41] = "SB" /\ opTable[42] = "SH"
      /\ opTable[43] = "SWL" /\ opTable[44] = "SW" /\ opTable[47] = "SWR"
  BY DEF opTable, Fill
<1>3. QED
  BY <1>1, <1>2, OpFieldIs DEF Six

\* What an instruction uses of its fields.
Alike(d, i) == /\ d.op = i.op /\ d.extra = i.extra
               /\ i.op \notin {"J", "JAL"} => d.rs = i.rs
               /\ i.op \notin {"J", "JAL"} \cup DOMAIN Condition => d.rt = i.rt
               /\ i.op \in DOMAIN Funct => d.rd = i.rd

\* Instruction::Decode gives back each instruction from the word that the manual
\* encodes it in: opTable and specialTable are the inverse of the encodings, and
\* fields, sign extensions and targets of jumps are whole.
THEOREM DecodesBack ==
    ASSUME NEW i, NEW reg, reg \subseteq 0 .. 31, WellFormed(i, reg)
    PROVE  Alike(Decode(Encode(i)), i)
<1> DEFINE op == i.op
           rs == i.rs
           rt == i.rt
           rd == i.rd
           x == i.extra
           e == Encode(i)
           d == Decode(e)
           entry == opTable[(e.hi \div 2 ^ 10) + 1]
<1>1. rs \in Five /\ rt \in Five /\ rd \in Five
  BY DEF WellFormed, Five
<1>2. op \in DOMAIN Funct \/ op \in DOMAIN Condition \/ op \in DOMAIN OpField
  BY DEF WellFormed
<1>3. /\ op \in DOMAIN Funct => x \in Five
      /\ op \notin DOMAIN Funct /\ op \in {"J", "JAL"} => x \in Long
      /\ op \notin DOMAIN Funct /\ op \notin {"J", "JAL"} => x \in Short
  BY Zenon DEF WellFormed, Five, Short, Long
<1>4. /\ op \in DOMAIN Funct => e = Halves(0, rs, rt, LowHalf(rd, x, Funct[op]))
      /\ op \in DOMAIN Condition => e = Halves(1, rs, Condition[op], x % Half)
      /\ op \in {"J", "JAL"} => e = Halves(OpField[op], 0, x \div Half, x % Half)
      /\ op \notin DOMAIN Funct /\ op \notin DOMAIN Condition /\ op \notin {"J", "JAL"} =>
           e = Halves(OpField[op], rs, rt, x % Half)
  <2>1. 2 ^ 11 = 2048 /\ 2 ^ 6 = 64
    BY SMT
  <2>2. QED
    BY <2>1, FunctIs, OpFieldIs, SMT DEF Encode, LowHalf
<1>5. /\ d.rs = (e.hi \div 32) % 32 /\ d.rt = e.hi % 32 /\ d.rd = e.lo \div 2048
      /\ entry = "SPECIAL" => /\ d.op = specialTable[(e.lo % 64) + 1]
                              /\ d.extra = (e.lo \div 64) % 32
      /\ entry = "BCOND" => d.op = conditional(e.hi % 32)
      /\ entry \notin {"SPECIAL", "BCOND"} => d.op = entry
      /\ entry \in {"J", "JAL"} => d.extra = (e.hi % 1024) * Half + e.lo
      /\ entry \notin {"SPECIAL", "J", "JAL"} =>
           d.extra = Extended(e.lo)
  <2>1. /\ 2 ^ 11 = 2048 /\ 2 ^ 6 = 64 /\ 2 ^ 16 = 65536 /\ Half = 65536 /\ 2 ^ 15 = 32768
        /\ 2 ^ 10 = 1024 /\ 2 ^ 5 = 32
    BY SMT DEF Half
  <2>2. QED
    BY <2>1, SMT DEF Decode, Extended
<1>20. 2 ^ 10 = 1024
  BY SMT
<1> HIDE DEF op, rs, rt, rd, x, e, d, entry
<1>6. ASSUME op \in DOMAIN Funct
      PROVE  d.op = op /\ d.extra = x /\ d.rs = rs /\ d.rt = rt /\ d.rd = rd
  <2> DEFINE f == Funct[op]
             low == LowHalf(rd, x, f)
  <2>1. e = Halves(0, rs, rt, low)
    BY <1>4, <1>6, Zenon
  <2>2. f \in Six /\ specialTable[f + 1] = op
    BY <1>6, SpecialTable
  <2>3. x \in Five /\ 0 \in Six
    BY <1>3, <1>6 DEF Six
  <2> HIDE DEF f
  <2>4. low \div 2048 = rd /\ (low \div 64) % 32 = x /\ low % 64 = f
    BY <1>1, <2>2, <2>3, LowIs, SMT
  <2> HIDE DEF low
  <2>5. e.hi \div 1024 = 0 /\ (e.hi \div 32) % 32 = rs /\ e.hi % 32 = rt /\ e.lo = low
    BY <1>1, <2>1, <2>3, FieldsIs, SMT
  <2>6. entry = "SPECIAL"
    BY <1>20, <2>5, OpTable DEF entry
  <2>7. QED
    BY <1>5, <2>2, <2>4, <2>5, <2>6
<1>7. ASSUME op \in DOMAIN Condition
      PROVE  d.op = op /\ d.extra = x /\ d.rs = rs
  <2> DEFINE f == Condition[op]
             low == x % Half
  <2>1. op \notin DOMAIN Funct /\ op \notin {"J", "JAL"}
    BY <1>7, FunctIs, OpFieldIs
  <2>2. f \in Five /\ conditional(f) = op
    BY <1>7, OpFieldIs DEF Condition, conditional, Five
  <2>3. e = Halves(1, rs, f, low)
    BY <1>4, <1>7, <2>1
  <2>4. x \in Short
    BY <1>3, <2>1
  <2>5. Extended(low) = x
    BY <2>4, ExtraHalf, Zenon
  <2>6. 1 \in Six
    BY DEF Six
  <2> HIDE DEF f, low
  <2>7. /\ e.hi \div 1024 = 1 /\ (e.hi \div 32) % 32 = rs
        /\ e.hi % 32 = f /\ e.lo = low
    BY <1>1, <2>2, <2>3, <2>6, FieldsIs, SMT
  <2>8. entry = "BCOND"
    BY <1>20, <2>7, OpTable DEF entry
  <2>9. QED
    BY <1>5, <2>2, <2>5, <2>7, <2>8
<1>8. ASSUME op \in {"J", "JAL"}
      PROVE  d.op = op /\ d.extra = x
  <2> DEFINE f == OpField[op]
             y == x \div Half
             low == x % Half
  <2>1. op \notin DOMAIN Funct /\ op \notin DOMAIN Condition /\ op \in DOMAIN OpField
    BY <1>8, FunctIs, OpFieldIs
  <2>2. f \in Six /\ opTable[f + 1] = op
    BY <2>1, OpTable
  <2>3. e = Halves(f, 0, y, low)
    BY <1>4, <1>8, <2>1
  <2>4. x \in Long
    BY <1>3, <1>8, <2>1
  <2>5. y * Half + low = x /\ y \in 0 .. 1023
    BY <2>4, ExtraJump, SMT
  <2> HIDE DEF f, y, low
  <2>6. 2 ^ 10 = 1024 /\ 2 ^ 5 = 32
    BY SMT
  <2>7. e.hi = f * 1024 + y /\ e.lo = low
    BY <2>2, <2>3, <2>5, <2>6 DEF Halves, Six
  <2> DEFINE hi == e.hi
  <2>8. hi = f * 1024 + y
    BY <2>7
  <2> HIDE DEF hi
  <2>9. hi \div 1024 = f /\ hi % 1024 = y
    BY <2>2, <2>5, <2>8, SMT DEF Six
  <2>11. e.hi \div 1024 = f /\ e.hi % 1024 = y
    BY <2>9 DEF hi
  <2>12. entry = op
    BY <1>20, <2>2, <2>11 DEF entry
  <2>13. d.op = op /\ d.extra = (e.hi % 1024) * Half + e.lo
    BY <1>5, <1>8, <2>12
  <2>14. d.extra = y * Half + low
    BY <2>7, <2>11, <2>13
  <2>15. QED
    BY <2>5, <2>13, <2>14
<1>9. ASSUME op \notin DOMAIN Funct, op \notin DOMAIN Condition, op \notin {"J", "JAL"}
      PROVE  d.op = op /\ d.extra = x /\ d.rs = rs /\ d.rt = rt
  <2> DEFINE f == OpField[op]
             low == x % Half
  <2>1. op \in DOMAIN OpField
    BY <1>2, <1>9
  <2>2. op \notin {"SPECIAL", "BCOND"}
    BY <2>1, OpFieldIs
  <2>3. f \in Six /\ opTable[f + 1] = op
    BY <2>1, OpTable
  <2>4. e = Halves(f, rs, rt, low)
    BY <1>4, <1>9
  <2>5. x \in Short
    BY <1>3, <1>9
  <2>6. Extended(low) = x
    BY <2>5, ExtraHalf, Zenon
  <2> HIDE DEF f, low
  <2>7. /\ e.hi \div 1024 = f /\ (e.hi \div 32) % 32 = rs
        /\ e.hi % 32 = rt /\ e.lo = low
    BY <1>1, <2>3, <2>4, FieldsIs, SMT
  <2>8. entry = op
    BY <1>20, <2>3, <2>7 DEF entry
  <2>9. QED
    BY <1>5, <1>9, <2>2, <2>6, <2>7, <2>8
<1>10. QED
  <2>1. op \in DOMAIN Funct => op \notin DOMAIN Condition /\ op \notin {"J", "JAL"}
    BY FunctIs, OpFieldIs
  <2>2. op \in DOMAIN Condition => op \notin {"J", "JAL"}
    BY OpFieldIs
  <2>3. d.op = op /\ d.extra = x
    BY <1>6, <1>7, <1>8, <1>9
  <2>4. op \notin {"J", "JAL"} => d.rs = rs
    BY <1>6, <1>7, <1>9
  <2>5. op \notin {"J", "JAL"} /\ op \notin DOMAIN Condition => d.rt = rt
    BY <1>6, <1>9
  <2>6. op \in DOMAIN Funct => d.rd = rd
    BY <1>6
  <2>7. QED
    BY <2>3, <2>4, <2>5, <2>6 DEF Alike, op, rs, rt, rd, x, e, d

\* The fields that two instructions which are alike share, by class.
LEMMA AlikeFields ==
    ASSUME NEW d, NEW i, Alike(d, i)
    PROVE  /\ d.op = i.op /\ d.extra = i.extra
           /\ i.op \in RdOps \cup HiLoOps => d.rs = i.rs /\ d.rt = i.rt /\ d.rd = i.rd
           /\ i.op \in RtOps \cup LoadOps \cup StoreOps => d.rs = i.rs /\ d.rt = i.rt
           /\ i.op \in {"BEQ", "BNE"} => d.rs = i.rs /\ d.rt = i.rt
           /\ i.op \in {"JR", "JALR", "BGEZ", "BGEZAL", "BLTZ", "BLTZAL", "BGTZ", "BLEZ"}
                => d.rs = i.rs
           /\ i.op = "JALR" => d.rd = i.rd
<1> DEFINE op == i.op
<1>1. op \in RdOps \cup HiLoOps \cup {"JALR"} => op \in DOMAIN Funct
  BY FunctIs DEF RdOps, HiLoOps
<1>2. op \in RdOps \cup HiLoOps \cup RtOps \cup LoadOps \cup StoreOps \cup {"BEQ", "BNE"}
        => op \notin {"J", "JAL"} \cup DOMAIN Condition
  BY OpFieldIs DEF RdOps, HiLoOps, RtOps, LoadOps, StoreOps
<1>3. /\ d.op = op /\ d.extra = i.extra
      /\ op \notin {"J", "JAL"} => d.rs = i.rs
      /\ op \notin {"J", "JAL"} \cup DOMAIN Condition => d.rt = i.rt
      /\ op \in DOMAIN Funct => d.rd = i.rd
  BY DEF Alike
<1> HIDE DEF op
<1>4. /\ op \in RdOps \cup HiLoOps => d.rs = i.rs /\ d.rt = i.rt /\ d.rd = i.rd
      /\ op \in RtOps \cup LoadOps \cup StoreOps => d.rs = i.rs /\ d.rt = i.rt
      /\ op \in {"BEQ", "BNE"} => d.rs = i.rs /\ d.rt = i.rt
  BY <1>1, <1>2, <1>3
<1>5. /\ op \in {"JR", "JALR", "BGEZ", "BGEZAL", "BLTZ", "BLTZAL", "BGTZ", "BLEZ"}
           => d.rs = i.rs
      /\ op = "JALR" => d.rd = i.rd
  BY <1>1, <1>3
<1>6. QED
  BY <1>3, <1>4, <1>5 DEF op

\* They compute the same.
LEMMA AlikeValues ==
    ASSUME NEW d, NEW i, Alike(d, i), NEW c
    PROVE  /\ i.op \in RdOps => RdValue(d, c) = RdValue(i, c)
           /\ i.op \in RtOps => RtValue(d, c) = RtValue(i, c)
           /\ Overflows(d, c) <=> Overflows(i, c)
           /\ HiLo(d, c) = HiLo(i, c)
           /\ Linked(d, c) = Linked(i, c)
           /\ Written(d, c) = Written(i, c)
<1>1. i.op \in RdOps => RdValue(d, c) = RdValue(i, c)
  BY AlikeFields DEF RdValue
<1>2. i.op \in RtOps => RtValue(d, c) = RtValue(i, c)
  BY AlikeFields DEF RtValue
<1>3. Overflows(d, c) <=> Overflows(i, c)
  <2>1. i.op \in {"ADD", "ADDI", "SUB"} => i.op \in RdOps \cup RtOps
    BY DEF RdOps, RtOps
  <2>2. i.op \in {"ADD", "SUB"} => i.op \in RdOps
    BY DEF RdOps
  <2>3. CASE i.op \in {"ADD", "ADDI", "SUB"}
    <3>1. d.op = i.op /\ d.extra = i.extra /\ d.rs = i.rs /\ (i.op # "ADDI" => d.rt = i.rt)
      BY <2>1, <2>2, <2>3, AlikeFields
    <3>2. QED
      BY <2>3, <3>1 DEF Overflows
  <2>4. CASE i.op \notin {"ADD", "ADDI", "SUB"}
    BY <2>4, AlikeFields DEF Overflows
  <2>5. QED
    BY <2>3, <2>4
<1>4. HiLo(d, c) = HiLo(i, c)
  <2>1. CASE i.op \in HiLoOps
    BY <2>1, AlikeFields DEF HiLo
  <2>2. CASE i.op \notin HiLoOps
    BY <2>2, AlikeFields DEF HiLo, HiLoOps
  <2>3. QED
    BY <2>1, <2>2
<1>5. Linked(d, c) = Linked(i, c)
  BY AlikeFields DEF Linked
<1>6. Written(d, c) = Written(i, c)
  BY <1>1, <1>2, <1>5, AlikeFields DEF Written
<1>7. QED
  BY <1>1, <1>2, <1>3, <1>4, <1>5, <1>6

\* They go the same way.
LEMMA AlikeWays ==
    ASSUME NEW d, NEW i, Alike(d, i), NEW c
    PROVE  PcAfter(d, c) = PcAfter(i, c)
<1>1. d.op = i.op /\ d.extra = i.extra /\ Linked(d, c) = Linked(i, c)
  BY AlikeFields, AlikeValues
<1> DEFINE g == Linked(i, c)
<1>2. Taken(d, g) = Taken(i, g)
  <2>1. CASE i.op \in {"BEQ", "BNE", "BGEZ", "BGEZAL", "BLTZ", "BLTZAL", "BGTZ", "BLEZ"}
    <3>1. d.rs = i.rs /\ (i.op \in {"BEQ", "BNE"} => d.rt = i.rt)
      BY <2>1, AlikeFields
    <3> HIDE DEF g
    <3>2. QED
      BY <1>1, <2>1, <3>1 DEF Taken
  <2>2. CASE i.op \notin {"BEQ", "BNE", "BGEZ", "BGEZAL", "BLTZ", "BLTZAL", "BGTZ", "BLEZ"}
    BY <1>1, <2>2 DEF Taken
  <2>3. QED
    BY <2>1, <2>2
<1>3. i.op \in {"JR", "JALR"} => d.rs = i.rs
  BY AlikeFields
<1>4. QED
  BY <1>1, <1>2, <1>3 DEF PcAfter

\* They access the same memory.
LEMMA AlikeAccesses ==
    ASSUME NEW d, NEW i, Alike(d, i), NEW c, NEW mem, i.op \in LoadOps \cup StoreOps
    PROVE  /\ Access(d, c) = Access(i, c) /\ Bytes(d) = Bytes(i)
           /\ d.rt = i.rt
           /\ i.op \in LoadOps => NextLoad(d, c, mem) = NextLoad(i, c, mem)
           /\ i.op \in StoreOps => StoreValue(d, c, mem) = StoreValue(i, c, mem)
<1>1. d.op = i.op /\ d.extra = i.extra /\ d.rs = i.rs /\ d.rt = i.rt
  BY AlikeFields
<1>2. Tmp(d, c) = Tmp(i, c) /\ Byte(d, c) = Byte(i, c) /\ Bytes(d) = Bytes(i)
      /\ (Merging(d) <=> Merging(i)) /\ PendingRt(d, c) = PendingRt(i, c)
  BY <1>1 DEF Tmp, Byte, Bytes, Merging, PendingRt
<1>3. Access(d, c) = Access(i, c)
  BY <1>2 DEF Access
<1>4. NextLoad(d, c, mem) = NextLoad(i, c, mem)
  BY <1>1, <1>2, <1>3 DEF NextLoad
<1>5. StoreValue(d, c, mem) = StoreValue(i, c, mem)
  BY <1>1, <1>2, <1>3 DEF StoreValue
<1>6. QED
  BY <1>1, <1>2, <1>3, <1>4, <1>5

\* They raise the same exceptions, and leave the same registers and memory.
LEMMA AlikeSteps ==
    ASSUME NEW d, NEW i, Alike(d, i), NEW c, NEW reg, Fits(c, reg), NEW mem
    PROVE  /\ Exception(d, c, mem) = Exception(i, c, mem)
           /\ Retired(d, c, mem) = Retired(i, c, mem)
           /\ MemoryAfter(d, c, mem) = MemoryAfter(i, c, mem)
<1>1. d.op = i.op
  BY AlikeFields
<1>2. Exception(d, c, mem) = Exception(i, c, mem)
  <2>1. i.op \in LoadOps \cup StoreOps =>
          (Refused(mem, Access(d, c), Bytes(d)) <=> Refused(mem, Access(i, c), Bytes(i)))
    BY AlikeAccesses
  <2>2. i.op = "DIV" => d.rs = i.rs /\ d.rt = i.rt
    BY AlikeFields DEF HiLoOps
  <2>3. Overflows(d, c) <=> Overflows(i, c)
    BY AlikeValues
  <2>4. QED
    BY <1>1, <2>1, <2>2, <2>3 DEF Exception
<1>3. MemoryAfter(d, c, mem) = MemoryAfter(i, c, mem)
  BY <1>1, AlikeAccesses DEF MemoryAfter
<1>4. Retired(d, c, mem) = Retired(i, c, mem)
  <2> DEFINE g == Written(i, c)
             h == HiLo(i, c)
             r == IF i.op \in LoadOps THEN i.rt ELSE 0
             v == IF i.op \in LoadOps THEN NextLoad(i, c, mem) ELSE 0
  <2>1. /\ Written(d, c) = g /\ HiLo(d, c) = h
        /\ (IF d.op \in LoadOps THEN d.rt ELSE 0) = r
        /\ (IF d.op \in LoadOps THEN NextLoad(d, c, mem) ELSE 0) = v
        /\ PcAfter(d, c) = PcAfter(i, c)
    BY <1>1, AlikeValues, AlikeAccesses, AlikeWays
  <2>2. Retired(i, c, mem)
          = [DelayedLoad([c EXCEPT !.gpr = g, !.hi = h.hi, !.lo = h.lo], r, v)
               EXCEPT !.pc = c.nextPC, !.nextPC = PcAfter(i, c)]
    BY DEF Retired, Written
  <2>3. Retired(d, c, mem)
          = [DelayedLoad([c EXCEPT !.gpr = Written(d, c), !.hi = HiLo(d, c).hi, !.lo = HiLo(d, c).lo],
                         IF d.op \in LoadOps THEN d.rt ELSE 0,
                         IF d.op \in LoadOps THEN NextLoad(d, c, mem) ELSE 0)
               EXCEPT !.pc = c.nextPC, !.nextPC = PcAfter(d, c)]
    BY DEF Retired, Written
  <2> HIDE DEF g, h, r, v
  <2>4. QED
    BY <2>1, <2>2, <2>3, Zenon
<1>5. QED
  BY <1>2, <1>3, <1>4

-----------------------------------------------------------------------------
(* The threads of the machine: loads in progress, switches and register 0. *)

\* The fields that Machine::DelayedLoad writes exist.
HasLoad(c) == {"gpr", "loadReg", "loadValue"} \subseteq DOMAIN c

\* The inductive invariant: KernelSeesLoads with what the steps need to know of
\* the threads and of the registers.
LoadInv == /\ running \in Thread
           /\ mode \in [Thread -> {"user", "kernel", "finished"}]
           /\ HasLoad(registers)
           /\ userRegisters = [t \in Thread |-> userRegisters[t]]
           /\ \A t \in Thread : HasLoad(userRegisters[t])
           /\ DOMAIN memory = Thread
           /\ KernelSeesLoads

\* DelayedLoad leaves the load it is given in progress, and no other.
LEMMA DelayedLoadShape ==
    ASSUME NEW c, HasLoad(c), NEW r, NEW v
    PROVE  HasLoad(DelayedLoad(c, r, v)) /\ DelayedLoad(c, r, v).loadReg = r
BY DEF HasLoad, DelayedLoad

\* "Finish anything in progress" leaves no load in progress.
LEMMA FinishedShape ==
    HasLoad(registers) => HasLoad(Finished) /\ Finished.loadReg = 0
BY DelayedLoadShape DEF Finished

\* An instruction leaves registers to load.
LEMMA RetiredShape ==
    ASSUME NEW c, HasLoad(c), NEW i, NEW mem
    PROVE  HasLoad(Retired(i, c, mem))
<1> DEFINE gpr == CASE i.op \in RdOps -> [c.gpr EXCEPT ![i.rd] = RdValue(i, c)]
                    [] i.op \in RtOps -> [c.gpr EXCEPT ![i.rt] = RtValue(i, c)]
                    [] OTHER          -> Linked(i, c)
           done == [c EXCEPT !.gpr = gpr, !.hi = HiLo(i, c).hi, !.lo = HiLo(i, c).lo]
           r == IF i.op \in LoadOps THEN i.rt ELSE 0
           v == IF i.op \in LoadOps THEN NextLoad(i, c, mem) ELSE 0
<1>1. HasLoad(done)
  BY DEF HasLoad
<1> HIDE DEF done, r, v
<1>2. HasLoad(DelayedLoad(done, r, v))
  BY <1>1, DelayedLoadShape
<1>3. Retired(i, c, mem)
        = [DelayedLoad(done, r, v) EXCEPT !.pc = c.nextPC, !.nextPC = PcAfter(i, c)]
  BY DEF Retired, done, r, v
<1>4. QED
  BY <1>2, <1>3 DEF HasLoad

LEMMA LoadInit == Init => LoadInv
<1> SUFFICES ASSUME NEW s \in Scenario,
                    userRegisters = [t \in Thread |-> InitRegisters(s.gpr[t])],
                    mode = [t \in Thread |-> IF program[t] = <<>> THEN "finished" ELSE "user"],
                    running \in {t \in Thread : mode[t] = "user"},
                    registers = userRegisters[running],
                    memory = s.memory
             PROVE  LoadInv
  BY DEF Init
<1>1. \A t \in Thread : HasLoad(userRegisters[t]) /\ userRegisters[t].loadReg = 0
  BY DEF InitRegisters, HasLoad
<1>2. KernelSeesLoads
  BY <1>1 DEF KernelSeesLoads, Own
<1>3. QED
  BY <1>1, <1>2, ScenarioAssumption DEF LoadInv

\* A switch between threads of which neither has a load in progress.
LEMMA RunKeeps ==
    ASSUME LoadInv, NEW t \in Thread, running = t, NEW u \in Thread, NEW saved,
           HasLoad(saved), saved.loadReg = 0, Run(t, u, saved),
           mode' = mode, memory' = memory
    PROVE  LoadInv'
BY DEF LoadInv, Run, KernelSeesLoads, Own

LEMMA LoadNext == LoadInv /\ [Next]_vars => LoadInv'
<1> SUFFICES ASSUME LoadInv, [Next]_vars PROVE LoadInv'
  OBVIOUS
<1> USE DEF InUser, InKernel
<1>1. ASSUME NEW t \in Thread, Instruction(t) PROVE LoadInv'
  <2>1. HasLoad(registers')
    BY <1>1, RetiredShape DEF Instruction, LoadInv
  <2>2. QED
    BY <1>1, <2>1 DEF Instruction, LoadInv, KernelSeesLoads, Own
<1>2. ASSUME NEW t \in Thread, Trap(t) PROVE LoadInv'
  BY <1>2, FinishedShape DEF Trap, LoadInv, KernelSeesLoads, Own
<1>3. ASSUME NEW t \in Thread, Abort(t) PROVE LoadInv'
  BY <1>3, FinishedShape DEF Abort, LoadInv, KernelSeesLoads, Own
<1>4. ASSUME NEW t \in Thread, SystemReturn(t) PROVE LoadInv'
  <2>1. HasLoad(registers') /\ registers'.loadReg = registers.loadReg
    BY <1>4 DEF SystemReturn, LoadInv, HasLoad
  <2>2. QED
    BY <1>4, <2>1 DEF SystemReturn, LoadInv, KernelSeesLoads, Own
<1>5. ASSUME NEW t \in Thread, Exit(t) PROVE LoadInv'
  BY <1>5 DEF Exit, LoadInv, KernelSeesLoads, Own
<1>6. ASSUME NEW t \in Thread, Interrupt(t) PROVE LoadInv'
  <2>1. CASE registers' = Finished /\ UNCHANGED <<userRegisters, running>>
    BY <1>6, <2>1, FinishedShape DEF Interrupt, LoadInv, KernelSeesLoads, Own
  <2>2. ASSUME NEW u \in Thread, Run(t, u, Finished) PROVE LoadInv'
    BY <1>6, <2>2, FinishedShape, RunKeeps DEF Interrupt, LoadInv
  <2>3. QED
    BY <1>6, <2>1, <2>2 DEF Interrupt
<1>7. ASSUME NEW t \in Thread, Yield(t) PROVE LoadInv'
  <2>1. /\ HasLoad(registers) /\ registers.loadReg = 0 /\ running = t
        /\ mode' = mode /\ memory' = memory
    BY <1>7 DEF Yield, LoadInv, KernelSeesLoads, Own
  <2>2. QED
    BY <1>7, <2>1, RunKeeps DEF Yield
<1>8. CASE UNCHANGED vars
  BY <1>8 DEF vars, LoadInv, KernelSeesLoads, Own
<1>9. QED
  BY <1>1, <1>2, <1>3, <1>4, <1>5, <1>6, <1>7, <1>8 DEF Next

LEMMA LoadInvHolds == Spec => []LoadInv
BY LoadInit, LoadNext, PTL DEF Spec

\* No load is in progress while the kernel runs, when NachOS ends, or in the
\* registers saved for a thread that does not run (mipssim.cc, CheckIfDue and
\* RaiseException): whatever the programs and however the threads interleave.
THEOREM KernelNeverMeetsLoad == Spec => []KernelSeesLoads
BY LoadInvHolds, PTL DEF LoadInv
-----------------------------------------------------------------------------
(* What a thread sees of the machine.                                      *)

\* What each thread sees changes only when that thread runs and executes an
\* instruction, returns from a system call, exits or is aborted: a trap, an
\* interrupt and a switch (SaveUserState, SWITCH, RestoreUserState) change
\* what no thread sees, and no thread changes what another one sees.
ChangesOnlyOwn ==
    [][\A t \in Thread :
          Seen(t)' # Seen(t) =>
            Instruction(t) \/ SystemReturn(t) \/ Exit(t) \/ Abort(t)]_vars

\* Finishing the load in progress changes nothing of what will be there when
\* it has finished.
LEMMA FinishedTwice ==
    ASSUME NEW c, HasLoad(c), NEW d, d = DelayedLoad(c, 0, 0)
    PROVE  /\ DelayedLoad(d, 0, 0).gpr = d.gpr
           /\ d.hi = c.hi /\ d.lo = c.lo /\ d.pc = c.pc /\ d.nextPC = c.nextPC
<1>1. /\ d.gpr = [[c.gpr EXCEPT ![c.loadReg] = c.loadValue] EXCEPT ![0] = 0]
      /\ d.loadReg = 0 /\ d.loadValue = 0
      /\ HasLoad(d)
      /\ d.hi = c.hi /\ d.lo = c.lo /\ d.pc = c.pc /\ d.nextPC = c.nextPC
  BY DEF HasLoad, DelayedLoad
<1>2. DelayedLoad(d, 0, 0).gpr = [[d.gpr EXCEPT ![0] = 0] EXCEPT ![0] = 0]
  BY <1>1 DEF HasLoad, DelayedLoad
<1>3. [[d.gpr EXCEPT ![0] = 0] EXCEPT ![0] = 0] = d.gpr
  BY <1>1
<1>4. QED
  BY <1>1, <1>2, <1>3

\* A thread whose registers are the same, or the same with its load finished,
\* and whose memory and status are the same, sees the same.
LEMMA SeenKept ==
    ASSUME NEW t \in Thread, HasLoad(Own(t)),
           Own(t)' = Own(t) \/ Own(t)' = DelayedLoad(Own(t), 0, 0),
           memory' = memory, abort' = abort, abort = "none",
           (mode'[t] = "finished") <=> (mode[t] = "finished")
    PROVE  Seen(t)' = Seen(t)
<1>1. /\ DelayedLoad(Own(t)', 0, 0).gpr = DelayedLoad(Own(t), 0, 0).gpr
      /\ Own(t)'.hi = Own(t).hi /\ Own(t)'.lo = Own(t).lo
      /\ Own(t)'.pc = Own(t).pc /\ Own(t)'.nextPC = Own(t).nextPC
  BY FinishedTwice
<1>2. (DelayedLoad(Own(t), 0, 0).gpr)' = DelayedLoad(Own(t)', 0, 0).gpr
  BY DEF DelayedLoad
<1>3. QED
  BY <1>1, <1>2 DEF Seen

\* Each step but the four changes what no thread sees, and these four only what
\* their own thread sees.
LEMMA SeenNext ==
    ASSUME LoadInv, [Next]_vars, NEW u \in Thread, Seen(u)' # Seen(u)
    PROVE  Instruction(u) \/ SystemReturn(u) \/ Exit(u) \/ Abort(u)
<1> USE DEF InUser, InKernel
<1>1. HasLoad(Own(u))
  BY DEF LoadInv, Own
<1>2. ASSUME NEW t \in Thread, t # u,
             Instruction(t) \/ SystemReturn(t) \/ Exit(t) \/ Abort(t)
      PROVE  FALSE
  <2>1. /\ running = t /\ running' = t /\ userRegisters' = userRegisters
        /\ abort = "none"
    BY <1>2 DEF Instruction, SystemReturn, Exit, Abort
  <2>2. Own(u)' = Own(u) /\ mode'[u] = mode[u] /\ memory'[u] = memory[u]
    BY <1>2, <2>1 DEF Own, Instruction, SystemReturn, Exit, Abort, LoadInv
  <2>3. (DelayedLoad(Own(u), 0, 0).gpr)' = DelayedLoad(Own(u)', 0, 0).gpr
    BY DEF DelayedLoad
  <2>4. Seen(u)' = Seen(u)
    BY <1>2, <2>1, <2>2, <2>3 DEF Seen
  <2>5. QED
    BY <2>4
<1>3. ASSUME NEW t \in Thread, Trap(t) PROVE FALSE
  <2>1. Own(u)' = Own(u) \/ Own(u)' = DelayedLoad(Own(u), 0, 0)
    BY <1>3 DEF Trap, Own, Finished
  <2>2. QED
    BY <1>1, <1>3, <2>1, SeenKept DEF Trap, LoadInv
<1>4. ASSUME NEW t \in Thread, Interrupt(t) \/ Yield(t) PROVE FALSE
  <2>1. CASE registers' = Finished /\ UNCHANGED <<userRegisters, running>>
    BY <1>1, <1>4, <2>1, SeenKept DEF Interrupt, Yield, Own, Finished
  <2>2. ASSUME NEW v \in Thread, NEW saved, Run(t, v, saved),
               saved = registers \/ saved = Finished
        PROVE  FALSE
    <3>1. Own(u)' = Own(u) \/ Own(u)' = DelayedLoad(Own(u), 0, 0)
      BY <1>4, <2>2 DEF Interrupt, Yield, Run, Own, Finished, LoadInv
    <3>2. QED
      BY <1>1, <1>4, <3>1, SeenKept DEF Interrupt, Yield
  <2>3. QED
    BY <1>4, <2>1, <2>2 DEF Interrupt, Yield
<1>5. ~ UNCHANGED vars
  BY DEF vars, text, Seen, Own, DelayedLoad
<1>6. QED
  BY <1>2, <1>3, <1>4, <1>5 DEF Next

\* The threads of MipsCpu do not see each other, nor the interrupts and the
\* switches between their instructions.
THEOREM SwitchesAreInvisible == Spec => ChangesOnlyOwn
<1>1. LoadInv /\ [Next]_vars
        => [\A t \in Thread :
               Seen(t)' # Seen(t) =>
                 Instruction(t) \/ SystemReturn(t) \/ Exit(t) \/ Abort(t)]_vars
  BY SeenNext
<1>2. QED
  BY <1>1, LoadInvHolds, PTL DEF Spec, ChangesOnlyOwn
-----------------------------------------------------------------------------
(* Register 0.                                                             *)

\* "And always make sure R0 stays zero" (mipssim.cc): whatever writes register
\* 0, a computed result, a link, a load that ends or a system call, every
\* thread finds 0 there between two instructions, in the machine or saved.
ZeroStaysZero == \A t \in Thread : 0 \in DOMAIN Own(t).gpr /\ Own(t).gpr[0] = 0

\* Ending the load in progress is what clears register 0.
LEMMA DelayedLoadZero ==
    ASSUME NEW c, HasLoad(c), 0 \in DOMAIN c.gpr, NEW r, NEW v
    PROVE  /\ 0 \in DOMAIN DelayedLoad(c, r, v).gpr
           /\ DelayedLoad(c, r, v).gpr[0] = 0
<1>1. DelayedLoad(c, r, v).gpr
        = [[c.gpr EXCEPT ![c.loadReg] = c.loadValue] EXCEPT ![0] = 0]
  BY DEF HasLoad, DelayedLoad
<1>2. QED
  BY <1>1

\* An instruction keeps the registers there are, and ends with DelayedLoad.
LEMMA RetiredZero ==
    ASSUME NEW c, HasLoad(c), 0 \in DOMAIN c.gpr, NEW i, NEW mem
    PROVE  /\ 0 \in DOMAIN Retired(i, c, mem).gpr
           /\ Retired(i, c, mem).gpr[0] = 0
<1> DEFINE gpr == CASE i.op \in RdOps -> [c.gpr EXCEPT ![i.rd] = RdValue(i, c)]
                    [] i.op \in RtOps -> [c.gpr EXCEPT ![i.rt] = RtValue(i, c)]
                    [] OTHER          -> Linked(i, c)
           done == [c EXCEPT !.gpr = gpr, !.hi = HiLo(i, c).hi, !.lo = HiLo(i, c).lo]
           r == IF i.op \in LoadOps THEN i.rt ELSE 0
           v == IF i.op \in LoadOps THEN NextLoad(i, c, mem) ELSE 0
<1>1. 0 \in DOMAIN gpr
  <2>1. DOMAIN Linked(i, c) = DOMAIN c.gpr
    BY DEF Linked
  <2>2. i.op \in RdOps => i.op \notin RtOps
    BY DEF RdOps, RtOps
  <2>3. QED
    BY <2>1, <2>2
<1>2. HasLoad(done) /\ done.gpr = gpr
  BY DEF HasLoad
<1> HIDE DEF done, gpr, r, v
<1>3. /\ 0 \in DOMAIN DelayedLoad(done, r, v).gpr
      /\ DelayedLoad(done, r, v).gpr[0] = 0
  BY <1>1, <1>2, DelayedLoadZero
<1>4. Retired(i, c, mem)
        = [DelayedLoad(done, r, v) EXCEPT !.pc = c.nextPC, !.nextPC = PcAfter(i, c)]
  BY DEF Retired, done, gpr, r, v
<1>5. Retired(i, c, mem).gpr = DelayedLoad(done, r, v).gpr
  BY <1>4
<1>6. QED
  BY <1>3, <1>5

LEMMA ZeroInit == Init => ZeroStaysZero
<1> SUFFICES ASSUME NEW s \in Scenario,
                    userRegisters = [t \in Thread |-> InitRegisters(s.gpr[t])],
                    running \in Thread, registers = userRegisters[running]
             PROVE  ZeroStaysZero
  BY DEF Init
<1>1. QED
  BY ScenarioAssumption DEF ZeroStaysZero, Own, InitRegisters

LEMMA ZeroNext == LoadInv /\ ZeroStaysZero /\ [Next]_vars => ZeroStaysZero'
<1> SUFFICES ASSUME LoadInv, ZeroStaysZero, [Next]_vars, NEW u \in Thread
             PROVE  (0 \in DOMAIN Own(u).gpr /\ Own(u).gpr[0] = 0)'
  BY DEF ZeroStaysZero
<1> USE DEF InUser, InKernel
<1>1. HasLoad(Own(u)) /\ 0 \in DOMAIN Own(u).gpr /\ Own(u).gpr[0] = 0
  BY DEF LoadInv, Own, ZeroStaysZero
<1>2. ASSUME Own(u)' = Own(u) \/ Own(u)' = DelayedLoad(Own(u), 0, 0)
      PROVE  0 \in DOMAIN Own(u)'.gpr /\ Own(u)'.gpr[0] = 0
  BY <1>1, <1>2, DelayedLoadZero
<1>3. ASSUME NEW t \in Thread, Instruction(t)
      PROVE  0 \in DOMAIN Own(u)'.gpr /\ Own(u)'.gpr[0] = 0
  <2>1. CASE u = t
    <3>1. Own(u)' = Retired(Current, Own(u), memory[t])
      BY <1>3, <2>1 DEF Instruction, Own
    <3>2. QED
      BY <1>1, <3>1, RetiredZero
  <2>2. CASE u # t
    BY <1>2, <1>3, <2>2 DEF Instruction, Own
  <2>3. QED
    BY <2>1, <2>2
<1>4. ASSUME NEW t \in Thread, Trap(t) \/ Abort(t)
      PROVE  0 \in DOMAIN Own(u)'.gpr /\ Own(u)'.gpr[0] = 0
  BY <1>2, <1>4 DEF Trap, Abort, Own, Finished
<1>5. ASSUME NEW t \in Thread, SystemReturn(t)
      PROVE  0 \in DOMAIN Own(u)'.gpr /\ Own(u)'.gpr[0] = 0
  <2>1. CASE u = t
    <3>1. PICK v \in SysResult :
             registers' = [registers EXCEPT !.gpr[2] = v, !.pc = ToWord(@ + 4),
                                            !.nextPC = ToWord(registers.pc + 8)]
      BY <1>5 DEF SystemReturn
    <3>2. "gpr" \in DOMAIN registers /\ Own(u) = registers /\ Own(u)' = registers'
      BY <1>1, <1>5, <2>1 DEF SystemReturn, Own, HasLoad
    <3>3. Own(u)'.gpr = [Own(u).gpr EXCEPT ![2] = v]
      BY <3>1, <3>2
    <3>4. QED
      BY <1>1, <3>3
  <2>2. CASE u # t
    BY <1>2, <1>5, <2>2 DEF SystemReturn, Own
  <2>3. QED
    BY <2>1, <2>2
<1>6. ASSUME NEW t \in Thread, Exit(t)
      PROVE  0 \in DOMAIN Own(u)'.gpr /\ Own(u)'.gpr[0] = 0
  BY <1>2, <1>6 DEF Exit, Own
<1>7. ASSUME NEW t \in Thread, Interrupt(t) \/ Yield(t)
      PROVE  0 \in DOMAIN Own(u)'.gpr /\ Own(u)'.gpr[0] = 0
  <2>1. Own(u)' = Own(u) \/ Own(u)' = DelayedLoad(Own(u), 0, 0)
    BY <1>7 DEF Interrupt, Yield, Run, Own, Finished, LoadInv
  <2>2. QED
    BY <1>2, <2>1
<1>8. CASE UNCHANGED vars
  BY <1>2, <1>8 DEF vars, Own
<1>9. QED
  BY <1>3, <1>4, <1>5, <1>6, <1>7, <1>8 DEF Next

\* Register 0 is 0 for every thread, at every instant.
THEOREM RegisterZero == Spec => []ZeroStaysZero
BY LoadInvHolds, ZeroInit, ZeroNext, PTL DEF Spec

-----------------------------------------------------------------------------
(* The machine and the processors of its threads.                          *)

\* Registers of a thread with program p: they hold words, and the instructions
\* are of these registers.
Sound(p, c) == /\ Fits(c, DOMAIN c.gpr)
               /\ \A k \in DOMAIN p : WellFormed(p[k], DOMAIN c.gpr)

\* The next instruction of program p is there, and is a system call that is not
\* in the slot of a branch.
Fetched(p, c) == c.pc % 4 = 0 /\ c.pc \div 4 + 1 \in DOMAIN p
Upcoming(p, c) == p[c.pc \div 4 + 1]
Called(p, c)  == Fetched(p, c) /\ Upcoming(p, c).op = "SYSCALL" /\ c.nextPC = ToWord(c.pc + 4)

\* The inductive invariant of programs that obey: what InstructionsAgree needs,
\* and of a thread in the kernel what it will return from.
ObeyInv == /\ LoadInv
           /\ code = [t \in Thread |-> [k \in DOMAIN program[t] |-> Encode(program[t][k])]]
           /\ \A t \in Thread : /\ Sound(program[t], Own(t))
                                /\ WholeWords(memory[t])
                                /\ mode[t] = "kernel" => Called(program[t], Own(t))

\* Finishing the load in progress leaves words, and the program counters.
LEMMA FinishedFits ==
    ASSUME NEW c, NEW reg, Fits(c, reg)
    PROVE  /\ Fits(DelayedLoad(c, 0, 0), reg)
           /\ DelayedLoad(c, 0, 0).pc = c.pc /\ DelayedLoad(c, 0, 0).nextPC = c.nextPC
<1> DEFINE d == DelayedLoad(c, 0, 0)
           g == Put(c.gpr, c.loadReg, c.loadValue)
<1>1. /\ {"gpr", "hi", "lo", "pc", "nextPC", "loadReg", "loadValue"} \subseteq DOMAIN c
      /\ c.gpr \in [reg -> Word] /\ 0 \in reg /\ c.loadValue \in Word
  BY DEF Fits
<1>2. /\ DOMAIN d = DOMAIN c /\ d.gpr = g /\ d.loadReg = 0 /\ d.loadValue = 0
      /\ d.hi = c.hi /\ d.lo = c.lo /\ d.pc = c.pc /\ d.nextPC = c.nextPC
  BY <1>1 DEF DelayedLoad, Put
<1>3. g \in [reg -> Word] /\ g[0] = 0
  BY <1>1, SmallWords DEF Put
<1> HIDE DEF d, g
<1>4. Fits(d, reg)
  BY <1>2, <1>3, SmallWords DEF Fits
<1>5. QED
  BY <1>2, <1>4 DEF d

\* So the registers stay sound.
LEMMA FinishedSound ==
    ASSUME NEW p, NEW c, Sound(p, c)
    PROVE  /\ Sound(p, DelayedLoad(c, 0, 0))
           /\ DelayedLoad(c, 0, 0).pc = c.pc /\ DelayedLoad(c, 0, 0).nextPC = c.nextPC
<1> DEFINE d == DelayedLoad(c, 0, 0)
           reg == DOMAIN c.gpr
<1>1. Fits(c, reg) /\ \A k \in DOMAIN p : WellFormed(p[k], reg)
  BY DEF Sound
<1>2. Fits(d, reg) /\ d.pc = c.pc /\ d.nextPC = c.nextPC
  BY <1>1, FinishedFits
<1> HIDE DEF d, reg
<1>3. DOMAIN d.gpr = reg
  BY <1>2 DEF Fits
<1>4. Sound(p, d)
  BY <1>1, <1>2, <1>3 DEF Sound
<1>5. QED
  BY <1>2, <1>4 DEF d

\* The instruction that the simulator decodes is like the program's.
LEMMA CurrentIs ==
    ASSUME ObeyInv
    PROVE  /\ running \in Thread /\ Own(running) = registers
           /\ Sound(program[running], registers)
           /\ Fetches <=> Fetched(program[running], registers)
           /\ Fetches => /\ Alike(Current, Upcoming(program[running], registers))
                         /\ WellFormed(Upcoming(program[running], registers), DOMAIN registers.gpr)
<1>1. running \in Thread
  BY DEF ObeyInv, LoadInv
<1>2. Own(running) = registers
  BY DEF Own
<1>3. Sound(program[running], registers)
  BY <1>1, <1>2 DEF ObeyInv
<1>4. code[running] = [k \in DOMAIN program[running] |-> Encode(program[running][k])]
  BY <1>1 DEF ObeyInv
<1>5. Fetches <=> Fetched(program[running], registers)
  BY <1>4 DEF Fetches, Fetched
<1>6. ASSUME Fetches
      PROVE  /\ Alike(Current, Upcoming(program[running], registers))
             /\ WellFormed(Upcoming(program[running], registers), DOMAIN registers.gpr)
  <2> DEFINE i == Upcoming(program[running], registers)
             reg == DOMAIN registers.gpr
  <2>1. WellFormed(i, reg)
    BY <1>3, <1>5, <1>6 DEF Sound, Fetched, Upcoming
  <2>2. reg \subseteq 0 .. 31
    BY <1>3 DEF Sound, Fits
  <2>3. Current = Decode(Encode(i))
    BY <1>4, <1>5, <1>6 DEF Current, Fetched, Upcoming
  <2> HIDE DEF i, reg
  <2>4. Alike(Current, i)
    BY <2>1, <2>2, <2>3, DecodesBack
  <2>5. QED
    BY <2>1, <2>4 DEF i, reg
<1>7. QED
  BY <1>1, <1>2, <1>3, <1>5, <1>6

\* A program that obeys.
LEMMA UpcomingObeys ==
    ASSUME ObeyInv, ProgramsObey, InUser(running), Fetches
    PROVE  Demands(Upcoming(program[running], registers), registers)
BY DEF ProgramsObey, Upcoming

\* The exception it raises.
LEMMA RaisedIs ==
    ASSUME ObeyInv
    PROVE  Raised = IF Fetches THEN Exception(Upcoming(program[running], registers), registers,
                                              memory[running])
                    ELSE "address error"
<1>1. Fits(registers, DOMAIN registers.gpr)
  BY CurrentIs DEF Sound
<1>2. ASSUME Fetches
      PROVE  Exception(Current, registers, memory[running])
               = Exception(Upcoming(program[running], registers), registers, memory[running])
  BY <1>1, <1>2, CurrentIs, AlikeSteps
<1>3. QED
  BY <1>2 DEF Raised

\* What a thread sees, of registers c and memory mem.
See(c, mem, status) == [SeenOf(c, mem) EXCEPT !.status = status]

\* What a thread sees, of its registers, its memory and how it stands.
LEMMA SeenSee ==
    ASSUME NEW t \in Thread
    PROVE  Seen(t) = See(Own(t), memory[t],
                         IF mode[t] = "finished" THEN "finished"
                         ELSE IF running = t /\ abort # "none" THEN abort ELSE "running")
BY DEF Seen, See, SeenOf

\* The same after a step.
LEMMA SeenSeePrime ==
    ASSUME NEW t \in Thread
    PROVE  Seen(t)' = See(Own(t)', memory'[t],
                          IF mode'[t] = "finished" THEN "finished"
                          ELSE IF running' = t /\ abort' # "none" THEN abort' ELSE "running")
BY DEF Seen, See, SeenOf, DelayedLoad

\* A thread that runs.
LEMMA SeeRunning ==
    ASSUME NEW c, NEW mem
    PROVE  See(c, mem, "running") = SeenOf(c, mem)
BY DEF See, SeenOf

\* An instruction of a thread that obeys: the registers and memory it leaves are
\* sound, and are what the MIPS makes of those it found.
LEMMA InstructionDoes ==
    ASSUME ObeyInv, ProgramsObey, NEW t \in Thread, Instruction(t)
    PROVE  /\ t = running /\ Fetches
           /\ Upcoming(program[t], registers).op # "SYSCALL"
           /\ Sound(program[t], registers') /\ WholeWords(memory'[t])
           /\ SeenOf(registers', memory'[t])
                = Reference!Execute(Upcoming(program[t], registers), SeenOf(registers, memory[t]))
<1> DEFINE p == program[t]
           i == Upcoming(p, registers)
           mem == memory[t]
           reg == DOMAIN registers.gpr
<1>1. t = running /\ Raised = "none" /\ InUser(running)
  BY DEF Instruction, InUser
<1>2. Fetches
  BY <1>1 DEF Raised
<1>3. Exception(i, registers, mem) = "none"
  BY <1>1, <1>2, RaisedIs
<1>4. Demands(i, registers)
  BY <1>1, <1>2, UpcomingObeys
<1>5. /\ Alike(Current, i) /\ WellFormed(i, reg)
      /\ Fits(registers, reg) /\ \A k \in DOMAIN p : WellFormed(p[k], reg)
  BY <1>1, <1>2, CurrentIs DEF Sound
<1>6. WholeWords(mem)
  BY DEF ObeyInv
<1>7. Retired(Current, registers, mem) = Retired(i, registers, mem)
      /\ MemoryAfter(Current, registers, mem) = MemoryAfter(i, registers, mem)
  BY <1>5, AlikeSteps
<1>8. registers' = Retired(Current, registers, mem)
  BY DEF Instruction
<1>9. memory'[t] = MemoryAfter(Current, registers, mem)
  BY DEF Instruction, MemoryAfter, ObeyInv, LoadInv
<1> HIDE DEF p, i, mem, reg
<1>10. i.op # "SYSCALL"
  BY <1>3, NoException
<1>11. Fits(registers', reg) /\ WholeWords(memory'[t])
  BY <1>3, <1>4, <1>5, <1>6, <1>7, <1>8, <1>9, RetiredFits
<1>12. SeenOf(registers', memory'[t]) = Reference!Execute(i, SeenOf(registers, mem))
  BY <1>3, <1>4, <1>5, <1>6, <1>7, <1>8, <1>9, InstructionsAgree
<1>13. DOMAIN registers'.gpr = reg
  BY <1>11 DEF Fits
<1>14. Sound(p, registers')
  BY <1>5, <1>11, <1>13 DEF Sound
<1>15. QED
  BY <1>1, <1>2, <1>10, <1>11, <1>12, <1>14 DEF p, i, mem

\* A program that obeys calls the system outside the slot of a branch.
LEMMA TrapDoes ==
    ASSUME ObeyInv, ProgramsObey, NEW t \in Thread, Trap(t)
    PROVE  Called(program[t], registers)
<1> DEFINE i == Upcoming(program[t], registers)
<1>1. t = running /\ Raised = "syscall" /\ InUser(running)
  BY DEF Trap, InUser
<1>2. Fetches
  BY <1>1 DEF Raised
<1>3. Fetched(program[t], registers)
  BY <1>1, <1>2, CurrentIs
<1>4. Demands(i, registers)
  BY <1>1, <1>2, UpcomingObeys
<1>5. Exception(i, registers, memory[t]) = "syscall"
  BY <1>1, <1>2, RaisedIs
<1> HIDE DEF i
<1>6. i.op = "SYSCALL"
  BY <1>5 DEF Exception
<1>7. registers.nextPC = ToWord(registers.pc + 4)
  BY <1>4, <1>6 DEF Demands
<1>8. QED
  BY <1>3, <1>6, <1>7 DEF Called, i

\* What a system call that returns v makes of what a thread sees.
Returned(s, v) == [Reference!SetReg(s, 2, v) EXCEPT !.pc = s.npc, !.npc = ToWord(s.npc + 4)]

\* The registers that a system call returns with, its result v in register 2.
Back(c, v) ==
    [c EXCEPT !.gpr[2] = v, !.pc = ToWord(c.pc + 4), !.nextPC = ToWord(c.pc + 8)]

\* Registers after a system call.
LEMMA ReturnFits ==
    ASSUME NEW c, NEW reg, Fits(c, reg), c.nextPC = ToWord(c.pc + 4), c.loadReg = 0,
           NEW v \in Word, NEW mem, NEW d, d = Back(c, v)
    PROVE  /\ Fits(d, reg)
           /\ SeenOf(d, mem) = Returned(SeenOf(c, mem), v)
<1>1. /\ {"gpr", "hi", "lo", "pc", "nextPC", "loadReg", "loadValue"} \subseteq DOMAIN c
      /\ reg \subseteq 0 .. 31 /\ 0 \in reg
      /\ c.gpr \in [reg -> Word] /\ c.gpr[0] = 0 /\ c.loadValue \in Word
      /\ c.hi \in Word /\ c.lo \in Word
  BY DEF Fits
<1> DEFINE g == [c.gpr EXCEPT ![2] = v]
           n == ToWord(c.pc + 4)
           nn == ToWord(c.pc + 8)
<1>2. /\ DOMAIN d = DOMAIN c /\ d.gpr = g /\ d.hi = c.hi /\ d.lo = c.lo
      /\ d.pc = n /\ d.nextPC = nn /\ d.loadReg = c.loadReg /\ d.loadValue = c.loadValue
  BY <1>1 DEF Back
<1>3. g \in [reg -> Word] /\ g[0] = 0
  <2> DEFINE h == c.gpr
  <2>1. h \in [reg -> Word] /\ h[0] = 0 /\ 0 \in reg
    BY <1>1
  <2> HIDE DEF h
  <2>2. [h EXCEPT ![2] = v] \in [reg -> Word]
    BY <2>1
  <2>3. DOMAIN h = reg
    BY <2>1
  <2>4. [h EXCEPT ![2] = v][0] = h[0]
    BY <2>1, <2>3
  <2>5. QED
    BY <2>1, <2>2, <2>4 DEF h
<1>4. n \in Word /\ nn \in Word /\ ToWord(c.nextPC + 4) = nn
  <2>1. c.pc \in Int
    BY DEF Fits, Word
  <2>2. c.pc + 4 \in Int /\ c.pc + 8 \in Int
    BY <2>1
  <2>3. ToWord(n + 4) = ToWord((c.pc + 4) + 4)
    <3> DEFINE a == c.pc + 4
    <3>1. a \in Int /\ 4 \in Int
      BY <2>2
    <3> HIDE DEF a
    <3>2. ToWord(ToWord(a) + 4) = ToWord(a + 4)
      BY <3>1, ToWordSum
    <3>3. QED
      BY <3>2 DEF a, n
  <2>4. (c.pc + 4) + 4 = c.pc + 8
    BY <2>1
  <2>5. QED
    BY <2>2, <2>3, <2>4, ToWordIs
<1>5. SeenOf(c, mem) = View(Put(c.gpr, 0, c.loadValue), c.hi, c.lo, c.pc, c.nextPC, mem)
  BY SeenIs
<1> HIDE DEF g, n, nn
<1>6. Fits(d, reg)
  BY <1>1, <1>2, <1>3, <1>4 DEF Fits
<1>7. SeenOf(d, mem) = View(Put(g, 0, c.loadValue), c.hi, c.lo, n, nn, mem)
  BY <1>2, <1>6, SeenIs
<1> DEFINE old == Put(c.gpr, 0, c.loadValue)
           new == Put(old, 2, v)
           pc == c.pc
           hi == c.hi
           lo == c.lo
<1>8. Put(g, 0, c.loadValue) = new
  <2>1. Put(Put(g, 0, c.loadValue), 0, 0) = new
    <3> DEFINE h == c.gpr
               lv == c.loadValue
    <3>1. h \in [reg -> Word] /\ 0 \in reg /\ DOMAIN h = reg
      BY <1>1
    <3> HIDE DEF h, lv
    <3>2. Put(Put([h EXCEPT ![2] = v], 0, lv), 0, 0) = Put(Put(h, 0, lv), 2, v)
      BY ONLY <3>1 DEF Put
    <3>3. QED
      BY <3>2 DEF g, h, lv
  <2>2. Put(Put(g, 0, c.loadValue), 0, 0) = Put(g, 0, c.loadValue)
    <3> DEFINE lv == c.loadValue
    <3> HIDE DEF lv
    <3>1. g \in [reg -> Word] /\ 0 \in reg
      BY <1>1, <1>3
    <3>2. Put(Put(g, 0, lv), 0, 0) = Put(g, 0, lv)
      BY ONLY <3>1, PutZero
    <3>3. QED
      BY <3>2 DEF lv
  <2>3. QED
    BY <2>1, <2>2
<1>9. Reference!SetReg(SeenOf(c, mem), 2, v) = View(new, hi, lo, pc, n, mem)
  <2>1. SeenOf(c, mem) = View(old, hi, lo, pc, n, mem)
    BY <1>5 DEF n
  <2> HIDE DEF old, hi, lo, pc
  <2>2. View(old, hi, lo, pc, n, mem).gpr = old
    BY ViewParts
  <2>3. Reference!SetReg(SeenOf(c, mem), 2, v)
          = [SeenOf(c, mem) EXCEPT !.gpr = Put(SeenOf(c, mem).gpr, 2, v)]
    BY DEF Reference!SetReg, Put
  <2>4. [View(old, hi, lo, pc, n, mem) EXCEPT !.gpr = new] = View(new, hi, lo, pc, n, mem)
    BY ViewGpr
  <2>5. QED
    BY <2>1, <2>2, <2>3, <2>4
<1> HIDE DEF new, pc, hi, lo
<1>10. /\ [View(new, hi, lo, pc, n, mem) EXCEPT !.pc = n] = View(new, hi, lo, n, n, mem)
       /\ [View(new, hi, lo, n, n, mem) EXCEPT !.npc = nn] = View(new, hi, lo, n, nn, mem)
  BY DEF View
<1> DEFINE s == Reference!SetReg(SeenOf(c, mem), 2, v)
<1> HIDE DEF s
<1>11. [s EXCEPT !.pc = n, !.npc = nn] = View(new, hi, lo, n, nn, mem)
  BY <1>9, <1>10 DEF s
<1>12. SeenOf(d, mem) = [s EXCEPT !.pc = n, !.npc = nn]
  BY <1>7, <1>8, <1>11 DEF hi, lo
<1>13. c.nextPC = n
  BY DEF n
<1>14. SeenOf(c, mem).npc = n
  BY <1>5, <1>13, ViewParts
<1>15. Returned(SeenOf(c, mem), v) = [s EXCEPT !.pc = n, !.npc = nn]
  BY <1>4, <1>13, <1>14 DEF Returned, s
<1>16. QED
  BY <1>6, <1>12, <1>15

\* There are at least sixteen words, so that the second instruction has an address.
LEMMA FourIsWord == 4 \in Word
<1>1. Width \in Nat /\ 3 \in 0 .. Width
  BY WidthIs
<1>2. 2 ^ 3 \in Nat \ {0} /\ 2 ^ 3 <= WordSize
  BY <1>1, PowerBelow
<1>3. 2 ^ 3 = 8 /\ WordSize \in Nat
  BY Halving, SMT
<1>4. QED
  BY <1>2, <1>3 DEF Word

\* Programs start with words in registers and memory, and in user mode.
LEMMA ObeyInit == Init => ObeyInv
<1> SUFFICES ASSUME Init PROVE ObeyInv
  OBVIOUS
<1> PICK s \in Scenario :
      /\ program = s.program
      /\ code = [t \in Thread |-> [k \in DOMAIN program[t] |-> Encode(program[t][k])]]
      /\ memory = s.memory
      /\ userRegisters = [t \in Thread |-> InitRegisters(s.gpr[t])]
      /\ mode = [t \in Thread |-> IF program[t] = <<>> THEN "finished" ELSE "user"]
      /\ running \in {t \in Thread : mode[t] = "user"}
      /\ registers = userRegisters[running]
  BY DEF Init
<1>1. LoadInv
  BY LoadInit
<1>2. ASSUME NEW t \in Thread
      PROVE  /\ Sound(program[t], Own(t)) /\ WholeWords(memory[t])
             /\ mode[t] # "kernel"
  <2> DEFINE reg == DOMAIN s.gpr[t]
             g == s.gpr[t]
             mem == s.memory[t]
  <2>1. /\ reg \subseteq 0 .. 31
        /\ g \in [reg -> Word] /\ 0 \in reg /\ g[0] = 0
        /\ \A k \in DOMAIN s.program[t] : WellFormed(s.program[t][k], reg)
        /\ mem \in [DOMAIN mem -> 0 .. Weight(1) - 1]
        /\ \A x \in DOMAIN mem : /\ x \in Nat
                                 /\ \A k \in 0 .. 3 : (x \div 4) * 4 + k \in DOMAIN mem
    BY ScenarioAssumption
  <2>2. Own(t) = InitRegisters(g)
    BY DEF Own
  <2>3. WholeWords(memory[t])
    BY <2>1 DEF WholeWords, OneByte
  <2>4. mode[t] # "kernel"
    OBVIOUS
  <2>5. DOMAIN g = reg
    OBVIOUS
  <2> HIDE DEF reg, g, mem
  <2>6. Fits(InitRegisters(g), reg)
    BY <2>1, SmallWords, FourIsWord DEF Fits, InitRegisters
  <2>7. InitRegisters(g).gpr = g
    BY DEF InitRegisters
  <2>8. Sound(program[t], Own(t))
    BY <2>1, <2>2, <2>5, <2>6, <2>7 DEF Sound
  <2>9. QED
    BY <2>3, <2>4, <2>8
<1>3. QED
  BY <1>1, <1>2 DEF ObeyInv

\* Maps that only finish a load in progress, or move registers between the
\* machine and where they are saved.
LEMMA ObeyKept ==
    ASSUME ObeyInv, LoadInv', UNCHANGED <<text, memory>>,
           \A t \in Thread : /\ Own(t)' = Own(t) \/ Own(t)' = DelayedLoad(Own(t), 0, 0)
                             /\ mode'[t] = "kernel" => mode[t] = "kernel" \/ Called(program[t], Own(t))
    PROVE  ObeyInv'
<1>1. program' = program /\ code' = code /\ memory' = memory
  BY DEF text
<1>2. ASSUME NEW t \in Thread
      PROVE  /\ Sound(program[t], Own(t)') /\ WholeWords(memory[t])
             /\ mode'[t] = "kernel" => Called(program[t], Own(t)')
  <2>1. Sound(program[t], Own(t)) /\ WholeWords(memory[t])
        /\ (mode[t] = "kernel" => Called(program[t], Own(t)))
    BY DEF ObeyInv
  <2>2. Sound(program[t], Own(t)') /\ Own(t)'.pc = Own(t).pc /\ Own(t)'.nextPC = Own(t).nextPC
    BY <2>1, FinishedSound
  <2>3. Called(program[t], Own(t)) => Called(program[t], Own(t)')
    BY <2>2 DEF Called, Fetched, Upcoming
  <2>4. QED
    BY <2>1, <2>2, <2>3
<1>3. code = [t \in Thread |-> [k \in DOMAIN program[t] |-> Encode(program[t][k])]]
  BY DEF ObeyInv
<1>4. QED
  BY <1>1, <1>2, <1>3 DEF ObeyInv

\* Maps of a thread that leave it sound and in user code.
LEMMA ObeyUser ==
    ASSUME ObeyInv, LoadInv', UNCHANGED <<text, userRegisters, running>>, NEW t \in Thread, t = running,
           Sound(program[t], registers'), WholeWords(memory'[t]), mode'[t] # "kernel",
           \A u \in Thread \ {t} : memory'[u] = memory[u] /\ mode'[u] = mode[u]
    PROVE  ObeyInv'
<1>1. program' = program /\ code' = code
  BY DEF text
<1>2. ASSUME NEW u \in Thread
      PROVE  /\ Sound(program[u], Own(u)') /\ WholeWords(memory'[u])
             /\ mode'[u] = "kernel" => Called(program[u], Own(u)')
  <2>1. CASE u = t
    BY <2>1 DEF Own
  <2>2. CASE u # t
    BY <2>2 DEF Own, ObeyInv
  <2>3. QED
    BY <2>1, <2>2
<1>3. code = [u \in Thread |-> [k \in DOMAIN program[u] |-> Encode(program[u][k])]]
  BY DEF ObeyInv
<1>4. QED
  BY <1>1, <1>2, <1>3 DEF ObeyInv

\* What SystemReturn writes.
LEMMA ReturnDoes ==
    ASSUME ObeyInv, NEW t \in Thread, SystemReturn(t)
    PROVE  /\ t = running /\ Called(program[t], registers)
           /\ Sound(program[t], registers')
           /\ \E v \in Word :
                SeenOf(registers', memory[t]) = Returned(SeenOf(registers, memory[t]), v)
<1> DEFINE reg == DOMAIN registers.gpr
<1>1. t = running /\ mode[t] = "kernel"
  BY DEF SystemReturn, InKernel
<1>2. Called(program[t], registers)
  BY <1>1, CurrentIs DEF ObeyInv
<1>3. registers.loadReg = 0
  BY <1>1 DEF ObeyInv, LoadInv, KernelSeesLoads, Own
<1>4. Fits(registers, reg) /\ \A k \in DOMAIN program[t] : WellFormed(program[t][k], reg)
  BY <1>1, CurrentIs DEF Sound
<1>5. PICK v \in SysResult :
         registers' = [registers EXCEPT !.gpr[2] = v, !.pc = ToWord(@ + 4),
                                        !.nextPC = ToWord(registers.pc + 8)]
  BY DEF SystemReturn
<1>6. registers' = [registers EXCEPT !.gpr[2] = v, !.pc = ToWord(registers.pc + 4),
                                     !.nextPC = ToWord(registers.pc + 8)]
  BY <1>5
<1>7. v \in Word
  BY CpuAssumption
<1>8. registers.nextPC = ToWord(registers.pc + 4)
  BY <1>2 DEF Called
<1> HIDE DEF reg
<1>9. /\ Fits(registers', reg)
      /\ SeenOf(registers', memory[t]) = Returned(SeenOf(registers, memory[t]), v)
  <2> DEFINE c == registers
             d == registers'
             mem == memory[t]
  <2>1. /\ Fits(c, reg) /\ c.nextPC = ToWord(c.pc + 4) /\ c.loadReg = 0
        /\ d = Back(c, v)
    BY <1>3, <1>4, <1>6, <1>8 DEF Back
  <2> HIDE DEF c, d, mem
  <2>2. /\ Fits(d, reg)
        /\ SeenOf(d, mem) = Returned(SeenOf(c, mem), v)
    BY <1>7, <2>1, ReturnFits
  <2>3. QED
    BY <2>2 DEF c, d, mem
<1>10. DOMAIN registers'.gpr = reg
  BY <1>9 DEF Fits
<1>11. Sound(program[t], registers')
  BY <1>4, <1>9, <1>10 DEF Sound
<1>12. QED
  BY <1>1, <1>2, <1>7, <1>9, <1>11

\* Every step of the machine keeps ObeyInv, when its programs obey.
LEMMA ObeyNext == ObeyInv /\ ProgramsObey /\ [Next]_vars => ObeyInv'
<1> SUFFICES ASSUME ObeyInv, ProgramsObey, [Next]_vars PROVE ObeyInv'
  OBVIOUS
<1> USE DEF InUser, InKernel
<1>1. LoadInv /\ LoadInv'
  BY LoadNext DEF ObeyInv
<1>2. ASSUME NEW t \in Thread, Instruction(t) PROVE ObeyInv'
  <2>1. t = running /\ Sound(program[t], registers') /\ WholeWords(memory'[t])
    BY <1>2, InstructionDoes
  <2>2. /\ UNCHANGED <<text, userRegisters, running>>
        /\ mode'[t] # "kernel"
        /\ \A u \in Thread \ {t} : memory'[u] = memory[u] /\ mode'[u] = mode[u]
    BY <1>1, <1>2 DEF Instruction, LoadInv
  <2>3. QED
    BY <1>1, <2>1, <2>2, ObeyUser
<1>3. ASSUME NEW t \in Thread, Trap(t) PROVE ObeyInv'
  <2>1. Called(program[t], registers)
    BY <1>3, TrapDoes
  <2>2. \A u \in Thread : /\ Own(u)' = Own(u) \/ Own(u)' = DelayedLoad(Own(u), 0, 0)
                          /\ mode'[u] = "kernel" => mode[u] = "kernel" \/ Called(program[u], Own(u))
    BY <1>1, <1>3, <2>1 DEF Trap, Own, Finished, LoadInv
  <2>3. UNCHANGED <<text, memory>>
    BY <1>3 DEF Trap
  <2>4. QED
    BY <1>1, <2>2, <2>3, ObeyKept
<1>4. ASSUME NEW t \in Thread, Abort(t) PROVE ObeyInv'
  <2>1. \A u \in Thread : /\ Own(u)' = Own(u) \/ Own(u)' = DelayedLoad(Own(u), 0, 0)
                          /\ mode'[u] = "kernel" => mode[u] = "kernel" \/ Called(program[u], Own(u))
    BY <1>4 DEF Abort, Own, Finished
  <2>2. UNCHANGED <<text, memory>>
    BY <1>4 DEF Abort
  <2>3. QED
    BY <1>1, <2>1, <2>2, ObeyKept
<1>5. ASSUME NEW t \in Thread, SystemReturn(t) PROVE ObeyInv'
  <2>1. t = running /\ Sound(program[t], registers')
    BY <1>5, ReturnDoes
  <2>2. /\ UNCHANGED <<text, userRegisters, running, memory>>
        /\ mode'[t] # "kernel"
        /\ \A u \in Thread \ {t} : mode'[u] = mode[u]
    BY <1>1, <1>5 DEF SystemReturn, LoadInv
  <2>3. WholeWords(memory'[t])
    BY <2>2 DEF ObeyInv
  <2>4. QED
    BY <1>1, <2>1, <2>2, <2>3, ObeyUser
<1>6. ASSUME NEW t \in Thread, Exit(t) PROVE ObeyInv'
  <2>1. \A u \in Thread : /\ Own(u)' = Own(u) \/ Own(u)' = DelayedLoad(Own(u), 0, 0)
                          /\ mode'[u] = "kernel" => mode[u] = "kernel" \/ Called(program[u], Own(u))
    BY <1>1, <1>6 DEF Exit, Own, LoadInv
  <2>2. UNCHANGED <<text, memory>>
    BY <1>6 DEF Exit
  <2>3. QED
    BY <1>1, <2>1, <2>2, ObeyKept
<1>7. ASSUME NEW t \in Thread, Interrupt(t) \/ Yield(t) PROVE ObeyInv'
  <2>1. \A u \in Thread : /\ Own(u)' = Own(u) \/ Own(u)' = DelayedLoad(Own(u), 0, 0)
                          /\ mode'[u] = "kernel" => mode[u] = "kernel" \/ Called(program[u], Own(u))
    BY <1>1, <1>7 DEF Interrupt, Yield, Run, Own, Finished, LoadInv
  <2>2. UNCHANGED <<text, memory>>
    BY <1>7 DEF Interrupt, Yield
  <2>3. QED
    BY <1>1, <2>1, <2>2, ObeyKept
<1>8. CASE UNCHANGED vars
  <2>1. \A u \in Thread : /\ Own(u)' = Own(u) \/ Own(u)' = DelayedLoad(Own(u), 0, 0)
                          /\ mode'[u] = "kernel" => mode[u] = "kernel" \/ Called(program[u], Own(u))
    BY <1>8 DEF vars, Own
  <2>2. UNCHANGED <<text, memory>>
    BY <1>8 DEF vars
  <2>3. QED
    BY <1>1, <2>1, <2>2, ObeyKept
<1>9. QED
  BY <1>2, <1>3, <1>4, <1>5, <1>6, <1>7, <1>8 DEF Next

\* The registers of programs that obey hold words, and their memories bytes.
LEMMA ObeyInvHolds == Spec /\ []ProgramsObey => []ObeyInv
BY ObeyInit, ObeyNext, PTL DEF Spec

\* The processors as the machine makes them.
Cpu == [t \in Thread |-> Seen(t)]

\* A step that changes what thread t sees, and no other thread.
LEMMA CpuChanges ==
    ASSUME NEW t \in Thread, NEW x, Seen(t)' = x, \A u \in Thread \ {t} : Seen(u)' = Seen(u)
    PROVE  Cpu' = [Cpu EXCEPT ![t] = x]
BY DEF Cpu

\* The other threads see nothing of a step of the running one.
LEMMA OthersSee ==
    ASSUME ObeyInv, [Next]_vars, NEW t \in Thread, t = running,
           Instruction(t) \/ SystemReturn(t) \/ Exit(t) \/ Abort(t)
    PROVE  \A u \in Thread \ {t} : Seen(u)' = Seen(u)
<1> SUFFICES ASSUME NEW u \in Thread \ {t}, Seen(u)' # Seen(u) PROVE FALSE
  OBVIOUS
<1>1. Instruction(u) \/ SystemReturn(u) \/ Exit(u) \/ Abort(u)
  BY SeenNext DEF ObeyInv
<1>2. running = u
  BY <1>1 DEF Instruction, SystemReturn, Exit, Abort, InUser, InKernel
<1>3. QED
  BY <1>2

\* What a thread of the MIPS is about to do, in terms of the machine.
LEMMA CpuFetches ==
    ASSUME ObeyInv, NEW t \in Thread, t = running, abort = "none", mode[t] # "finished"
    PROVE  /\ Seen(t) = SeenOf(registers, memory[t])
           /\ Cpu[t] = Seen(t)
           /\ Cpu[t].status = "running" /\ Cpu[t].npc = registers.nextPC
           /\ Reference!Fetches(t) <=> Fetched(program[t], registers)
           /\ Reference!Fetches(t) => Reference!Current(t) = Upcoming(program[t], registers)
<1>1. Own(t) = registers
  BY DEF Own
<1>2. Seen(t) = SeenOf(registers, memory[t])
  BY <1>1, SeenSee, SeeRunning
<1>3. Cpu[t] = Seen(t)
  BY DEF Cpu
<1>4. /\ Seen(t).status = "running" /\ Seen(t).npc = registers.nextPC
      /\ Seen(t).pc = registers.pc
  BY <1>2 DEF SeenOf
<1>5. Reference!Fetches(t) <=> Fetched(program[t], registers)
  BY <1>3, <1>4 DEF Reference!Fetches, Fetched, Cpu
<1>6. Reference!Current(t) = Upcoming(program[t], registers)
  BY <1>3, <1>4 DEF Reference!Current, Upcoming, Cpu
<1>7. QED
  BY <1>2, <1>3, <1>4, <1>5, <1>6

\* An instruction of the machine, with the exception it raises if any, is one of
\* the MIPS.
LEMMA RefinesInstruction ==
    ASSUME ObeyInv, ProgramsObey, [Next]_vars, NEW t \in Thread, Instruction(t)
    PROVE  Reference!Instruction(t)
<1> DEFINE i == Upcoming(program[t], registers)
           s == SeenOf(registers, memory[t])
<1>1. /\ t = running /\ Fetches /\ i.op # "SYSCALL"
      /\ SeenOf(registers', memory'[t]) = Reference!Execute(i, s)
  BY InstructionDoes
<1>2. abort = "none" /\ mode[t] = "user" /\ abort' = abort /\ mode' = mode /\ running' = t
  BY <1>1 DEF Instruction, InUser
<1>3. /\ Seen(t) = s /\ Cpu[t] = s /\ Cpu[t].status = "running"
      /\ Reference!Fetches(t) /\ Reference!Current(t) = i
  BY <1>1, <1>2, CpuFetches, CurrentIs
<1>4. Seen(t)' = SeenOf(registers', memory'[t])
  <2>1. Own(t)' = registers'
    BY <1>2 DEF Own
  <2>2. Seen(t)' = See(registers', memory'[t], "running")
    BY <1>2, <2>1, SeenSeePrime
  <2>3. QED
    BY <2>2, SeeRunning
<1>5. \A u \in Thread \ {t} : Seen(u)' = Seen(u)
  BY <1>1, OthersSee
<1>6. Cpu' = [Cpu EXCEPT ![t] = Reference!Execute(i, s)]
  BY <1>1, <1>4, <1>5, CpuChanges
<1> HIDE DEF i, s
<1>7. Cpu' = [Cpu EXCEPT ![t] = Reference!Execute(Reference!Current(t), @)]
  BY <1>3, <1>6
<1>8. QED
  BY <1>1, <1>3, <1>7 DEF Reference!Instruction, Cpu

\* A thread that is aborted has met the exception that the MIPS raises.
LEMMA RefinesAbort ==
    ASSUME ObeyInv, ProgramsObey, [Next]_vars, NEW t \in Thread, Abort(t)
    PROVE  Reference!Instruction(t) \/ Reference!LosesItsWay(t)
<1> DEFINE i == Upcoming(program[t], registers)
           s == SeenOf(registers, memory[t])
<1>1. /\ t = running /\ abort = "none" /\ mode[t] = "user" /\ Raised \notin {"none", "syscall"}
      /\ registers' = Finished /\ abort' = Raised /\ mode' = mode /\ running' = t /\ memory' = memory
  BY DEF Abort, InUser
<1>2. /\ Seen(t) = s /\ Cpu[t] = s /\ Cpu[t].status = "running"
      /\ Reference!Fetches(t) <=> Fetches
      /\ Fetches => Reference!Current(t) = i
  BY <1>1, CpuFetches, CurrentIs
<1>3. Seen(t)' = [s EXCEPT !.status = Raised]
  <2>1. Own(t)' = DelayedLoad(registers, 0, 0)
    BY <1>1 DEF Own, Finished
  <2>2. Seen(t)' = See(DelayedLoad(registers, 0, 0), memory[t], Raised)
    BY <1>1, <2>1, SeenSeePrime
  <2>3. HasLoad(registers)
    BY DEF ObeyInv, LoadInv
  <2> DEFINE d == DelayedLoad(registers, 0, 0)
  <2>4. /\ DelayedLoad(d, 0, 0).gpr = d.gpr
        /\ d.hi = registers.hi /\ d.lo = registers.lo /\ d.pc = registers.pc
        /\ d.nextPC = registers.nextPC
    BY <2>3, FinishedTwice
  <2> HIDE DEF d
  <2>5. SeenOf(d, memory[t]) = s
    BY <2>4 DEF SeenOf, d
  <2>6. QED
    BY <2>2, <2>5 DEF See, d
<1>4. \A u \in Thread \ {t} : Seen(u)' = Seen(u)
  BY <1>1, OthersSee
<1>5. Cpu' = [Cpu EXCEPT ![t] = [s EXCEPT !.status = Raised]]
  BY <1>3, <1>4, CpuChanges
<1>6. CASE Fetches
  <2>1. Raised = Exception(i, registers, memory[t]) /\ Demands(i, registers)
    BY <1>1, <1>6, RaisedIs, UpcomingObeys DEF InUser
  <2>2. i.op # "SYSCALL"
    <3>1. Overflows(i, registers) => i.op # "SYSCALL"
      BY DEF Overflows
    <3>2. i.op = "SYSCALL" => Exception(i, registers, memory[t]) = "syscall"
      BY <3>1 DEF Exception, LoadOps, StoreOps
    <3>3. QED
      BY <1>1, <2>1, <3>2
  <2>3. Reference!Raises(i, s) = Raised
    BY <1>1, <1>6, <2>1, <2>2, ExceptionsAgree, CurrentIs DEF Sound, ObeyInv
  <2> HIDE DEF i, s
  <2>4. Reference!Execute(i, s) = [s EXCEPT !.status = Raised]
    BY <1>1, <2>3 DEF Reference!Execute
  <2>5. Cpu' = [Cpu EXCEPT ![t] = Reference!Execute(Reference!Current(t), @)]
    BY <1>2, <1>5, <1>6, <2>4
  <2>6. Reference!Instruction(t)
    BY <1>2, <1>6, <2>2, <2>5 DEF Reference!Instruction, Cpu
  <2>7. QED
    BY <2>6
<1>7. CASE ~ Fetches
  <2>1. Raised = "address error"
    BY <1>7 DEF Raised
  <2> HIDE DEF s
  <2>2. Cpu' = [Cpu EXCEPT ![t].status = "address error"]
    BY <1>2, <1>5, <2>1
  <2>3. Reference!LosesItsWay(t)
    BY <1>2, <1>7, <2>2 DEF Reference!LosesItsWay, Cpu
  <2>4. QED
    BY <2>3
<1>8. QED
  BY <1>6, <1>7

\* A return from a system call.
LEMMA RefinesReturn ==
    ASSUME ObeyInv, [Next]_vars, NEW t \in Thread, SystemReturn(t)
    PROVE  Reference!SystemCall(t)
<1> DEFINE s == SeenOf(registers, memory[t])
<1>1. /\ t = running /\ abort = "none" /\ mode[t] = "kernel"
      /\ abort' = abort /\ running' = t /\ memory' = memory
  BY DEF SystemReturn, InKernel
<1>2. mode'[t] = "user"
  BY DEF SystemReturn, ObeyInv, LoadInv
<1>3. PICK v \in Word : SeenOf(registers', memory[t]) = Returned(s, v)
  BY ReturnDoes
<1>4. Called(program[t], registers)
  BY ReturnDoes
<1>5. /\ Seen(t) = s /\ Cpu[t] = s /\ Cpu[t].status = "running"
      /\ Reference!Fetches(t) /\ Reference!Current(t).op = "SYSCALL"
  BY <1>1, <1>4, CpuFetches DEF Called
<1>6. Seen(t)' = SeenOf(registers', memory[t])
  <2>1. Own(t)' = registers'
    BY <1>1 DEF Own
  <2>2. Seen(t)' = See(registers', memory[t], "running")
    BY <1>1, <1>2, <2>1, SeenSeePrime
  <2>3. QED
    BY <2>2, SeeRunning
<1>7. \A u \in Thread \ {t} : Seen(u)' = Seen(u)
  BY <1>1, OthersSee
<1>8. Cpu' = [Cpu EXCEPT ![t] = Returned(s, v)]
  BY <1>3, <1>6, <1>7, CpuChanges
<1> HIDE DEF s
<1>9. Cpu' = [Cpu EXCEPT ![t] =
                [Reference!SetReg(@, 2, v) EXCEPT !.pc = Cpu[t].npc, !.npc = ToWord(Cpu[t].npc + 4)]]
  BY <1>5, <1>8 DEF Returned
<1>10. QED
  BY <1>5, <1>9, SameNumbers DEF Reference!SystemCall, Cpu

\* A call that finishes the thread.
LEMMA RefinesExit ==
    ASSUME ObeyInv, [Next]_vars, NEW t \in Thread, Exit(t)
    PROVE  Reference!SystemCall(t)
<1> DEFINE s == SeenOf(registers, memory[t])
<1>1. /\ t = running /\ abort = "none" /\ mode[t] = "kernel"
      /\ abort' = abort /\ running' = t /\ memory' = memory /\ registers' = registers
  BY DEF Exit, InKernel
<1>2. mode'[t] = "finished"
  BY DEF Exit, ObeyInv, LoadInv
<1>3. Called(program[t], registers)
  BY <1>1, CurrentIs DEF ObeyInv
<1>4. /\ Seen(t) = s /\ Cpu[t] = s /\ Cpu[t].status = "running"
      /\ Reference!Fetches(t) /\ Reference!Current(t).op = "SYSCALL"
  BY <1>1, <1>3, CpuFetches DEF Called
<1>5. Seen(t)' = [s EXCEPT !.status = "finished"]
  <2>1. Own(t)' = registers
    BY <1>1 DEF Own
  <2>2. Seen(t)' = See(registers, memory[t], "finished")
    BY <1>1, <1>2, <2>1, SeenSeePrime
  <2>3. QED
    BY <2>2 DEF See
<1>6. \A u \in Thread \ {t} : Seen(u)' = Seen(u)
  BY <1>1, OthersSee
<1>7. Cpu' = [Cpu EXCEPT ![t] = [s EXCEPT !.status = "finished"]]
  BY <1>5, <1>6, CpuChanges
<1> HIDE DEF s
<1>8. Cpu' = [Cpu EXCEPT ![t].status = "finished"]
  BY <1>4, <1>7
<1>9. QED
  BY <1>4, <1>8 DEF Reference!SystemCall, Cpu

\* Every step of the machine is one of the processors, or none.
LEMMA RefinesNext ==
    ObeyInv /\ ProgramsObey /\ [Next]_vars => [Reference!Next]_Reference!vars
<1> SUFFICES ASSUME ObeyInv, ProgramsObey, [Next]_vars PROVE [Reference!Next]_Reference!vars
  OBVIOUS
<1>1. program' = program
  BY DEF Next, Instruction, Trap, Abort, SystemReturn, Exit, Interrupt, Yield, vars, text
<1>2. CASE \E t \in Thread : Seen(t)' # Seen(t)
  <2>1. PICK t \in Thread : Seen(t)' # Seen(t)
    BY <1>2
  <2>2. Instruction(t) \/ SystemReturn(t) \/ Exit(t) \/ Abort(t)
    BY <2>1, SeenNext DEF ObeyInv
  <2>3. Reference!Instruction(t) \/ Reference!LosesItsWay(t) \/ Reference!SystemCall(t)
    BY <2>2, RefinesInstruction, RefinesReturn, RefinesExit, RefinesAbort
  <2>4. QED
    BY <1>1, <2>3 DEF Reference!Next
<1>3. CASE \A t \in Thread : Seen(t)' = Seen(t)
  BY <1>1, <1>3 DEF Reference!vars
<1>4. QED
  BY <1>2, <1>3

\* The processors start with register 0 at zero.
LEMMA RefinesInit == Init => Reference!Init
<1> SUFFICES ASSUME Init, NEW t \in Thread PROVE Seen(t).gpr[0] = 0
  BY DEF Reference!Init
<1>1. Sound(program[t], Own(t))
  BY ObeyInit DEF ObeyInv
<1>2. Fits(Own(t), DOMAIN Own(t).gpr)
  BY <1>1 DEF Sound
<1>3. SeenOf(Own(t), memory[t]).gpr[0] = 0
  BY <1>2, SeenGpr DEF Fits
<1>4. Seen(t).gpr = SeenOf(Own(t), memory[t]).gpr
  BY DEF Seen, SeenOf
<1>5. QED
  BY <1>3, <1>4

\* The MIPS simulator is the MIPS it simulates (Machine::OneInstruction,
\* DelayedLoad, RaiseException and the instruction words that the loader leaves in
\* memory, against module Mips): whatever the programs, the width of a byte, the
\* number of threads and the instants of interrupts and switches, every thread
\* sees a processor of its own that executes its program, as long as the programs
\* obey: they read no register in the slot of its load, put no jump or system call
\* in the slot of a jump, jump within their region, and use SRL on words that are
\* not negative.
THEOREM MipsImplemented == Spec /\ []ProgramsObey => ImplementsMips
<1>1. Init => Reference!Init
  BY RefinesInit
<1>2. ObeyInv /\ ProgramsObey /\ [Next]_vars => [Reference!Next]_Reference!vars
  BY RefinesNext
<1>3. QED
  BY <1>1, <1>2, ObeyInvHolds, PTL DEF Spec, ImplementsMips, Reference!Spec
=============================================================================
