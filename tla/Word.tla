-------------------------------- MODULE Word --------------------------------
(***************************************************************************)
(* Words of four bytes, as natural numbers, and what C does with them on a *)
(* two's complement host.  The width of a byte is a parameter, so that a   *)
(* small one keeps all the boundaries of the 32-bit machine.               *)
(***************************************************************************)
EXTENDS Integers

CONSTANT ByteBits   \* 8 in the program

ASSUME WordAssumption == ByteBits \in Nat \ {0}

Width    == 4 * ByteBits
WordSize == 2 ^ Width
Word     == 0 .. WordSize - 1

\* What the lowest bit of byte k counts for.
Weight(k) == 2 ^ (k * ByteBits)

ToWord(n) == n % WordSize

\* x & SIGN_BIT, and the value of x as an int.
Negative(x) == x >= 2 ^ (Width - 1)
Signed(x)   == IF Negative(x) THEN x - WordSize ELSE x

Bit(x, i) == (x \div 2 ^ i) % 2

\* The word whose bits are F of the bits of x and y.
Bitwise(F(_, _), x, y) ==
    LET low[i \in 0 .. Width] ==
          IF i = 0 THEN 0
          ELSE low[i - 1] + F(Bit(x, i - 1), Bit(y, i - 1)) * 2 ^ (i - 1)
    IN  low[Width]

And(x, y) == Bitwise(LAMBDA p, q : p * q, x, y)
Or(x, y)  == Bitwise(LAMBDA p, q : p + q - p * q, x, y)
Xor(x, y) == Bitwise(LAMBDA p, q : (p + q) % 2, x, y)
Not(x)    == WordSize - 1 - x

\* <<, and >> of an int and of an unsigned int.
Shl(x, n) == ToWord(x * 2 ^ n)
Sar(x, n) == ToWord(Signed(x) \div 2 ^ n)
Shr(x, n) == x \div 2 ^ n

\* The low n bytes of x, as they are and extended by their sign.
LowBytes(x, n) == x % Weight(n)
SignExtend(x, n) == LET low == LowBytes(x, n)
                    IN  IF Bit(low, n * ByteBits - 1) = 1
                        THEN ToWord(low - Weight(n)) ELSE low

\* Byte k of x, counted from the least significant.
ByteOf(x, k) == LowBytes(x \div Weight(k), 1)
=============================================================================
