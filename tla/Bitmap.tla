------------------------------- MODULE Bitmap -------------------------------
(***************************************************************************)
(* The Bitmap of the MP4 project (lib/bitmap.cc) as operators on a record: *)
(* map is the set of bits that are set, cur the place where the last       *)
(* search ended, size the cached number of clear bits.                     *)
(***************************************************************************)
EXTENDS Integers, FiniteSets, FiniteSetsExt

CONSTANT numBits

ASSUME BitsAssumption == numBits \in Nat \ {0}

Bits == 0 .. numBits - 1
ClearBits(b) == Bits \ b.map

Bitmap == [map |-> {}, cur |-> 0, size |-> numBits]

\* Mutant: Mark counts the bit twice too.
MarkTwice(b, i) == [b EXCEPT !.map = @ \cup {i}, !.size = @ - 2]

Mark(b, i) == [b EXCEPT !.map = @ \cup {i},
                        !.size = IF i \in b.map THEN @ ELSE @ - 1]

Clear(b, i) == [b EXCEPT !.map = @ \ {i},
                         !.size = IF i \in b.map THEN @ + 1 ELSE @]

\* The bits at which the circular search from cur can stop.
Found(b) == LET onward == {i \in ClearBits(b) : i >= b.cur}
            IN  IF onward = {} THEN ClearBits(b) ELSE onward

\* Bitmap::FindAndSet.  Mark has counted the bit; size is decremented again.
FindAndSet(b) ==
    IF b.size = 0 \/ Found(b) = {}
    THEN [bit |-> -1, bitmap |-> b]
    ELSE LET i == Min(Found(b))
         IN  [bit |-> i,
              bitmap |-> [Mark(b, i) EXCEPT !.cur = i, !.size = @ - 1]]

NumClear(b) == b.size

Export(b) == b.map
Import(bits) == [map |-> bits, cur |-> 0, size |-> Cardinality(Bits \ bits)]

\* PersistentBitmap::PersistentBitmap(OpenFile*, int): the bits are read over
\* an empty bitmap, whose size is kept.
PersistentBitmap(bits) == [Bitmap EXCEPT !.map = bits]
=============================================================================
