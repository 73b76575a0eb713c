-------------------------------- MODULE Mips --------------------------------
(***************************************************************************)
(* The MIPS R2000 as a programmer knows it: each thread has registers and  *)
(* a memory of its own, an instruction takes effect at once and branches   *)
(* are delayed by one instruction.  A load is not delayed here, which no   *)
(* program can tell that leaves the register alone in the slot after it.   *)
(***************************************************************************)
EXTENDS Word, Sequences

CONSTANTS Thread, JumpRegion

VARIABLES code,   \* the program of each thread
          cpu     \* registers, memory and status of each thread

vars == <<code, cpu>>

Immediate == {"ADDI", "ADDIU", "ANDI", "ORI", "XORI", "SLTI", "SLTIU", "LUI"}

\* The second operand and the register written.
Operand(i, g) == IF i.op \in {"ADDI", "ADDIU", "SLTI", "SLTIU"} THEN ToWord(i.extra)
                 ELSE IF i.op \in Immediate THEN LowBytes(i.extra, 2) ELSE g[i.rt]
Target(i) == IF i.op \in Immediate THEN i.rt ELSE i.rd

Truth(p) == IF p THEN 1 ELSE 0

\* What an instruction computes into a general register.
Result(i, c) ==
    LET a == c.gpr[i.rs]  b == Operand(i, c.gpr)
    IN  CASE i.op \in {"ADD", "ADDI", "ADDU", "ADDIU"} -> ToWord(Signed(a) + Signed(b))
          [] i.op \in {"SUB", "SUBU"}   -> ToWord(Signed(a) - Signed(b))
          [] i.op \in {"AND", "ANDI"}   -> And(a, b)
          [] i.op \in {"OR", "ORI"}     -> Or(a, b)
          [] i.op \in {"XOR", "XORI"}   -> Xor(a, b)
          [] i.op = "NOR"               -> Not(Or(a, b))
          [] i.op \in {"SLT", "SLTI"}   -> Truth(Signed(a) < Signed(b))
          [] i.op \in {"SLTU", "SLTIU"} -> Truth(a < b)
          [] i.op = "LUI"  -> b * Weight(2)
          [] i.op = "SLL"  -> Shl(b, i.extra)
          [] i.op = "SLLV" -> Shl(b, a % Width)
          [] i.op = "SRA"  -> Sar(b, i.extra)
          [] i.op = "SRAV" -> Sar(b, a % Width)
          [] i.op = "SRL"  -> Shr(b, i.extra)
          [] i.op = "SRLV" -> Shr(b, a % Width)
          [] i.op = "MFHI" -> c.hi
          [] i.op = "MFLO" -> c.lo

\* ADD and its like trap if the exact result is not a word.
Exact(i, c) == LET a == Signed(c.gpr[i.rs])  b == Signed(Operand(i, c.gpr))
               IN  IF i.op = "SUB" THEN a - b ELSE a + b
Overflows(i, c) == /\ i.op \in {"ADD", "ADDI", "SUB"}
                   /\ Exact(i, c) # Signed(ToWord(Exact(i, c)))

\* Division truncates towards zero; the remainder has the sign of a.
Magnitude(a) == IF a < 0 THEN -a ELSE a
Quotient(a, b) == LET q == Magnitude(a) \div Magnitude(b)
                  IN  IF (a < 0) = (b < 0) THEN q ELSE -q

HiLo(i, c) ==
    LET a == c.gpr[i.rs]  b == c.gpr[i.rt]
        Double(n) == [hi |-> (n \div WordSize) % WordSize, lo |-> n % WordSize]
        Divided(x, y) == IF y = 0 THEN [hi |-> 0, lo |-> 0]
                         ELSE [hi |-> ToWord(x - y * Quotient(x, y)), lo |-> ToWord(Quotient(x, y))]
    IN  CASE i.op = "MULT"  -> Double(Signed(a) * Signed(b))
          [] i.op = "MULTU" -> Double(a * b)
          [] i.op = "DIV"   -> Divided(Signed(a), Signed(b))
          [] i.op = "DIVU"  -> Divided(a, b)
          [] i.op = "MTHI"  -> [hi |-> a, lo |-> c.lo]
          [] i.op = "MTLO"  -> [hi |-> c.hi, lo |-> a]

\* Loads and stores, byte by byte: register byte k, and memory byte x of the
\* aligned word, if the instruction moves it.
Address(i, c) == ToWord(c.gpr[i.rs] + i.extra)
Size(op) == IF op \in {"LB", "LBU", "SB"} THEN 1
            ELSE IF op \in {"LH", "LHU", "SH"} THEN 2 ELSE 4
Aligned(i, c) == \/ i.op \in {"LWL", "LWR", "SWL", "SWR"}
                 \/ Address(i, c) % Size(i.op) = 0
Accessible(i, c) == (Address(i, c) \div Size(i.op) + 1) * Size(i.op) - 1 \in DOMAIN c.mem

OfBytes(F(_)) == F(0) + F(1) * Weight(1) + F(2) * Weight(2) + F(3) * Weight(3)

Loaded(i, c) ==
    LET x == Address(i, c)  old == c.gpr[i.rt]  from == x % 4
        Here(k) == IF k < Size(i.op) THEN c.mem[x + k] ELSE 0
        Left(k) == IF k >= 3 - from THEN c.mem[x - (3 - k)] ELSE ByteOf(old, k)
        Right(k) == IF k <= 3 - from THEN c.mem[x + k] ELSE ByteOf(old, k)
    IN  CASE i.op \in {"LW", "LBU", "LHU"} -> OfBytes(Here)
          [] i.op \in {"LB", "LH"} -> SignExtend(OfBytes(Here), Size(i.op))
          [] i.op = "LWL" -> OfBytes(Left)
          [] i.op = "LWR" -> OfBytes(Right)

Stored(i, c) ==
    LET x == Address(i, c)  base == x - (x % 4)  v == c.gpr[i.rt]
    IN  [y \in DOMAIN c.mem |->
           CASE i.op \in {"SB", "SH", "SW"} /\ y \in x .. x + Size(i.op) - 1 -> ByteOf(v, y - x)
             [] i.op = "SWL" /\ y \in base .. x     -> ByteOf(v, 3 - (x - y))
             [] i.op = "SWR" /\ y \in x .. base + 3 -> ByteOf(v, y - x)
             [] OTHER -> c.mem[y]]

\* Where control goes after the delay slot.
Branches(i, c) == LET a == Signed(c.gpr[i.rs])
                  IN  CASE i.op = "BEQ" -> a = Signed(c.gpr[i.rt])
                        [] i.op = "BNE" -> a # Signed(c.gpr[i.rt])
                        [] i.op \in {"BGEZ", "BGEZAL"} -> a >= 0
                        [] i.op \in {"BLTZ", "BLTZAL"} -> a < 0
                        [] i.op = "BGTZ" -> a > 0
                        [] i.op = "BLEZ" -> a <= 0
                        [] OTHER -> FALSE

After(i, c) == LET slot == c.pc + 4
               IN  IF i.op \in {"J", "JAL"} THEN (slot \div JumpRegion) * JumpRegion + 4 * i.extra
                   ELSE IF i.op \in {"JR", "JALR"} THEN c.gpr[i.rs]
                   ELSE IF Branches(i, c) THEN ToWord(slot + 4 * i.extra)
                   ELSE ToWord(c.npc + 4)

Links(i) == i.op \in {"JAL", "JALR", "BGEZAL", "BLTZAL"}
Loads(i)  == i.op \in {"LB", "LBU", "LH", "LHU", "LW", "LWL", "LWR"}
Stores(i) == i.op \in {"SB", "SH", "SW", "SWL", "SWR"}
Divides(i) == i.op \in {"MULT", "MULTU", "DIV", "DIVU", "MTHI", "MTLO"}
Jumps(i) == Links(i) \/ i.op \in {"J", "JR", "BEQ", "BNE", "BGEZ", "BLTZ", "BGTZ", "BLEZ"}

SetReg(c, r, v) == [c EXCEPT !.gpr = [@ EXCEPT ![r] = v, ![0] = 0]]

Computed(i, c) ==
    CASE Links(i)   -> SetReg(c, IF i.op = "JALR" THEN i.rd ELSE 31, ToWord(c.pc + 8))
      [] Jumps(i) /\ ~ Links(i) -> c
      [] Loads(i)   -> SetReg(c, i.rt, Loaded(i, c))
      [] Stores(i)  -> [c EXCEPT !.mem = Stored(i, c)]
      [] Divides(i) -> [c EXCEPT !.hi = HiLo(i, c).hi, !.lo = HiLo(i, c).lo]
      [] OTHER      -> SetReg(c, Target(i), Result(i, c))

\* The exception an instruction raises.  The quotient of the least int by -1
\* is not a word, and what comes of it is not defined.
Raises(i, c) == CASE Overflows(i, c) -> "overflow"
                  [] (Loads(i) \/ Stores(i)) /\ ~ (Aligned(i, c) /\ Accessible(i, c)) -> "address error"
                  [] i.op = "DIV" /\ c.gpr[i.rs] = 2 ^ (Width - 1) /\ c.gpr[i.rt] = WordSize - 1 -> "undefined"
                  [] i.op \in {"RES", "UNIMP"} -> "illegal instruction"
                  [] OTHER -> "none"

Execute(i, c) == IF Raises(i, c) # "none" THEN [c EXCEPT !.status = Raises(i, c)]
                 ELSE [Computed(i, c) EXCEPT !.pc = c.npc, !.npc = After(i, c)]

-----------------------------------------------------------------------------
Init == \A t \in Thread : cpu[t].gpr[0] = 0

Fetches(t) == cpu[t].pc % 4 = 0 /\ cpu[t].pc \div 4 + 1 \in DOMAIN code[t]
Current(t) == code[t][cpu[t].pc \div 4 + 1]

Instruction(t) == /\ cpu[t].status = "running"
                  /\ Fetches(t)
                  /\ Current(t).op # "SYSCALL"
                  /\ cpu' = [cpu EXCEPT ![t] = Execute(Current(t), @)]

LosesItsWay(t) == /\ cpu[t].status = "running" /\ ~ Fetches(t)
                  /\ cpu' = [cpu EXCEPT ![t].status = "address error"]

\* A system call gives register 2 a value and goes on behind it, or ends the
\* thread.
SystemCall(t) == /\ cpu[t].status = "running" /\ Fetches(t) /\ Current(t).op = "SYSCALL"
                 /\ \/ \E v \in Word : cpu' = [cpu EXCEPT ![t] =
                          [SetReg(@, 2, v) EXCEPT !.pc = cpu[t].npc, !.npc = ToWord(cpu[t].npc + 4)]]
                    \/ cpu' = [cpu EXCEPT ![t].status = "finished"]

Next == /\ \E t \in Thread : Instruction(t) \/ LosesItsWay(t) \/ SystemCall(t)
        /\ UNCHANGED code

Spec == Init /\ [][Next]_vars
=============================================================================
