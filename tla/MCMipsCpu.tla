----------------------------- MODULE MCMipsCpu -----------------------------
(***************************************************************************)
(* Instances of MipsCpu for TLC: bytes of two bits, five general registers *)
(* and eight bytes of memory for each thread.                              *)
(*   - Alone: one instruction of each kind on the values at the boundaries *)
(*     of a word;                                                          *)
(*   - Moves: loads and stores at every address, and the pairs that load   *)
(*     an unaligned word;                                                  *)
(*   - Shared: two threads with branches, calls, loads and system calls,   *)
(*     interrupted and switched anywhere.                                  *)
(* The programs leave a register alone in the slot after its load (LWL and *)
(* LWR apart) and put no system call or branch in the slot of a branch, as *)
(* the MIPS demands of them.                                               *)
(***************************************************************************)
EXTENDS MipsCpu

CONSTANTS t1, t2

Threads == {t1, t2}
Reg == {0, 1, 2, 3, 31}

I(op, rs, rt, rd, extra) == [op |-> op, rs |-> rs, rt |-> rt, rd |-> rd, extra |-> extra]
R(op) == I(op, 1, 2, 3, 0)             \* op on registers 1 and 2, into 3
Nop == I("SLL", 0, 0, 0, 0)
Syscall == I("SYSCALL", 0, 0, 0, 0)

Regs(a, b) == [r \in Reg |-> CASE r = 1 -> a [] r = 2 -> b [] OTHER -> 0]
Bytes8 == [x \in 0 .. 7 |-> <<1, 2, 3, 0, 2, 1, 3, 2>>[x + 1]]

One(prog, gpr) == [program |-> [t \in Threads |-> IF t = t1 THEN prog ELSE <<>>],
                   memory  |-> [t \in Threads |-> Bytes8],
                   gpr     |-> [t \in Threads |-> gpr]]

-----------------------------------------------------------------------------
Boundary == {0, 1, 2, 90, 127, 128, 129, 254, 255}
Immediates == {-8, -1, 0, 1, 7}

LogicalShifts == {"SRL", "SRLV"}   \* of negative words: see SrlIsLogical

Pairs == {"ADD", "ADDU", "SUB", "SUBU", "AND", "OR", "XOR", "NOR", "SLT", "SLTU",
          "SLLV", "SRAV", "SRLV", "MULT", "MULTU", "DIV", "DIVU", "MTHI", "MTLO"}

Alone ==
       {One(<<R(op)>>, Regs(a, b)) : op \in Pairs \ LogicalShifts, a \in Boundary, b \in Boundary}
  \cup {One(<<R("SRLV")>>, Regs(a, b)) : a \in Boundary, b \in {v \in Boundary : v < 128}}
  \cup {One(<<I(op, 1, 3, 0, x)>>, Regs(a, 0)) : op \in RtOps, a \in Boundary, x \in Immediates}
  \cup {One(<<I(op, 0, 2, 3, x)>>, Regs(0, b)) :
           op \in {"SLL", "SRA"}, b \in Boundary, x \in {0, 1, 3, 7}}
  \cup {One(<<I("SRL", 0, 2, 3, x)>>, Regs(0, b)) :
           b \in {v \in Boundary : v < 128}, x \in {0, 1, 3, 7}}
  \cup {One(<<I("LW", 0, 3, 0, 0), R(op)>>, Regs(1, 2)) : op \in {"UNIMP", "RES"}}
  \cup {One(<<R("MULT"), R(op), I("ADDU", 1, 2, 0, 0)>>, Regs(90, 254)) : op \in {"MFHI", "MFLO"}}

\* From, to and across the words of the memory, and behind it.
Moves ==
       {One(<<I(op, 1, 2, 0, x), Nop>>, Regs(a, 27)) : op \in LoadOps, a \in 0 .. 8, x \in {-1, 0}}
  \cup {One(<<I(op, 1, 2, 0, 0)>>, Regs(a, 27)) : op \in StoreOps, a \in 0 .. 8}
  \cup {One(<<I("LWL", 1, 2, 0, 3), I("LWR", 1, 2, 0, 0), Syscall>>, Regs(a, 27)) : a \in 0 .. 4}
  \cup {One(<<I("LWR", 1, 2, 0, 0), I("LWL", 1, 2, 0, 3), Nop>>, Regs(a, 27)) : a \in 0 .. 4}
  \cup {One(<<I("SWL", 1, 2, 0, 3), I("SWR", 1, 2, 0, 0)>>, Regs(a, 27)) : a \in 0 .. 4}
  \cup {One(<<I("LW", 0, r, 0, 0), Syscall, I("ADDU", 2, 3, 3, 0)>>, Regs(0, 0)) : r \in {2, 3}}
  \cup {One(<<I("LB", 0, 2, 0, 1), I(op, 1, 0, 0, 1), Nop>>, Regs(3, 90)) : op \in {"LW", "SH"}}

-----------------------------------------------------------------------------
\* Counts down in a loop whose branch carries the addition in its slot.
Loop == << I("ADDIU", 0, 1, 0, 2),
           I("LW", 0, 2, 0, 0),
           I("ADDIU", 1, 1, 0, -1),
           I("BNE", 1, 0, 0, -3),
           I("ADDU", 2, 3, 3, 0),
           Syscall,
           I("BGTZ", 2, 0, 0, 1),
           I("LB", 0, 3, 0, 6),
           Syscall >>

\* Calls a procedure that multiplies in the slot of its return.
Call == << I("JAL", 0, 0, 0, 5),
           I("LHU", 0, 1, 0, 2),
           I("MFLO", 0, 0, 3, 0),
           Syscall,
           I("J", 0, 0, 0, 8),
           I("MTHI", 2, 0, 0, 0),
           I("JR", 31, 0, 0, 0),
           I("MULTU", 1, 2, 0, 0),
           Nop >>

\* Copies an unaligned word and branches on its sign.
Copy == << I("LWL", 0, 3, 0, 6),
           I("LWR", 0, 3, 0, 3),
           I("SB", 0, 1, 0, 7),
           I("SWL", 0, 3, 0, 4),
           I("SWR", 0, 3, 0, 1),
           I("BLTZAL", 3, 0, 0, 2),
           I("SRA", 0, 3, 3, 1),
           Syscall,
           I("BEQ", 3, 3, 0, -4),
           I("LH", 0, 2, 0, 0) >>

\* The other ways to go.
Ways == << I("BGEZAL", 1, 0, 0, 2),
           I("ADDIU", 0, 3, 0, -1),
           Syscall,
           I("BLTZ", 3, 0, 0, 4),
           I("ADDIU", 0, 1, 0, 7),
           I("BGEZ", 0, 0, 0, 1),
           I("ADDI", 1, 1, 0, 7),
           Syscall,
           I("BLEZ", 3, 0, 0, 1),
           I("ADDI", 1, 1, 0, 7),
           I("JALR", 31, 0, 3, 0),
           I("ADDIU", 0, 2, 0, 4),
           Syscall >>

Two(p, q) == [program |-> [t \in Threads |-> IF t = t1 THEN p ELSE q],
              memory  |-> [t \in Threads |-> Bytes8],
              gpr     |-> [t \in Threads |-> IF t = t1 THEN Regs(0, 90) ELSE Regs(3, 129)]]

Shared == {Two(Loop, Call), Two(Copy, Ways)}

Scenarios == Alone \cup Moves \cup Shared
Results == {0, 200}

\* The words SRL should and does shift differently.
SrlScenarios == {One(<<I("SRL", 0, 2, 3, x), Syscall>>, Regs(0, b)) : b \in Boundary, x \in 0 .. 7}
=============================================================================
