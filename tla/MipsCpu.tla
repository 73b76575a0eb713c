------------------------------ MODULE MipsCpu ------------------------------
(***************************************************************************)
(* The simulated MIPS processor (machine/mipssim.cc, machine.cc and        *)
(* translate.cc) and the user threads that share it: delayed loads and     *)
(* branches, exceptions, interrupts between instructions, and the context  *)
(* switches that save and restore the registers.  The address space of a   *)
(* thread is its own memory, apart from its code; how pages are found is   *)
(* module AddrSpace.                                                       *)
(***************************************************************************)
EXTENDS Word, MipsDecode, MipsEncoding

CONSTANTS Thread,      \* the threads that run user programs
          Scenario,    \* their programs, registers and memories
          SysResult,   \* what system calls return
          JumpRegion   \* 2^28: the addresses a J can reach

ASSUME CpuAssumption == /\ JumpRegion \in Nat \ {0} /\ WordSize % JumpRegion = 0
                        /\ SysResult \subseteq Word

\* An instruction that a word has room for, on registers in reg.
WellFormed(i, reg) ==
    /\ i.op \in DOMAIN Funct \cup DOMAIN Condition \cup DOMAIN OpField
    /\ {i.rs, i.rt, i.rd} \subseteq reg
    /\ i.extra \in IF i.op \in DOMAIN Funct THEN 0 .. 31
                   ELSE IF i.op \in {"J", "JAL"} THEN {x \in 0 .. 2 ^ 26 - 1 : 4 * x < JumpRegion}
                   ELSE -(2 ^ 15) .. 2 ^ 15 - 1

\* The programs can be encoded; registers hold words, and register 0 is 0 from
\* the constructor on; memories consist of whole words.
ASSUME ScenarioAssumption ==
    \A s \in Scenario :
      /\ DOMAIN s.memory = Thread
      /\ \A t \in Thread :
           LET reg == DOMAIN s.gpr[t]  mem == s.memory[t]
           IN  /\ reg \subseteq 0 .. 31
               /\ s.gpr[t] \in [reg -> Word] /\ 0 \in reg /\ s.gpr[t][0] = 0
               /\ \A k \in DOMAIN s.program[t] : WellFormed(s.program[t][k], reg)
               /\ mem \in [DOMAIN mem -> 0 .. Weight(1) - 1]
               /\ \A x \in DOMAIN mem : /\ x \in Nat
                                        /\ \A k \in 0 .. 3 : (x \div 4) * 4 + k \in DOMAIN mem

VARIABLES program,        \* what each thread's program was made from
          code,           \* its instruction words
          memory,         \* the bytes of each address space
          registers,      \* the registers of the machine
          userRegisters,  \* those saved for each thread
          running,        \* currentThread
          mode,           \* each thread: "user", "kernel" or "finished"
          abort           \* what ended NachOS, or "none"

text == <<program, code>>
vars == <<text, memory, registers, userRegisters, running, mode, abort>>

InitRegisters(gpr) == [gpr |-> gpr, hi |-> 0, lo |-> 0, pc |-> 0, nextPC |-> 4,
                       loadReg |-> 0, loadValue |-> 0]

\* The instance begins anywhere in the life of the threads: registers hold
\* what earlier instructions left in them.
Init == \E s \in Scenario :
          /\ program = s.program
          /\ code = [t \in Thread |-> [k \in DOMAIN program[t] |-> Encode(program[t][k])]]
          /\ memory = s.memory
          /\ userRegisters = [t \in Thread |-> InitRegisters(s.gpr[t])]
          /\ mode = [t \in Thread |-> IF program[t] = <<>> THEN "finished" ELSE "user"]
          /\ running \in {t \in Thread : mode[t] = "user"}
          /\ registers = userRegisters[running]
          /\ abort = "none"

-----------------------------------------------------------------------------
\* Machine::ReadMem and WriteMem, little-endian, and what Translate refuses.
Unaligned(addr, size) == (size = 4 /\ addr % 4 # 0) \/ (size = 2 /\ addr % 2 # 0)
Refused(mem, addr, size) == Unaligned(addr, size) \/ addr \notin DOMAIN mem

ReadMem(mem, addr, size) ==
    LET upTo[n \in 0 .. size] ==
          IF n = 0 THEN 0 ELSE upTo[n - 1] + mem[addr + n - 1] * Weight(n - 1)
    IN  upTo[size]

WriteMem(mem, addr, size, value) ==
    [x \in DOMAIN mem |-> IF x \in addr .. addr + size - 1 THEN ByteOf(value, x - addr) ELSE mem[x]]

\* The bytes of a word but the low n, and shifts by n bytes.
HighBytes(value, n) == value - LowBytes(value, n)
ShlBytes(value, n) == Shl(value, n * ByteBits)
ShrBytes(value, n) == Shr(value, n * ByteBits)

\* (x ^ y) & SIGN_BIT
SignsDiffer(x, y) == Negative(x) # Negative(y)

-----------------------------------------------------------------------------
\* The word written to rd.  SRL and SRLV shift an int, tmp.
RdValue(i, c) ==
    LET rs == c.gpr[i.rs]  rt == c.gpr[i.rt]
    IN  CASE i.op \in {"ADD", "ADDU"} -> ToWord(rs + rt)
          [] i.op \in {"SUB", "SUBU"} -> ToWord(rs - rt)
          [] i.op = "AND"  -> And(rs, rt)
          [] i.op = "OR"   -> Or(rs, rt)
          [] i.op = "XOR"  -> Xor(rs, rt)
          [] i.op = "NOR"  -> Not(Or(rs, rt))
          [] i.op = "SLT"  -> IF Signed(rs) < Signed(rt) THEN 1 ELSE 0
          [] i.op = "SLTU" -> IF rs < rt THEN 1 ELSE 0
          [] i.op = "SLL"  -> Shl(rt, i.extra)
          [] i.op = "SLLV" -> Shl(rt, rs % Width)
          [] i.op \in {"SRA", "SRL"}   -> Sar(rt, i.extra)
          [] i.op \in {"SRAV", "SRLV"} -> Sar(rt, rs % Width)
          [] i.op = "MFHI" -> c.hi
          [] i.op = "MFLO" -> c.lo

\* The word written to rt, from extra, which Decode has sign-extended.
RtValue(i, c) ==
    LET rs == c.gpr[i.rs]  extra == ToWord(i.extra)
    IN  CASE i.op \in {"ADDI", "ADDIU"} -> ToWord(rs + extra)
          [] i.op = "ANDI"  -> And(rs, LowBytes(extra, 2))
          [] i.op = "ORI"   -> Or(rs, LowBytes(extra, 2))
          [] i.op = "XORI"  -> Xor(rs, LowBytes(extra, 2))
          [] i.op = "SLTI"  -> IF Signed(rs) < Signed(extra) THEN 1 ELSE 0
          [] i.op = "SLTIU" -> IF rs < extra THEN 1 ELSE 0
          [] i.op = "LUI"   -> ShlBytes(extra, 2)

RdOps == {"ADD", "ADDU", "SUB", "SUBU", "AND", "OR", "XOR", "NOR", "SLT", "SLTU",
          "SLL", "SLLV", "SRA", "SRAV", "SRL", "SRLV", "MFHI", "MFLO"}
RtOps == {"ADDI", "ADDIU", "ANDI", "ORI", "XORI", "SLTI", "SLTIU", "LUI"}
LoadOps  == {"LB", "LBU", "LH", "LHU", "LW", "LWL", "LWR"}
StoreOps == {"SB", "SH", "SW", "SWL", "SWR"}
LinkOps  == {"JAL", "BGEZAL", "BLTZAL"}

\* The overflow tests of ADD, ADDI and SUB.
Overflows(i, c) ==
    LET rs == c.gpr[i.rs]  rt == c.gpr[i.rt]  extra == ToWord(i.extra)
    IN  \/ /\ i.op = "ADD"
           /\ ~ SignsDiffer(rs, rt) /\ SignsDiffer(rs, ToWord(rs + rt))
        \/ /\ i.op = "ADDI"
           /\ ~ SignsDiffer(rs, extra) /\ SignsDiffer(extra, ToWord(rs + extra))
        \/ /\ i.op = "SUB"
           /\ SignsDiffer(rs, rt) /\ SignsDiffer(rs, ToWord(rs - rt))

\* Mult: add shifted values of b for the bits of a; leaving the loop early
\* only skips bits that are 0.  A carry out of lo is lo < bLo.
Mult(x, y, signedArith) ==
    LET Neg(z) == signedArith /\ Negative(z)
        a == IF Neg(x) THEN ToWord(-x) ELSE x
        b == IF Neg(y) THEN ToWord(-y) ELSE y
        AddTo(s) == LET lo == ToWord(s.lo + s.bLo)
                    IN  [s EXCEPT !.lo = lo,
                                  !.hi = ToWord(@ + (IF lo < s.bLo THEN 1 ELSE 0) + s.bHi)]
        Shifted(s) == [s EXCEPT !.bHi = ToWord(2 * @ + (IF Negative(s.bLo) THEN 1 ELSE 0)),
                                !.bLo = ToWord(2 * @)]
        loop[n \in 0 .. Width] ==
          IF n = 0 THEN [lo |-> 0, hi |-> 0, bLo |-> b, bHi |-> 0]
          ELSE Shifted(IF Bit(a, n - 1) = 1 THEN AddTo(loop[n - 1]) ELSE loop[n - 1])
        lo == ToWord(Not(loop[Width].lo) + 1)
    IN  IF x = 0 \/ y = 0 THEN [hi |-> 0, lo |-> 0]
        ELSE IF Neg(x) = Neg(y) THEN [hi |-> loop[Width].hi, lo |-> loop[Width].lo]
        ELSE [hi |-> ToWord(Not(loop[Width].hi) + (IF lo = 0 THEN 1 ELSE 0)), lo |-> lo]

\* Division of ints, as C does it: towards zero.
Truncated(a, b) == LET q == (IF a < 0 THEN -a ELSE a) \div (IF b < 0 THEN -b ELSE b)
                   IN  IF (a < 0) = (b < 0) THEN q ELSE -q
Div(a, b) == IF b = 0 THEN [hi |-> 0, lo |-> 0]
             ELSE [hi |-> ToWord(a - b * Truncated(a, b)), lo |-> ToWord(Truncated(a, b))]

HiLo(i, c) ==
    LET rs == c.gpr[i.rs]  rt == c.gpr[i.rt]
    IN  CASE i.op = "MULT"  -> Mult(rs, rt, TRUE)
          [] i.op = "MULTU" -> Mult(rs, rt, FALSE)
          [] i.op = "DIV"   -> Div(Signed(rs), Signed(rt))
          [] i.op = "DIVU"  -> Div(rs, rt)
          [] i.op = "MTHI"  -> [hi |-> rs, lo |-> c.lo]
          [] i.op = "MTLO"  -> [hi |-> c.hi, lo |-> rs]
          [] OTHER          -> [hi |-> c.hi, lo |-> c.lo]

-----------------------------------------------------------------------------
\* Link registers are written before the condition or target is read.
Linked(i, c) == CASE i.op \in LinkOps -> [c.gpr EXCEPT ![31] = ToWord(c.nextPC + 4)]
                  [] i.op = "JALR"    -> [c.gpr EXCEPT ![i.rd] = ToWord(c.nextPC + 4)]
                  [] OTHER            -> c.gpr

Taken(i, gpr) ==
    CASE i.op = "BEQ" -> gpr[i.rs] = gpr[i.rt]
      [] i.op = "BNE" -> gpr[i.rs] # gpr[i.rt]
      [] i.op \in {"BGEZ", "BGEZAL"} -> ~ Negative(gpr[i.rs])
      [] i.op \in {"BLTZ", "BLTZAL"} -> Negative(gpr[i.rs])
      [] i.op = "BGTZ" -> Signed(gpr[i.rs]) > 0
      [] i.op = "BLEZ" -> Signed(gpr[i.rs]) <= 0
      [] OTHER -> FALSE

PcAfter(i, c) ==
    LET next == ToWord(c.nextPC + 4)
    IN  CASE i.op \in {"J", "JAL"}   -> next - (next % JumpRegion) + 4 * i.extra
          [] i.op \in {"JR", "JALR"} -> Linked(i, c)[i.rs]
          [] OTHER -> IF Taken(i, Linked(i, c)) THEN ToWord(c.nextPC + 4 * i.extra) ELSE next

\* tmp = registers[rs] + extra, and the address and size given to ReadMem.
Tmp(i, c)  == ToWord(c.gpr[i.rs] + i.extra)
Merging(i) == i.op \in {"LWL", "LWR", "SWL", "SWR"}
Byte(i, c) == Tmp(i, c) % 4
Access(i, c) == IF Merging(i) THEN Tmp(i, c) - Byte(i, c) ELSE Tmp(i, c)
Bytes(i) == IF i.op \in {"LB", "LBU", "SB"} THEN 1
            ELSE IF i.op \in {"LH", "LHU", "SH"} THEN 2 ELSE 4

\* Mutant: LWL and LWR merge with what the register holds.
OldRt(i, c) == c.gpr[i.rt]

\* LWL and LWR merge with what the register is about to hold, if a load of it
\* is in progress.
PendingRt(i, c) == IF c.loadReg = i.rt THEN c.loadValue ELSE c.gpr[i.rt]

\* The delayed load an instruction begins.
NextLoad(i, c, mem) ==
    LET value == ReadMem(mem, Access(i, c), Bytes(i))
        n == 3 - Byte(i, c)
    IN  CASE i.op \in {"LW", "LBU", "LHU"} -> value
          [] i.op \in {"LB", "LH"} -> SignExtend(value, Bytes(i))
          [] i.op = "LWL" -> LowBytes(PendingRt(i, c), n) + ShlBytes(value, n)
          [] i.op = "LWR" -> HighBytes(PendingRt(i, c), n + 1) + ShrBytes(value, Byte(i, c))

\* The word a store writes at Access.
StoreValue(i, c, mem) ==
    LET rt == c.gpr[i.rt]
        value == ReadMem(mem, Access(i, c), 4)
        n == 3 - Byte(i, c)
    IN  CASE i.op = "SWL" -> HighBytes(value, 4 - n) + ShrBytes(rt, n)
          [] i.op = "SWR" -> LowBytes(value, Byte(i, c)) + ShlBytes(rt, Byte(i, c))
          [] OTHER        -> rt

\* Machine::DelayedLoad.
DelayedLoad(c, nextReg, nextValue) ==
    [c EXCEPT !.gpr = [@ EXCEPT ![c.loadReg] = c.loadValue, ![0] = 0],
              !.loadReg = nextReg, !.loadValue = nextValue]

\* The exception that ends an instruction early.  Dividing the least int by
\* -1 is left to the host, whose division traps.
Exception(i, c, mem) ==
    CASE i.op = "SYSCALL" -> "syscall"
      [] Overflows(i, c)  -> "overflow"
      [] i.op \in LoadOps \cup StoreOps /\ Refused(mem, Access(i, c), Bytes(i)) -> "address error"
      [] i.op = "DIV" /\ c.gpr[i.rs] = 2 ^ (Width - 1) /\ c.gpr[i.rt] = WordSize - 1 -> "undefined"
      [] i.op \in {"RES", "UNIMP"} -> "illegal instruction"
      [] OTHER -> "none"

\* OneInstruction without an exception: the registers it leaves.
Retired(i, c, mem) ==
    LET gpr == CASE i.op \in RdOps -> [c.gpr EXCEPT ![i.rd] = RdValue(i, c)]
                 [] i.op \in RtOps -> [c.gpr EXCEPT ![i.rt] = RtValue(i, c)]
                 [] OTHER          -> Linked(i, c)
        done == [c EXCEPT !.gpr = gpr, !.hi = HiLo(i, c).hi, !.lo = HiLo(i, c).lo]
        load == i.op \in LoadOps
    IN  [DelayedLoad(done, IF load THEN i.rt ELSE 0, IF load THEN NextLoad(i, c, mem) ELSE 0)
            EXCEPT !.pc = c.nextPC, !.nextPC = PcAfter(i, c)]

-----------------------------------------------------------------------------
Fetches   == registers.pc % 4 = 0 /\ registers.pc \div 4 + 1 \in DOMAIN code[running]
Current   == Decode(code[running][registers.pc \div 4 + 1])
Raised    == IF Fetches THEN Exception(Current, registers, memory[running]) ELSE "address error"
Finished  == DelayedLoad(registers, 0, 0)   \* "finish anything in progress"

\* The running thread t is in user code, and NachOS has not ended.
InUser(t) == abort = "none" /\ running = t /\ mode[t] = "user"
InKernel(t) == abort = "none" /\ running = t /\ mode[t] # "user"

\* Machine::OneInstruction, when no exception occurs.
Instruction(t) ==
    /\ InUser(t) /\ Raised = "none"
    /\ registers' = Retired(Current, registers, memory[t])
    /\ memory' = IF Current.op \notin StoreOps THEN memory
                 ELSE [memory EXCEPT ![t] =
                         WriteMem(@, Access(Current, registers), Bytes(Current),
                                  StoreValue(Current, registers, @))]
    /\ UNCHANGED <<text, userRegisters, running, mode, abort>>

\* Mutant: the load in progress is left for later.
TrapLeavesLoad(t) ==
    /\ InUser(t) /\ Raised = "syscall"
    /\ mode' = [mode EXCEPT ![t] = "kernel"]
    /\ UNCHANGED <<text, memory, registers, userRegisters, running, abort>>

\* RaiseException of a system call: the kernel runs for thread t.
Trap(t) ==
    /\ InUser(t) /\ Raised = "syscall"
    /\ registers' = Finished
    /\ mode' = [mode EXCEPT ![t] = "kernel"]
    /\ UNCHANGED <<text, memory, userRegisters, running, abort>>

\* RaiseException of anything else: ExceptionHandler has no case for it and
\* reaches ASSERTNOTREACHED.
Abort(t) ==
    /\ InUser(t) /\ Raised \notin {"none", "syscall"}
    /\ registers' = Finished
    /\ abort' = Raised
    /\ UNCHANGED <<text, memory, userRegisters, running, mode>>

\* ExceptionHandler writes the result and moves both program counters.
SystemReturn(t) ==
    /\ InKernel(t) /\ mode[t] = "kernel"
    /\ \E v \in SysResult :
          registers' = [registers EXCEPT !.gpr[2] = v, !.pc = ToWord(@ + 4),
                                         !.nextPC = ToWord(registers.pc + 8)]
    /\ mode' = [mode EXCEPT ![t] = "user"]
    /\ UNCHANGED <<text, memory, userRegisters, running, abort>>

\* SC_Exit, which finishes the thread.
Exit(t) ==
    /\ InKernel(t) /\ mode[t] = "kernel"
    /\ mode' = [mode EXCEPT ![t] = "finished"]
    /\ UNCHANGED <<text, memory, registers, userRegisters, running, abort>>

\* Scheduler::Run from t to u, when the machine holds saved: SaveUserState,
\* SWITCH, and RestoreUserState by u.
Run(t, u, saved) ==
    /\ u # t /\ mode[u] # "finished"
    /\ userRegisters' = [userRegisters EXCEPT ![t] = saved]
    /\ registers' = userRegisters[u]
    /\ running' = u

\* OneTick after an instruction finds an interrupt due: CheckIfDue finishes
\* the load in progress and calls the handlers, and if one is the timer's the
\* thread yields.
Interrupt(t) ==
    /\ InUser(t)
    /\ \/ registers' = Finished /\ UNCHANGED <<userRegisters, running>>
       \/ \E u \in Thread : Run(t, u, Finished)
    /\ UNCHANGED <<text, memory, mode, abort>>

\* A thread in the kernel yields, sleeps or has finished, and another runs.
Yield(t) ==
    /\ InKernel(t)
    /\ \E u \in Thread : Run(t, u, registers)
    /\ UNCHANGED <<text, memory, mode, abort>>

Next == \E t \in Thread : \/ Instruction(t) \/ Trap(t) \/ Abort(t)
                         \/ SystemReturn(t) \/ Exit(t) \/ Interrupt(t) \/ Yield(t)

Spec == Init /\ [][Next]_vars

-----------------------------------------------------------------------------
\* The general registers that an instruction reads, and the one it writes at
\* once.  What LWL and LWR merge with they find in the load in progress too.
Reads(i) ==
    CASE i.op \in {"J", "JAL", "SYSCALL", "UNIMP", "RES", "LUI", "MFHI", "MFLO"} -> {}
      [] i.op \in {"SLL", "SRA", "SRL"} -> {i.rt}
      [] i.op \in (RtOps \ {"LUI"}) \cup LoadOps
                   \cup {"JR", "JALR", "BGEZ", "BLTZ", "BGEZAL", "BLTZAL", "BGTZ", "BLEZ",
                         "MTHI", "MTLO"} -> {i.rs}
      [] OTHER -> {i.rs, i.rt}
Writes(i) == CASE i.op \in RdOps \cup {"JALR"} -> {i.rd}
               [] i.op \in RtOps -> {i.rt}
               [] i.op \in LinkOps -> {31}
               [] OTHER -> {}

\* What the MIPS demands of a program, of its next instruction i: it leaves the
\* register of the load before it alone, does not change control in the slot
\* of a branch, and its operand is not its link register.  The simulator asks
\* for two things more: SRL and SRLV of words that are not negative (see
\* SrlIsLogical), and jumps that do not end their region.
Demands(i, c) ==
    /\ c.loadReg = 0 \/ c.loadReg \notin Reads(i) \cup Writes(i)
    /\ i.op \in {"SYSCALL", "J", "JR", "BEQ", "BNE", "BGEZ", "BLTZ", "BGTZ", "BLEZ", "JALR"} \cup LinkOps
         => c.nextPC = ToWord(c.pc + 4)
    /\ i.op \in {"BGEZAL", "BLTZAL"} => i.rs # 31
    /\ i.op = "JALR" => i.rs # i.rd
    /\ i.op \in {"SRL", "SRLV"} => ~ Negative(c.gpr[i.rt])
    /\ i.op \in {"J", "JAL"} => (c.pc + 4) \div JumpRegion = ToWord(c.pc + 8) \div JumpRegion

\* The instruction that the running thread is about to execute is as demanded.
ProgramsObey ==
    InUser(running) /\ Fetches => Demands(program[running][registers.pc \div 4 + 1], registers)

\* What thread t sees of the machine: registers it has or had, as they will be
\* when the load in progress has finished.
Own(t) == IF running = t THEN registers ELSE userRegisters[t]
Seen(t) == [gpr |-> DelayedLoad(Own(t), 0, 0).gpr, hi |-> Own(t).hi, lo |-> Own(t).lo,
            pc |-> Own(t).pc, npc |-> Own(t).nextPC, mem |-> memory[t],
            status |-> IF mode[t] = "finished" THEN "finished"
                       ELSE IF running = t /\ abort # "none" THEN abort ELSE "running"]

Reference == INSTANCE Mips WITH code <- program, cpu <- [t \in Thread |-> Seen(t)]

\* Each thread runs as if it had a processor of its own on which loads take
\* effect at once, whatever interrupts, system calls and switches come between
\* its instructions: unaligned loads in two halves merge with each other, the
\* arithmetic of the simulator is that of the MIPS (mipssim.cc).
ImplementsMips == Reference!Spec

\* "Any delayed load must get applied before we trap to the kernel"
\* (mipssim.cc:714): the kernel, which reads arguments from registers, writes
\* results to them and switches threads, never meets a load in progress.
KernelSeesLoads ==
    \A t \in Thread : (running # t \/ mode[t] # "user" \/ abort # "none") => Own(t).loadReg = 0

\* SRL shifts in zeros, as "straight from the MIPS manual" (mipssim.h:16) says
\* of the codes that mipssim.cc executes.
SrlIsLogical ==
    [][\A t \in Thread : Instruction(t) /\ Current.op = "SRL"
          => registers'.gpr[Current.rd] = Shr(registers.gpr[Current.rt], Current.extra)]_vars
=============================================================================
