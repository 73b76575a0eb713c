---------------------------- MODULE MipsEncoding ----------------------------
(***************************************************************************)
(* The instruction words of the MIPS R2000, as its manual lays them out    *)
(* and a compiler produces them.  A word is a pair of its halves.          *)
(***************************************************************************)
EXTENDS Integers

\* Bits 31 to 26.
OpField == [J |-> 2, JAL |-> 3, BEQ |-> 4, BNE |-> 5, BLEZ |-> 6, BGTZ |-> 7,
            ADDI |-> 8, ADDIU |-> 9, SLTI |-> 10, SLTIU |-> 11,
            ANDI |-> 12, ORI |-> 13, XORI |-> 14, LUI |-> 15,
            UNIMP |-> 16, RES |-> 20,
            LB |-> 32, LH |-> 33, LWL |-> 34, LW |-> 35, LBU |-> 36, LHU |-> 37,
            LWR |-> 38, SB |-> 40, SH |-> 41, SWL |-> 42, SW |-> 43, SWR |-> 46]

\* Bits 5 to 0 of an instruction whose bits 31 to 26 are 0.
Funct == [SLL |-> 0, SRL |-> 2, SRA |-> 3, SLLV |-> 4, SRLV |-> 6, SRAV |-> 7,
          JR |-> 8, JALR |-> 9, SYSCALL |-> 12,
          MFHI |-> 16, MTHI |-> 17, MFLO |-> 18, MTLO |-> 19,
          MULT |-> 24, MULTU |-> 25, DIV |-> 26, DIVU |-> 27,
          ADD |-> 32, ADDU |-> 33, SUB |-> 34, SUBU |-> 35,
          AND |-> 36, OR |-> 37, XOR |-> 38, NOR |-> 39, SLT |-> 42, SLTU |-> 43]

\* Bits 20 to 16 of an instruction whose bits 31 to 26 are 1.
Condition == [BLTZ |-> 0, BGEZ |-> 1, BLTZAL |-> 16, BGEZAL |-> 17]

Half == 2 ^ 16
Halves(op, a, b, low) == [hi |-> op * 2 ^ 10 + a * 2 ^ 5 + b, lo |-> low]

Encode(i) ==
    CASE i.op \in DOMAIN Funct ->
           Halves(0, i.rs, i.rt, i.rd * 2 ^ 11 + i.extra * 2 ^ 6 + Funct[i.op])
      [] i.op \in DOMAIN Condition -> Halves(1, i.rs, Condition[i.op], i.extra % Half)
      [] i.op \in {"J", "JAL"} -> Halves(OpField[i.op], 0, i.extra \div Half, i.extra % Half)
      [] OTHER -> Halves(OpField[i.op], i.rs, i.rt, i.extra % Half)
=============================================================================
