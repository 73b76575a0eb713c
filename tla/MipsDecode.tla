----------------------------- MODULE MipsDecode -----------------------------
(***************************************************************************)
(* Instruction::Decode and its tables (machine/mipssim.h, mipssim.cc).  An *)
(* instruction word is a pair of its halves.                               *)
(***************************************************************************)
EXTENDS Integers, Sequences

Fill(n, op) == [k \in 1 .. n |-> op]

\* opTable, by bits 31 to 26.
opTable == << "SPECIAL", "BCOND", "J", "JAL", "BEQ", "BNE", "BLEZ", "BGTZ",
              "ADDI", "ADDIU", "SLTI", "SLTIU", "ANDI", "ORI", "XORI", "LUI" >>
           \o Fill(4, "UNIMP") \o Fill(12, "RES")
           \o << "LB", "LH", "LWL", "LW", "LBU", "LHU", "LWR", "RES",
                 "SB", "SH", "SWL", "SW", "RES", "RES", "SWR", "RES" >>
           \o Fill(4, "UNIMP") \o Fill(4, "RES") \o Fill(4, "UNIMP") \o Fill(4, "RES")

\* specialTable, by the "funct" field.
specialTable == << "SLL", "RES", "SRL", "SRA", "SLLV", "RES", "SRLV", "SRAV",
                   "JR", "JALR", "RES", "RES", "SYSCALL", "UNIMP", "RES", "RES",
                   "MFHI", "MTHI", "MFLO", "MTLO" >>
                \o Fill(4, "RES") \o << "MULT", "MULTU", "DIV", "DIVU" >> \o Fill(4, "RES")
                \o << "ADD", "ADDU", "SUB", "SUBU", "AND", "OR", "XOR", "NOR",
                      "RES", "RES", "SLT", "SLTU" >> \o Fill(20, "RES")

\* The BCOND instructions, by the field of rt.
conditional(rt) == CASE rt = 0  -> "BLTZ"
                     [] rt = 1  -> "BGEZ"
                     [] rt = 16 -> "BLTZAL"
                     [] rt = 17 -> "BGEZAL"
                     [] OTHER   -> "UNIMP"

Decode(value) ==
    LET entry == opTable[(value.hi \div 2 ^ 10) + 1]
        rt == value.hi % 2 ^ 5
    IN  [rs |-> (value.hi \div 2 ^ 5) % 2 ^ 5,
         rt |-> rt,
         rd |-> value.lo \div 2 ^ 11,
         op |-> CASE entry = "SPECIAL" -> specialTable[(value.lo % 2 ^ 6) + 1]
                  [] entry = "BCOND"   -> conditional(rt)
                  [] OTHER             -> entry,
         extra |-> CASE entry = "SPECIAL"     -> (value.lo \div 2 ^ 6) % 2 ^ 5
                     [] entry \in {"J", "JAL"} -> (value.hi % 2 ^ 10) * 2 ^ 16 + value.lo
                     [] OTHER -> IF value.lo >= 2 ^ 15 THEN value.lo - 2 ^ 16 ELSE value.lo]
=============================================================================
