------------------------------- MODULE MCIceV -------------------------------
(***************************************************************************)
(* Words of 8 bits (bytes of 2), memory of 8 words, peripherals above.     *)
(* Every word encodes one of the instructions below.                       *)
(***************************************************************************)
EXTENDS IceV

CONSTANTS LAST,  \* the instructions that end a program
          AFTER  \* the word that follows them

I(opcode, op, sign, rd, rs1, rs2, imm) ==
  [opcode |-> opcode, op |-> op, sign |-> sign, rd |-> rd, rs1 |-> rs1, rs2 |-> rs2,
   imm |-> imm]

Alu == << I("IntImm", 0, 0, 1, 0, 0, 21),    \* addi x1, x0, 21
          I("IntImm", 0, 1, 1, 1, 0, 255),   \* addi x1, x1, -1
          I("LUI", 0, 0, 2, 0, 0, 180),      \* lui  x2, 180
          I("IntImm", 5, 1, 1, 2, 0, 3),     \* srai x1, x2, 3
          I("IntImm", 1, 0, 2, 1, 0, 1),     \* slli x2, x1, 1
          I("IntReg", 5, 0, 1, 1, 2, 0),     \* srl  x1, x1, x2
          I("IntReg", 1, 0, 2, 2, 1, 0),     \* sll  x2, x2, x1
          I("IntReg", 5, 1, 2, 1, 2, 0),     \* sra  x2, x1, x2
          I("IntReg", 0, 1, 2, 1, 2, 0),     \* sub  x2, x1, x2
          I("IntReg", 2, 0, 1, 2, 1, 0),     \* slt  x1, x2, x1
          I("IntImm", 3, 0, 2, 1, 0, 200),   \* sltiu x2, x1, 200
          I("IntReg", 4, 0, 0, 1, 2, 0),     \* xor  x0, x1, x2
          I("IntImm", 4, 1, 2, 1, 0, 255),   \* xori x2, x1, -1
          I("IntReg", 7, 0, 1, 1, 2, 0),     \* and  x1, x1, x2
          I("IntImm", 6, 0, 1, 2, 0, 34),    \* ori  x1, x2, 34
          I("AUIPC", 0, 0, 2, 0, 0, 16),     \* auipc x2, 16
          I("Cycles", 2, 0, 1, 0, 0, 0) >>   \* rdcycle x1

Memory == << I("IntImm", 0, 0, 2, 0, 0, 32), \* addi x2, x0, 32: the first peripheral
             I("load", 0, 0, 1, 2, 0, 1),    \* lb   x1, 1(x2)
             I("load", 4, 0, 2, 0, 0, 3),    \* lbu  x2, 3(x0)
             I("load", 1, 0, 1, 2, 0, 2),    \* lh   x1, 2(x2)
             I("load", 5, 0, 1, 0, 0, 18),   \* lhu  x1, 18(x0)
             I("load", 2, 0, 2, 2, 0, 0),    \* lw   x2, 0(x2)
             I("store", 0, 0, 0, 0, 1, 4),   \* sb   x1, 4(x0): the next instruction
             I("store", 1, 0, 0, 2, 1, 2),   \* sh   x1, 2(x2)
             I("store", 2, 0, 0, 2, 2, 0) >> \* sw   x2, 0(x2)

Jumps == << I("branch", 0, 0, 0, 1, 2, 252), \* beq  x1, x2, -4
            I("branch", 5, 0, 0, 2, 1, 252), \* bge  x2, x1, -4
            I("branch", 6, 0, 0, 1, 2, 248), \* bltu x1, x2, -8
            I("branch", 1, 0, 0, 1, 0, 252), \* bne  x1, x0, -4
            I("branch", 4, 0, 0, 1, 2, 8),   \* blt  x1, x2, +8
            I("branch", 7, 0, 0, 2, 1, 8),   \* bgeu x2, x1, +8
            I("JAL", 0, 0, 1, 0, 0, 8),      \* jal  x1, +8
            I("JALR", 0, 0, 2, 1, 0, 0),     \* jalr x2, 0(x1)
            I("JAL", 0, 0, 0, 0, 0, 248) >>  \* jal  x0, -8

Set == Alu \o Memory \o Jumps

MCDecode == [w \in 0 .. 255 |-> Set[1 + (w % Len(Set))]]

\* A program: any three instructions, an instruction of LAST, and some data.
MCPrograms ==
  {[x \in 0 .. 7 |-> CASE x < 3 -> p[x]
                       [] x = 3 -> last
                       [] x = 4 -> AFTER
                       [] OTHER -> (45 * x) % 256] :
   p \in [0 .. 2 -> 0 .. Len(Set) - 1], last \in LAST}
=============================================================================
