-------------------------------- MODULE Rv32 --------------------------------
(***************************************************************************)
(* Words and instructions of a small RV32I.  A word has four bytes of BYTE *)
(* bits (8 in the circuit), an instruction is the record of its fields,    *)
(* and Decode gives the one a word encodes, so that a program may be read, *)
(* written and run.                                                        *)
(***************************************************************************)
EXTENDS Integers, Sequences

CONSTANTS BYTE,    \* bits in a byte
          addrW,   \* bits in the address of a word; the highest one is for peripherals
          NREGS,   \* registers, x0 included
          Decode,  \* the instruction of each word
          Inputs   \* what a peripheral may answer

Pow2[k \in Nat] == IF k = 0 THEN 1 ELSE 2 * Pow2[k - 1]

XLEN == 4 * BYTE
Word == 0 .. Pow2[XLEN] - 1
Reg == 0 .. NREGS - 1
Ram == 0 .. Pow2[addrW - 1] - 1

Opcodes == {"AUIPC", "LUI", "JAL", "JALR", "IntImm", "IntReg", "Cycles", "branch",
            "load", "store"}
Instr == [opcode : Opcodes, op : 0 .. 7, sign : 0 .. 1, rd : Reg, rs1 : Reg, rs2 : Reg,
          imm : Word]

ASSUME Rv32Assumption == /\ {BYTE, NREGS} \subseteq Nat \ {0}
                         /\ addrW \in 2 .. XLEN - 2
                         /\ Decode \in [Word -> Instr]
                         /\ Inputs \subseteq Word

Wrap(z) == z % Pow2[XLEN]
Signed(w) == IF w < Pow2[XLEN - 1] THEN w ELSE w - Pow2[XLEN]
Bit(w, k) == (w \div Pow2[k]) % 2

\* What a gate makes of two bits, and the word of what it makes of those of two words.
And == [p \in 0 .. 1 |-> [q \in 0 .. 1 |-> p * q]]
Or  == [p \in 0 .. 1 |-> [q \in 0 .. 1 |-> IF p = 1 THEN 1 ELSE q]]
Xor == [p \in 0 .. 1 |-> [q \in 0 .. 1 |-> IF p = q THEN 0 ELSE 1]]
Bitwise(gate, v, w) ==
  LET low[k \in Nat] == IF k = 0 THEN 0
                        ELSE low[k - 1] + gate[Bit(v, k - 1)][Bit(w, k - 1)] * Pow2[k - 1]
  IN  low[XLEN]

ByteOf(w, k) == (w \div Pow2[BYTE * k]) % Pow2[BYTE]
WordOf(b) == b[0] + b[1] * Pow2[BYTE] + b[2] * Pow2[2 * BYTE] + b[3] * Pow2[3 * BYTE]

IsPeripheral(a) == a >= Pow2[addrW - 1]
============================================================================
