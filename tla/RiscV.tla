-------------------------------- MODULE RiscV -------------------------------
(***************************************************************************)
(* What a program expects of the processor: RV32I, one instruction at a    *)
(* time, as its specification tells it.  A load from a peripheral gives    *)
(* any of its answers; a store to one is recorded in out.                  *)
(***************************************************************************)
EXTENDS Rv32

VARIABLES mem, regs, pc, out

vars == <<mem, regs, pc, out>>

Init(program) == /\ mem = program
                 /\ regs = [x \in Reg |-> 0]
                 /\ pc = 0 /\ out = <<>>

i == Decode[mem[pc]]
a == regs[i.rs1]

Set(v) == regs' = [regs EXCEPT ![i.rd] = IF i.rd = 0 THEN 0 ELSE v]
Goto(address) == pc' = (address \div 4) % Pow2[addrW]
NextPc == 4 * pc + 4

---------------------------------------------------------------------------
Shift(w, n) == CASE i.op = 1 -> Wrap(w * Pow2[n])
                 [] i.op = 5 -> Wrap((IF i.sign = 1 THEN Signed(w) ELSE w) \div Pow2[n])

Compute(b) ==
  CASE i.op = 0 -> Wrap(IF i.opcode = "IntReg" /\ i.sign = 1 THEN a - b ELSE a + b)
    [] i.op \in {1, 5} -> Shift(a, b % XLEN)
    [] i.op = 2 -> IF Signed(a) < Signed(b) THEN 1 ELSE 0
    [] i.op = 3 -> IF a < b THEN 1 ELSE 0
    [] i.op = 4 -> Bitwise(Xor, a, b)
    [] i.op = 6 -> Bitwise(Or, a, b)
    [] i.op = 7 -> Bitwise(And, a, b)

Integer == /\ i.opcode \in {"IntImm", "IntReg"}
           /\ Set(Compute(IF i.opcode = "IntReg" THEN regs[i.rs2] ELSE i.imm))
           /\ Goto(NextPc)
           /\ UNCHANGED <<mem, out>>

Upper == /\ \/ i.opcode = "LUI" /\ Set(i.imm)
            \/ i.opcode = "AUIPC" /\ Set(Wrap(4 * pc + i.imm))
            \/ i.opcode = "Cycles" /\ \E v \in Word : Set(v)
         /\ Goto(NextPc)
         /\ UNCHANGED <<mem, out>>

Jump == /\ i.opcode \in {"JAL", "JALR"}
        /\ Set(NextPc)
        /\ Goto(Wrap((IF i.opcode = "JAL" THEN 4 * pc ELSE a) + i.imm))
        /\ UNCHANGED <<mem, out>>

Taken(b) == CASE i.op = 0 -> a = b
              [] i.op = 1 -> a # b
              [] i.op = 4 -> Signed(a) < Signed(b)
              [] i.op = 5 -> Signed(a) >= Signed(b)
              [] i.op = 6 -> a < b
              [] i.op = 7 -> a >= b

Branch == /\ i.opcode = "branch"
          /\ Goto(IF Taken(regs[i.rs2]) THEN Wrap(4 * pc + i.imm) ELSE NextPc)
          /\ UNCHANGED <<mem, regs, out>>

---------------------------------------------------------------------------
Address == Wrap(a + i.imm)
Cell == (Address \div 4) % Pow2[addrW]
Offset == Address % 4
Bytes == Pow2[i.op % 4]

\* The bytes of a word that a load asks for, extended.
Extended(w) ==
  LET v == (w \div Pow2[BYTE * Offset]) % Pow2[BYTE * Bytes] IN
  IF i.op < 4 /\ Bit(v, BYTE * Bytes - 1) = 1 THEN Wrap(v - Pow2[BYTE * Bytes]) ELSE v

Load == /\ i.opcode = "load"
        /\ \E w \in (IF IsPeripheral(Cell) THEN Inputs ELSE {mem[Cell]}) : Set(Extended(w))
        /\ Goto(NextPc)
        /\ UNCHANGED <<mem, out>>

Stored == [k \in Offset .. Offset + Bytes - 1 |-> ByteOf(regs[i.rs2], k - Offset)]

Store == /\ i.opcode = "store"
         /\ IF IsPeripheral(Cell)
            THEN out' = Append(out, <<Cell, Stored>>) /\ UNCHANGED mem
            ELSE /\ mem' = [mem EXCEPT ![Cell] = WordOf([k \in 0 .. 3 |->
                              IF k \in DOMAIN Stored THEN Stored[k] ELSE ByteOf(@, k)])]
                 /\ UNCHANGED out
         /\ Goto(NextPc)
         /\ UNCHANGED regs

Next == Integer \/ Upper \/ Jump \/ Branch \/ Load \/ Store

Follows == [][Next]_vars
============================================================================
