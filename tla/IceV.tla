-------------------------------- MODULE IceV --------------------------------
(***************************************************************************)
(* The Ice-V processor (ice-v.si) on the bus of the player (cabillot.si),  *)
(* one step per cycle.  The outputs of the unit execute are registers: the *)
(* processor sees what was computed in the cycle before.  The memories     *)
(* answer in the next cycle, with what was there before a write.           *)
(*                                                                         *)
(* Programs keep their code in the first CODE words, jump to instructions, *)
(* use addresses that exist and align their accesses; the processor makes  *)
(* no promise otherwise, and the model ends there.                         *)
(***************************************************************************)
EXTENDS Rv32

CONSTANTS CODE,        \* words of code
          Programs,    \* the contents of the memory at the start
          MAX_RETIRED  \* bound: instructions run

ASSUME IceVAssumption == /\ CODE \in Ram /\ MAX_RETIRED \in Nat
                         /\ Programs \subseteq [Ram -> Word]

VARIABLES phase,      \* where the algorithm of rv32i_cpu is
          instr, pc,
          xregs,      \* xregsA and xregsB, written together
          xa, xb,     \* their rdata
          exec,       \* the outputs of the unit execute
          shamt,      \* its shifter
          cycle,      \* its counter
          addr,       \* memio.addr
          ram, rdata, \* the memory and its rdata
          prev,       \* prev_mem_addr, prev_mem_rw, prev_wdata
          out,        \* history: the stores done on peripherals
          left, retired \* history: cycles this instruction still has, instructions run

vars == <<phase, instr, pc, xregs, xa, xb, exec, shamt, cycle, addr, ram, rdata, prev,
          out, left, retired>>

Lanes == 0 .. 3
NoOutputs == [op |-> 0, write_rd |-> 0, no_rd |-> TRUE, jump |-> FALSE, load |-> FALSE,
              store |-> FALSE, val |-> 0, storeVal |-> FALSE, working |-> FALSE, n |-> 0,
              storeAddr |-> FALSE, intop |-> FALSE, r |-> 0]

Init == /\ phase = "fetch"
        /\ ram \in Programs
        /\ instr = ram[0] /\ pc = 0 /\ addr = 0 /\ rdata = ram[0]
        /\ xregs = [x \in Reg |-> 0] /\ xa = 0 /\ xb = 0
        /\ exec = NoOutputs /\ shamt = 0 /\ cycle = 0
        /\ prev = [addr |-> 0, lanes |-> {}, wdata |-> 0]
        /\ out = <<>> /\ left = 0 /\ retired = 0

---------------------------------------------------------------------------
(* execute: the decoder and the ALU, at work in every cycle.               *)

i == Decode[instr]
b == IF i.opcode \in {"IntReg", "branch"} THEN xb ELSE i.imm

\* One adder for the subtraction and the comparisons: one more bit than a word.
a_minus_b == (Pow2[XLEN + 1] + xa - b) % Pow2[XLEN + 1]
a_lt_b == IF Bit(xa, XLEN - 1) # Bit(b, XLEN - 1) THEN Bit(xa, XLEN - 1)
                                                  ELSE Bit(a_minus_b, XLEN)
a_lt_b_u == Bit(a_minus_b, XLEN)
a_eq_b == IF Wrap(a_minus_b) = 0 THEN 1 ELSE 0

\* Only addrW - 2 bits of pc reach the adder of addresses.
addr_a == IF i.opcode \in {"AUIPC", "JAL", "branch"} THEN 4 * (pc % Pow2[addrW - 2]) ELSE xa
addr_imm == IF i.opcode \in {"AUIPC", "JAL", "branch", "JALR", "load", "store"}
            THEN i.imm ELSE 0

aluShift == i.opcode \in {"IntImm", "IntReg"} /\ i.op % 4 = 1

\* The shifter: one bit per cycle, from the register r.
\* (Mutant: it does not wait for the trigger.)
ShamtUntriggered(trigger) == IF exec.working THEN shamt - 1
                             ELSE IF aluShift THEN b % XLEN ELSE 0

Shamt(trigger) == IF exec.working THEN shamt - 1
                  ELSE IF aluShift /\ trigger THEN b % XLEN ELSE 0

\* (Mutant: the sign is not kept by the next bits of an arithmetic shift.)
OneBitLogical(w) == IF i.op \div 4 = 1 THEN w \div 2 ELSE Wrap(2 * w)

OneBit(w) == IF i.op \div 4 = 1
             THEN w \div 2 + i.sign * Bit(w, XLEN - 1) * Pow2[XLEN - 1]
             ELSE Wrap(2 * w)

shifted == IF exec.working THEN OneBit(exec.r) ELSE xa

AluResult ==
  CASE i.op = 0 -> Wrap(IF i.opcode = "IntReg" /\ i.sign = 1 THEN a_minus_b ELSE xa + b)
    [] i.op = 2 -> a_lt_b
    [] i.op = 3 -> a_lt_b_u
    [] i.op = 4 -> Bitwise(Xor, xa, b)
    [] i.op = 6 -> Bitwise(Or, xa, b)
    [] i.op \in {1, 5} -> shifted
    [] i.op = 7 -> Bitwise(And, xa, b)

\* j; the comparator has no result for the codes 2 and 3, which are not branches.
Compared == CASE i.op \div 2 = 0 -> a_eq_b
              [] i.op \div 2 = 2 -> a_lt_b
              [] i.op \div 2 = 3 -> a_lt_b_u
              [] OTHER -> 0

Outputs(trigger) ==
  [op |-> i.op, write_rd |-> i.rd,
   no_rd |-> i.opcode \in {"branch", "store"} \/ i.rd = 0,
   jump |-> i.opcode \in {"JAL", "JALR"} \/ (i.opcode = "branch" /\ Compared # i.op % 2),
   load |-> i.opcode = "load", store |-> i.opcode = "store",
   val |-> IF i.opcode = "LUI" THEN i.imm ELSE cycle,
   storeVal |-> i.opcode \in {"LUI", "Cycles"},
   working |-> Shamt(trigger) # 0,
   n |-> Wrap(addr_a + addr_imm),
   storeAddr |-> i.opcode = "AUIPC",
   intop |-> i.opcode \in {"IntImm", "IntReg"},
   r |-> AluResult]

Execute(trigger) == /\ exec' = Outputs(trigger)
                    /\ shamt' = Shamt(trigger)
                    /\ cycle' = Wrap(cycle + 1)

---------------------------------------------------------------------------
(* The bus: memory below, peripherals above, the latter one cycle later.   *)

Off == exec.n % 4
ReadsPeripheral == IsPeripheral(prev.addr) /\ prev.lanes = {}

\* What the processor may read in this cycle (memio.rdata).
Answers == IF ReadsPeripheral THEN Inputs ELSE {rdata}

\* One cycle of the bus, with the address and the lanes set by the processor in it.
Bus(address, lanes) ==
  LET wdata == Wrap(xb * Pow2[BYTE * Off])
      cell == address % Pow2[addrW - 1] IN
  /\ addr' = address
  /\ rdata' = ram[cell]
  /\ ram' = IF IsPeripheral(address) THEN ram
            ELSE [ram EXCEPT ![cell] = WordOf([k \in Lanes |->
                    IF k \in lanes THEN ByteOf(wdata, k) ELSE ByteOf(@, k)])]
  /\ prev' = [addr |-> address, lanes |-> lanes, wdata |-> wdata]
  /\ out' = IF IsPeripheral(prev.addr) /\ prev.lanes # {}
            THEN Append(out, <<prev.addr, [k \in prev.lanes |-> ByteOf(prev.wdata, k)]>>)
            ELSE out

---------------------------------------------------------------------------
(* The registers.                                                          *)

next_pc == (pc + 1) % Pow2[addrW]

\* loaded, from what is read in this cycle.
Loaded(w) ==
  LET aligned == w \div Pow2[BYTE * Off]
      bits == BYTE * Pow2[exec.op % 4]
      high == IF exec.op \div 4 = 0 /\ Bit(aligned, bits - 1) = 1
              THEN Pow2[XLEN] - Pow2[bits] ELSE 0 IN
  IF bits = XLEN THEN aligned ELSE high + (aligned % Pow2[bits])

write_back(w) == CASE exec.jump -> 4 * next_pc
                   [] exec.storeAddr -> exec.n % Pow2[addrW + 2]
                   [] exec.storeVal -> exec.val
                   [] exec.load -> Loaded(w)
                   [] exec.intop -> exec.r
                   [] OTHER -> 0

\* always_after: both banks write one register, or read those of the instruction in ins.
Registers(wenable, w, ins) ==
  LET x == IF wenable THEN exec.write_rd ELSE Decode[ins].rs1
      y == IF wenable THEN exec.write_rd ELSE Decode[ins].rs2 IN
  /\ xa' = xregs[x] /\ xb' = xregs[y]
  /\ xregs' = IF wenable THEN [xregs EXCEPT ![x] = write_back(w)] ELSE xregs

---------------------------------------------------------------------------
(* The algorithm of rv32i_cpu.                                             *)

\* data is now available
Fetch == /\ phase = "fetch" /\ retired < MAX_RETIRED
         /\ phase' = "read"
         /\ \E w \in Answers : instr' = w
         /\ pc' = addr
         /\ Registers(FALSE, 0, instr')
         /\ Bus(addr, {}) /\ Execute(FALSE)
         /\ UNCHANGED <<left, retired>>

\* The programs that are run: see the top of the module.
Legal ==
  LET n == Wrap((IF i.opcode \in {"AUIPC", "JAL", "branch"} THEN 4 * pc ELSE xa) + i.imm) IN
  /\ pc < CODE
  /\ i.opcode \in {"AUIPC", "load", "store"} => n < Pow2[addrW + 2]
  /\ i.opcode \in {"JAL", "JALR", "branch"} => n < 4 * CODE /\ n % 4 = 0
  /\ i.opcode = "branch" => i.op \notin {2, 3}
  /\ i.opcode = "load" => i.op \in {0, 1, 2, 4, 5}
  /\ i.opcode = "store" => i.op \in {0, 1, 2}
  /\ i.opcode \in {"load", "store"} => n % Pow2[i.op % 4] = 0

\* README.md: "load/store in 4 cycles, instructions in 3 cycles but for shifts which
\* additionally take one cycle per shifted bit".
Promised == IF i.opcode \in {"load", "store"} THEN 4
            ELSE IF aluShift THEN 3 + (b % XLEN)
            ELSE 3

\* wait for register read, trigger the ALU
Read == /\ phase = "read" /\ Legal
        /\ phase' = "exec"
        /\ Registers(FALSE, 0, instr)
        /\ Bus(addr, {}) /\ Execute(TRUE)
        /\ left' = Promised - 2
        /\ UNCHANGED <<instr, pc, retired>>

StoreLanes == IF exec.store
              THEN {k \in Lanes : k \in Off .. Off + Pow2[exec.op % 4] - 1}
              ELSE {}

\* load/store?
Access == /\ phase = "exec" /\ (exec.load \/ exec.store)
          /\ phase' = "wait"
          /\ Registers(FALSE, 0, instr)
          /\ Bus((exec.n \div 4) % Pow2[addrW], StoreLanes) /\ Execute(FALSE)
          /\ left' = left - 1
          /\ UNCHANGED <<instr, pc, retired>>

\* commit result, restore address to program counter
Transaction == /\ phase = "wait"
               /\ phase' = "fetch"
               /\ \E w \in Answers : Registers(~exec.no_rd, w, instr)
               /\ Bus(next_pc, {}) /\ Execute(FALSE)
               /\ left' = left - 1 /\ retired' = retired + 1
               /\ UNCHANGED <<instr, pc>>

\* commit result, ALU done?
Commit == /\ phase = "exec" /\ ~(exec.load \/ exec.store)
          /\ \E w \in Answers : Registers(~exec.no_rd, w, instr)
          /\ Bus(IF exec.jump THEN (exec.n \div 4) % Pow2[addrW] ELSE next_pc, {})
          /\ Execute(FALSE)
          /\ left' = left - 1
          /\ IF exec.working THEN UNCHANGED <<phase, retired>>
                             ELSE phase' = "fetch" /\ retired' = retired + 1
          /\ UNCHANGED <<instr, pc>>

Next == Fetch \/ Read \/ Access \/ Transaction \/ Commit

Spec == Init /\ [][Next]_vars

---------------------------------------------------------------------------
(***************************************************************************)
(* Properties.                                                             *)
(***************************************************************************)

TypeOK == /\ phase \in {"fetch", "read", "exec", "wait"}
          /\ {instr, xa, xb, cycle, rdata} \subseteq Word
          /\ {pc, addr, prev.addr} \subseteq 0 .. Pow2[addrW] - 1
          /\ xregs \in [Reg -> Word] /\ ram \in [Ram -> Word]
          /\ exec.r \in Word /\ exec.n \in Word /\ shamt \in 0 .. XLEN - 1

\* The cycles of every instruction are those README.md announces: no instruction is
\* shorter or longer, whatever the one before it left in the shifter.
Timed == left >= 0 /\ (phase = "fetch" => left = 0)

\* An instruction other than a load or a store is done when the ALU has been
\* triggered, although the register gets the bits of a shift one by one: what the
\* register will hold is known then.  A load or a store is done when the memory has
\* been accessed; a store to a peripheral arrives one cycle later.
Computing == phase = "exec" /\ ~(exec.load \/ exec.store)

AllBits(w, n) == LET bits[k \in 0 .. XLEN] == IF k = 0 THEN w ELSE OneBit(bits[k - 1])
                 IN  bits[n]

regsDone == IF ~Computing \/ exec.no_rd THEN xregs
            ELSE [xregs EXCEPT ![exec.write_rd] =
                    IF exec.working THEN AllBits(exec.r, shamt) ELSE write_back(0)]

pcDone == CASE phase = "fetch" -> addr
            [] Computing -> IF exec.jump THEN (exec.n \div 4) % Pow2[addrW] ELSE next_pc
            [] phase = "wait" /\ exec.store -> next_pc
            [] OTHER -> pc

outDone == IF IsPeripheral(prev.addr) /\ prev.lanes # {}
           THEN Append(out, <<prev.addr, [k \in prev.lanes |-> ByteOf(prev.wdata, k)]>>)
           ELSE out

RV == INSTANCE RiscV WITH mem <- ram, regs <- regsDone, pc <- pcDone, out <- outDone

\* IceV.md: "implements the RV32I specifications".  Every program sees one instruction
\* after the other: no partial result of a shift, no stale operand after a write in the
\* cycle before, no word fetched before a store to it, no store lost or done twice.
ImplementsRiscV == RV!Init(ram) /\ RV!Follows
============================================================================
