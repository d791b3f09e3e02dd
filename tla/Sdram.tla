------------------------------- MODULE Sdram -------------------------------
(***************************************************************************)
(* The arbiter above the SDRAM controller with auto-precharge (projects/   *)
(* common/sdram_controller_autoprecharge_r16_w16.si) and the chip.  The    *)
(* states of the controller are those the compiler makes of it: a state    *)
(* ends at each ++: and around each call and loop (FsmCompiler).           *)
(*                                                                         *)
(* The words are those of the simulated chip of the Verilator framework    *)
(* (frameworks/verilator/sdr_sdram.cpp), the delays those the Verilog      *)
(* model checks (projects/common/mt48lc16m16a2.v), in cycles of 10 ns.     *)
(***************************************************************************)
EXTENDS SdramArbiter, FiniteSetsExt

CONSTANTS Banks,            \* an address is a bank, a row and a column
          POWER_UP,         \* cycles to wait after power up (65535)
          REFRESH_FIRST,    \* refresh_count at power up (-1 on 10 bits)
          REFRESH_CYCLES,   \* refresh_cycles (750)
          REFRESH_WAIT,     \* refresh_wait (7)
          FORGETS           \* where the count of the cycles without refresh stops

\* An address is the concatenation of a bank, a row and a column.
ASSUME AddrAssumption ==
  \A a \in Addr : a.bank \in Banks /\ a = [bank |-> a.bank, row |-> a.row, col |-> a.col]

ASSUME NotACommand ==
  /\ None \notin {"READ", "WRITE"}
  /\ \A b \in Banks, a \in Addr : None # [bank |-> b, col |-> a.col]

\* refresh_wait is at least what the chip needs, with the cycles around it.
ASSUME RefreshAssumption == REFRESH_WAIT \in Nat /\ REFRESH_WAIT >= 7
ASSUME CountsAssumption == POWER_UP \in Nat /\ FORGETS \in Nat /\ FORGETS >= 7

VARIABLES pc,              \* the state of the controller
          count, ret,      \* of subroutine wait: count and who called it
          refresh_count,
          work_todo, req,  \* a request to do; bank, row, col, data and do_rw
          pins,            \* the reg_ registers: command, address, word, dq_en
          chip             \* the chip

controllerVars == <<pc, count, ret, refresh_count, work_todo, req, pins, ans>>
vars == <<userVars, arbiterVars, controllerVars, chip>>

Cells == {[bank |-> a.bank, row |-> a.row, col |-> a.col] : a \in Addr}
Rows == {a.row : a \in Addr}
Cols == {a.col : a \in Addr}

---------------------------------------------------------------------------
(* The chip.                                                               *)

\* At 10 ns a cycle.
tRP == 2
tRCD == 2
tRAS == 4
tRC == 6
tRFC == 7
tMRD == 2
tRRD == 2
tWRa == 1       \* 7 ns more before a precharge that follows a write
CAS == 3

\* pipe[n]: the read whose word comes out in n cycles; dq: the data bus, where a
\* word stays for a cycle;
\* closing[b]: the auto-precharge bank b is to start; precharged[b]: the cycles
\* until its precharge is complete; the others are ages, that stop growing at
\* the first value that no delay depends on.
ChipInit ==
  /\ chip \in [cells : [Addr -> Data], dq : {None}, pipe : {[n \in 1 .. CAS |-> None]},
               open : {[b \in Banks |-> TRUE]}, row : [Banks -> {None}],
               closing : [Banks -> {None}], precharged : [Banks -> {0}],
               active : [Banks -> {0}], mode : {0}, refresh : {0}]

Older(age, stop) == Min({age + 1, stop})

\* The commands of the pins.
Reads(b) == pins.cmd = "READ" /\ pins.bank = b
Writes(b) == pins.cmd = "WRITE" /\ pins.bank = b
Activates(b) == pins.cmd = "ACTIVE" /\ pins.bank = b

\* The auto-precharge of b starts in this cycle.
Closes(b) == chip.closing[b] # None /\ chip.active[b] >= tRAS

Cell(b, col) == [bank |-> b, row |-> chip.row[b], col |-> col]

\* The next edge of the clock: the word of the read that leaves the pipe is put
\* on the bus and the command of the pins is executed.
ChipNext ==
  [cells      |-> [c \in Addr |->
                     IF Writes(c.bank) /\ c = Cell(c.bank, pins.a) THEN pins.dq
                     ELSE chip.cells[c]],
   dq         |-> IF chip.pipe[1] = None THEN None
                  ELSE chip.cells[Cell(chip.pipe[1].bank, chip.pipe[1].col)],
   pipe       |-> [n \in 1 .. CAS |->
                     IF n < CAS THEN chip.pipe[n + 1]
                     ELSE IF pins.cmd = "READ" THEN [bank |-> pins.bank, col |-> pins.a]
                     ELSE None],
   open       |-> [b \in Banks |->
                     \/ Activates(b)
                     \/ chip.open[b] /\ pins.cmd # "PRECHARGE" /\ ~Closes(b)],
   row        |-> [b \in Banks |-> IF Activates(b) THEN pins.a ELSE chip.row[b]],
   closing    |-> [b \in Banks |->
                     IF Reads(b) \/ Writes(b) THEN pins.cmd
                     ELSE IF Closes(b) THEN None
                     ELSE chip.closing[b]],
   precharged |-> [b \in Banks |->
                     IF pins.cmd = "PRECHARGE" THEN tRP - 1
                     ELSE IF Closes(b)
                       THEN IF chip.closing[b] = "WRITE" THEN tRP + tWRa - 1 ELSE tRP - 1
                     ELSE Max({chip.precharged[b] - 1, 0})],
   active     |-> [b \in Banks |-> IF Activates(b) THEN 1 ELSE Older(chip.active[b], tRC)],
   mode       |-> IF pins.cmd = "LOAD_MODE_REG" THEN 1 ELSE Older(chip.mode, tMRD),
   refresh    |-> IF pins.cmd = "REFRESH" THEN 1 ELSE Older(chip.refresh, FORGETS)]

Chip == chip' = ChipNext

---------------------------------------------------------------------------
(* The controller.                                                         *)

ControllerInit ==
  /\ ans = Quiet
  /\ pc = "start"
  /\ count = 0
  /\ ret = None
  /\ refresh_count = REFRESH_FIRST
  /\ work_todo = FALSE
  /\ req = None
  /\ pins \in [cmd : {"NOP"}, bank : {None}, a : {None}, dq : {None}, en : {FALSE}]

\* The always block, before anything else: done and cmd are pulses, and a
\* request is copied.
Todo == work_todo \/ sd.valid
Copied == IF sd.valid THEN sd.req ELSE req

NotDone == ans' = Quiet
Nop == pins' = [pins EXCEPT !.cmd = "NOP"]
Goto(s) == pc' = s
\* mutant: in_valid is not tracked in this state.
KeepWorkOnly == work_todo' = work_todo
KeepWork == work_todo' = Todo
NoCall == UNCHANGED <<count, ret>>

\* Subroutine wait: count is set in its first state, decreased in the second,
\* that returns when it is 0.
Call(incount, back) ==
  /\ Goto("wait")
  /\ count' = incount
  /\ ret' = back

Start ==
  /\ pc = "start"
  /\ pins' = [pins EXCEPT !.cmd = "NOP", !.en = FALSE]
  /\ Call(POWER_UP, "precharge")
  /\ NotDone /\ KeepWork /\ UNCHANGED refresh_count

WaitEntry ==
  /\ pc = "wait"
  /\ Goto("loop")
  /\ Nop /\ NoCall /\ NotDone /\ KeepWork /\ UNCHANGED refresh_count

WaitLoop ==
  /\ pc = "loop"
  /\ IF count > 0
       THEN Goto("loop") /\ count' = count - 1
       ELSE Goto(ret) /\ UNCHANGED count
  /\ Nop /\ NotDone /\ KeepWork /\ UNCHANGED <<ret, refresh_count>>

\* precharge all
Precharge ==
  /\ pc = "precharge"
  /\ pins' = [pins EXCEPT !.cmd = "PRECHARGE"]
  /\ Call(0, "load_mode")
  /\ NotDone /\ KeepWork /\ UNCHANGED refresh_count

LoadMode ==
  /\ pc = "load_mode"
  /\ pins' = [pins EXCEPT !.cmd = "LOAD_MODE_REG"]
  /\ Goto("tMRD")
  /\ NoCall /\ NotDone /\ KeepWork /\ UNCHANGED refresh_count

\* mutant: a cycle too few before the word is taken.
FollowingOneLess == [tMRD |-> "head", tRCD |-> "access",
                     cas1 |-> "cas3", cas2 |-> "cas3", cas3 |-> "data",
                     tWR |-> "tRP1", tRP1 |-> "tRP2", tRP2 |-> "tRP3", tRP3 |-> "tRP4",
                     tRP4 |-> "head"]

\* The states that only wait a cycle.
Following == [tMRD |-> "head", tRCD |-> "access",
              cas1 |-> "cas2", cas2 |-> "cas3", cas3 |-> "data",
              tWR |-> "tRP1", tRP1 |-> "tRP2", tRP2 |-> "tRP3", tRP3 |-> "tRP4",
              tRP4 |-> "head"]

Pass ==
  /\ pc \in DOMAIN Following
  /\ Goto(Following[pc])
  /\ Nop /\ NoCall /\ NotDone /\ KeepWork /\ UNCHANGED refresh_count

Due == refresh_count = 0

\* mutant: a cycle too few.
RefreshDelayShort == REFRESH_WAIT - 5
RefreshDelay == REFRESH_WAIT - 4

\* The main loop: a refresh when it is time for one,
Refresh ==
  /\ pc = "head"
  /\ Due
  /\ pins' = [pins EXCEPT !.cmd = "REFRESH"]
  /\ Call(RefreshDelay, "refreshed")
  /\ NotDone /\ KeepWork /\ UNCHANGED refresh_count

Refreshed ==
  /\ pc = "refreshed"
  /\ refresh_count' = REFRESH_CYCLES
  /\ Goto("head")
  /\ Nop /\ NoCall /\ NotDone /\ KeepWork

\* mutant: the iterations that serve a request are not counted.
CountdownIdle == refresh_count' = IF Todo THEN refresh_count ELSE refresh_count - 1

\* else the pending request, its row first.
Countdown == refresh_count' = refresh_count - 1

Activate ==
  /\ pc = "head"
  /\ ~Due
  /\ Todo
  /\ Countdown
  /\ work_todo' = FALSE
  /\ pins' = [pins EXCEPT !.cmd = "ACTIVE", !.bank = Copied.addr.bank, !.a = Copied.addr.row]
  /\ Goto("tRCD")
  /\ NoCall /\ NotDone

Idle ==
  /\ pc = "head"
  /\ ~Due
  /\ ~Todo
  /\ Countdown
  /\ Goto("head")
  /\ Nop /\ NoCall /\ NotDone /\ KeepWork

\* The column and the word are those of the request copied last.
WriteWord ==
  /\ pc = "access"
  /\ ~IsRead(Copied)
  /\ pins' = [pins EXCEPT !.cmd = "WRITE", !.a = Copied.addr.col, !.dq = Copied.data,
                          !.en = TRUE]
  /\ ans' = [done |-> TRUE, data |-> None]
  /\ Goto("tWR")
  /\ NoCall /\ KeepWork /\ UNCHANGED refresh_count

ReadWord ==
  /\ pc = "access"
  /\ IsRead(Copied)
  /\ pins' = [pins EXCEPT !.cmd = "READ", !.a = Copied.addr.col, !.en = FALSE]
  /\ Goto("cas1")
  /\ NoCall /\ NotDone /\ KeepWork /\ UNCHANGED refresh_count

\* dq_i: the bus, or what the controller itself drives on it.
DataBus == IF pins.en THEN pins.dq ELSE chip'.dq

DataOut ==
  /\ pc = "data"
  /\ ans' = [done |-> TRUE, data |-> DataBus]
  /\ Goto("tRP1")
  /\ Nop /\ NoCall /\ KeepWork /\ UNCHANGED refresh_count

Controller ==
  /\ \/ Start \/ WaitEntry \/ WaitLoop \/ Precharge \/ LoadMode \/ Pass
     \/ Refresh \/ Refreshed \/ Activate \/ Idle \/ WriteWord \/ ReadWord \/ DataOut
  /\ req' = Copied

---------------------------------------------------------------------------
Init ==
  /\ ArbiterInit
  /\ ControllerInit
  /\ ChipInit

Next ==
  /\ UsersStep
  /\ Arbitrate
  /\ Chip
  /\ Controller

Spec == Init /\ [][Next]_vars

\* The clock ticks.
FairSpec == Spec /\ WF_vars(Next)

---------------------------------------------------------------------------
States == DOMAIN Following
            \cup {"start", "wait", "loop", "precharge", "load_mode", "head", "refreshed",
                  "access", "data"}

TypeOK ==
  /\ ArbiterTypeOK
  /\ pc \in States
  /\ count \in 0 .. Max({POWER_UP, REFRESH_WAIT})
  /\ ret \in States \cup {None}
  /\ refresh_count \in 0 .. Max({REFRESH_FIRST, REFRESH_CYCLES})
  /\ work_todo \in BOOLEAN
  /\ req \in Requests \cup {None}
  /\ pins.bank \in Banks \cup {None}
  /\ pins.a \in Rows \cup Cols \cup {None}
  /\ pins.dq \in Data \cup {None}
  /\ chip.cells \in [Addr -> Data]
  /\ chip.dq \in Data \cup {None}

\* The chip never gets a command before the delays of the previous ones have
\* elapsed, nor in a bank that is not in the state it needs: what the Verilog
\* model of the chip reports as errors.
TimingsKept ==
  LET resting == \A b \in Banks : ~chip.open[b] /\ chip.precharged[b] = 0
      ready == chip.refresh >= tRFC /\ chip.mode >= tMRD
  IN  CASE pins.cmd = "REFRESH" -> resting /\ ready
        [] pins.cmd = "LOAD_MODE_REG" -> resting /\ ready
        [] pins.cmd = "PRECHARGE" ->
             \A b \in Banks : chip.open[b] => chip.active[b] >= tRAS
        [] pins.cmd = "ACTIVE" ->
             /\ ready
             /\ ~chip.open[pins.bank]
             /\ chip.precharged[pins.bank] = 0
             /\ chip.active[pins.bank] >= tRC
             /\ \A b \in Banks \ {pins.bank} : chip.active[b] >= tRRD
        [] pins.cmd \in {"READ", "WRITE"} ->
             chip.open[pins.bank] /\ chip.active[pins.bank] >= tRCD
        [] OTHER -> TRUE

\* What a write still has to put in the chip is on the pins for one cycle.
memBar ==
  [c \in Addr |->
     IF Writes(c.bank) /\ c = Cell(c.bank, pins.a) THEN pins.dq ELSE chip.cells[c]]

\* A request is taken when it is copied and answered when done is raised.
todoBar ==
  IF work_todo \/ pc \in {"tRCD", "access", "cas1", "cas2", "cas3", "data"} THEN req ELSE None

Memory == INSTANCE SdramMemory WITH mem <- memBar, todo <- todoBar

\* The controller and the chip are the memory the users are promised: every
\* request is done once, in its own cell, and a read is answered with the word
\* of its cell, whatever the refreshes and the requests of the others do.
ImplementsMemory == Memory!Spec

\* The chip is refreshed again and again, whatever the load.
Refreshes == []<>(pins.cmd = "REFRESH")

\* "we count cycles in refresh_count and do this when the delay elapsed": the
\* chip does not wait for its refresh longer than refresh_cycles, the access
\* under way and the refresh itself.
RefreshedInTime == chip.refresh <= REFRESH_CYCLES + 20
=============================================================================
