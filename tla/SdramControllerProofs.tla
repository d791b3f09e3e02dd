------------------------ MODULE SdramControllerProofs ------------------------
(***************************************************************************)
(* The controller and its chip are the memory of SdramMemory, and the      *)
(* chip is never given a command too early: for every number of users and  *)
(* banks, every set of addresses and words, and every delay that respects  *)
(* the assumptions of Sdram.                                               *)
(*                                                                         *)
(* The argument: the state of the controller fixes the command on the pins *)
(* (ControlOK), the request served is the one the arbiter works on         *)
(* (OneRequest), its row is open and its read is in the pipe (OnItsWay),   *)
(* and the ages of every bank are known in every state (BanksOK, AgesOK).  *)
(***************************************************************************)
EXTENDS Sdram, TLAPS

---------------------------------------------------------------------------
\* What the arbiter gives the controller.
GivenOK ==
  /\ asks \in [Users -> Requests \cup {None}]
  /\ buffered \in [Users -> Requests \cup {None}]
  /\ working \in Users \cup {None}
  /\ sd \in [valid : BOOLEAN, req : Requests \cup {None}]
  /\ sd.valid => sd.req \in Requests
  /\ ans.done \in BOOLEAN

Serving == {"tRCD", "access", "cas1", "cas2", "cas3", "data"}
Reading == {"cas1", "cas2", "cas3", "data"}

\* The one request: given, copied, served, or answered.
OneRequest ==
  /\ work_todo \in BOOLEAN
  /\ sd.valid \/ work_todo \/ pc \in Serving \/ ans.done => working # None
  /\ sd.valid => ~work_todo /\ pc \notin Serving /\ ~ans.done
  /\ work_todo => pc \notin Serving
  /\ work_todo \/ pc \in Serving => req \in Requests /\ req = sd.req /\ ~ans.done

\* The command on the pins
Command ==
  CASE pc = "tRCD" -> "ACTIVE"
    [] pc = "cas1" -> "READ"
    [] pc = "tWR" -> "WRITE"
    [] pc = "tMRD" -> "LOAD_MODE_REG"
    [] pc = "wait" /\ ret = "load_mode" -> "PRECHARGE"
    [] pc = "wait" /\ ret = "refreshed" -> "REFRESH"
    [] OTHER -> "NOP"

ControlOK ==
  /\ pc \in States
  /\ pc \in {"wait", "loop"} => ret \in {"precharge", "load_mode", "refreshed"}
  /\ count \in Nat
  /\ pins \in [cmd : {Command}, bank : Banks \cup {None}, a : Rows \cup Cols \cup {None},
               dq : Data \cup {None}, en : BOOLEAN]

\* The row of the request is open, its read is on its way
Target == [bank |-> req.addr.bank, col |-> req.addr.col]
OnItsWay ==
  /\ pc \in Serving => pins.bank = req.addr.bank
  /\ pc = "tWR" => pins.bank \in Banks
  /\ pc = "tRCD" => pins.a = req.addr.row
  /\ pc \in Serving \ {"tRCD"} => chip.row[req.addr.bank] = req.addr.row
  /\ pc \in Reading => IsRead(req) /\ ~pins.en
  /\ pc = "cas1" => pins.a = req.addr.col
  /\ pc = "cas2" => chip.pipe[3] = Target
  /\ pc = "cas3" => chip.pipe[2] = Target
  /\ pc = "data" => chip.pipe[1] = Target

\* A bank: open, what it is closed for, cycles to the end of its precharge, age.
Bank(b, open, closing, precharged, active) ==
  /\ chip.open[b] = open /\ chip.closing[b] = closing
  /\ chip.precharged[b] = precharged /\ chip.active[b] = active

Rested(b) == Bank(b, FALSE, None, 0, tRC)

Written(b) ==
  CASE pc = "tRP1" -> Bank(b, TRUE, "WRITE", 0, 3)
    [] pc = "tRP2" -> Bank(b, TRUE, "WRITE", 0, 4)
    [] pc = "tRP3" -> Bank(b, FALSE, None, 2, 5)
    [] pc = "tRP4" -> Bank(b, FALSE, None, 1, 6)
    [] OTHER -> FALSE

Used(b) ==
  CASE pc = "access" -> Bank(b, TRUE, None, 0, 1)
    [] pc \in {"cas1", "tWR"} -> Bank(b, TRUE, None, 0, 2)
    [] pc = "cas2" -> Bank(b, TRUE, "READ", 0, 3)
    [] pc = "cas3" -> Bank(b, TRUE, "READ", 0, 4)
    [] pc = "data" -> Bank(b, FALSE, None, 1, 5)
    [] OTHER -> Rested(b) \/ Written(b)

Starting == {"start", "precharge", "load_mode"}
\* Until the mode is loaded.
PoweringUp == pc \in Starting \/ (pc \in {"wait", "loop"} /\ ret \in {"precharge", "load_mode"})

\* The cycles since power up, at least.
Age == CASE pc = "start" -> 0
         [] pc = "wait" /\ ret = "precharge" -> 1
         [] pc = "loop" /\ ret = "precharge" -> 2
         [] pc = "precharge" -> 3
         [] pc = "wait" /\ ret = "load_mode" -> 4
         [] pc = "loop" /\ ret = "load_mode" -> 5
         [] OTHER -> 6

BankOK(b) ==
  /\ chip.open[b] \in BOOLEAN /\ chip.precharged[b] \in Nat /\ chip.active[b] \in 0 .. tRC
  /\ PoweringUp => /\ chip.closing[b] = None
                   /\ chip.active[b] >= Age
                   /\ pc = "loop" /\ ret = "load_mode" => ~chip.open[b] /\ chip.precharged[b] <= 1
                   /\ pc = "load_mode" => ~chip.open[b] /\ chip.precharged[b] = 0
  /\ ~PoweringUp => IF b = pins.bank THEN Used(b) ELSE Rested(b)

BanksOK == \A b \in Banks : BankOK(b)

\* The cycles since the mode was loaded and since the last refresh.
AgesOK ==
  /\ chip.mode \in Nat /\ chip.refresh \in Nat
  /\ PoweringUp => chip.mode >= (IF Age < tMRD THEN Age ELSE tMRD) /\ chip.refresh >= Age
  /\ ~PoweringUp => chip.mode >= (IF pc = "head" THEN 1 ELSE tMRD)
  /\ pc = "wait" /\ ret = "refreshed" => count >= tRFC - 4
  /\ ~PoweringUp =>
       chip.refresh >= CASE pc = "loop" -> tRFC - 3 - count
                         [] pc = "refreshed" -> tRFC - 2
                         [] pc = "head" -> tRFC - 1
                         [] OTHER -> tRFC

\* The least of two numbers.
LEMMA MinPair ==
  ASSUME NEW x \in Int, NEW y \in Int
  PROVE  Min({x, y}) = IF x =< y THEN x ELSE y
<1>1. \E z \in {x, y} : \A w \in {x, y} : z =< w
  OBVIOUS
<1>2. Min({x, y}) \in {x, y} /\ \A w \in {x, y} : Min({x, y}) =< w
  BY <1>1, Zenon DEF Min
<1> QED
  BY <1>2

\* The greatest of two numbers.
LEMMA MaxPair ==
  ASSUME NEW x \in Int, NEW y \in Int
  PROVE  Max({x, y}) = IF x >= y THEN x ELSE y
<1>1. \E z \in {x, y} : \A w \in {x, y} : z >= w
  OBVIOUS
<1>2. Max({x, y}) \in {x, y} /\ \A w \in {x, y} : Max({x, y}) >= w
  BY <1>1, Zenon DEF Max
<1> QED
  BY <1>2

\* An age grows until it stops.
LEMMA OlderIs ==
  ASSUME NEW age \in Int, NEW stop \in Int
  PROVE  Older(age, stop) = IF age + 1 =< stop THEN age + 1 ELSE stop
  BY MinPair DEF Older

\* What an edge of the clock does to a bank.
LEMMA BankStep ==
  ASSUME Chip, NEW b \in Banks
  PROVE  /\ chip'.open[b] = (Activates(b) \/ (chip.open[b] /\ pins.cmd # "PRECHARGE" /\ ~Closes(b)))
         /\ chip'.row[b] = IF Activates(b) THEN pins.a ELSE chip.row[b]
         /\ chip'.closing[b] = IF Reads(b) \/ Writes(b) THEN pins.cmd
                               ELSE IF Closes(b) THEN None ELSE chip.closing[b]
         /\ chip'.precharged[b] =
              IF pins.cmd = "PRECHARGE" THEN tRP - 1
              ELSE IF Closes(b)
                THEN IF chip.closing[b] = "WRITE" THEN tRP + tWRa - 1 ELSE tRP - 1
              ELSE Max({chip.precharged[b] - 1, 0})
         /\ chip'.active[b] = IF Activates(b) THEN 1 ELSE Older(chip.active[b], tRC)
  BY DEF Chip, ChipNext

USE NoneAssumption, NotARequest, NotACommand

\* What an edge of the clock does to the words of the chip: the write on the pins.
LEMMA CellsStep ==
  ASSUME Chip
  PROVE  chip'.cells = memBar
  BY DEF Chip, ChipNext, memBar

\* The arbiter gives one request at a time, and keeps it until done.
LEMMA ArbiterStep ==
  ASSUME GivenOK, OneRequest, UsersStep, Arbitrate
  PROVE  /\ asks' \in [Users -> Requests \cup {None}]
         /\ buffered' \in [Users -> Requests \cup {None}]
         /\ working' \in Users \cup {None}
         /\ sd' \in [valid : BOOLEAN, req : Requests \cup {None}]
         /\ sd'.valid => working = None /\ working' # None /\ sd'.req \in Requests
         /\ working # None => /\ ~sd'.valid /\ sd'.req = sd.req
                              /\ working' = IF ans.done THEN None ELSE working
<1>0. \A i \in Users : Latched(i) \in Requests \cup {None}
  BY DEF GivenOK, Latched
<1>1. asks' \in [Users -> Requests \cup {None}]
  BY DEF UsersStep
<1>2. CASE Finish
  BY <1>0, <1>1, <1>2 DEF Finish, GivenOK
<1>3. CASE Hold
  BY <1>0, <1>1, <1>3 DEF Hold, Buffer, GivenOK
<1>4. CASE Grant
  <2>1. PICK i \in Hot : sd' = [valid |-> TRUE, req |-> Latched(i)] /\ working' = i
    BY <1>4 DEF Grant
  <2>2. i \in Users /\ Latched(i) # None /\ i # None
    BY <2>1 DEF Hot, Latched, Users
  <2> QED
    BY <1>0, <1>1, <1>4, <2>1, <2>2 DEF Grant, Buffer, GivenOK
<1>5. CASE Rest
  BY <1>0, <1>1, <1>5 DEF Rest, Buffer, GivenOK
<1> QED
  BY <1>2, <1>3, <1>4, <1>5 DEF Arbitrate

\* What a cycle of the controller does to its request.
Keeps == pc \notin Serving /\ pc' \notin Serving /\ work_todo' = Todo /\ ans' = Quiet
Takes == pc \notin Serving /\ Todo /\ pc' = "tRCD" /\ work_todo' = FALSE /\ ans' = Quiet
Works == pc \in Serving /\ pc' \in Serving /\ work_todo' = Todo /\ ans' = Quiet
Ends == pc \in Serving /\ pc' \notin Serving /\ work_todo' = Todo /\ ans'.done = TRUE

\* A cycle keeps, takes, works on or ends the request.
LEMMA ControllerStep ==
  ASSUME ControlOK, Controller
  PROVE  Keeps \/ Takes \/ Works \/ Ends
<1> USE DEF Keeps, Takes, Works, Ends, Serving, KeepWork, NotDone, Quiet
<1>1. CASE Start \/ WaitEntry \/ WaitLoop \/ Precharge \/ LoadMode
  BY <1>1 DEF Start, WaitEntry, WaitLoop, Precharge, LoadMode, Goto, Call, ControlOK, Controller
<1>2. CASE Pass
  BY <1>2 DEF Pass, Following, Goto, Controller
<1>3. CASE Refresh \/ Refreshed \/ Idle
  BY <1>3 DEF Refresh, Refreshed, Idle, Goto, Call, Controller
<1>4. CASE Activate
  BY <1>4 DEF Activate, Goto, Controller
<1>5. CASE WriteWord \/ ReadWord \/ DataOut
  BY <1>5 DEF WriteWord, ReadWord, DataOut, Goto, Controller
<1> QED
  BY <1>1, <1>2, <1>3, <1>4, <1>5 DEF Controller

\* The one request stays one.
LEMMA OneRequestStep ==
  ASSUME GivenOK, OneRequest, ControlOK, UsersStep, Arbitrate, Controller
  PROVE  GivenOK' /\ OneRequest'
<1>1. Keeps \/ Takes \/ Works \/ Ends
  BY ControllerStep
<1>2. /\ working' \in Users \cup {None}
      /\ sd' \in [valid : BOOLEAN, req : Requests \cup {None}]
      /\ sd'.valid => working = None /\ working' # None /\ sd'.req \in Requests
      /\ working # None => /\ ~sd'.valid /\ sd'.req = sd.req
                           /\ working' = IF ans.done THEN None ELSE working
  BY ArbiterStep
<1>3. ans'.done \in BOOLEAN /\ work_todo' \in BOOLEAN
  <2>1. ans'.done = TRUE \/ ans'.done = FALSE
    BY <1>1 DEF Keeps, Takes, Works, Ends, Quiet
  <2>2. work_todo' \in BOOLEAN
    BY <1>1, Zenon DEF Keeps, Takes, Works, Ends, Todo
  <2> QED
    BY <2>1, <2>2
<1>4. GivenOK'
  BY <1>3, ArbiterStep DEF GivenOK
<1>5. req' = IF sd.valid THEN sd.req ELSE req
  BY DEF Controller, Copied
<1>6. OneRequest'
  <2>1. CASE Keeps
    <3>1. /\ pc \notin Serving /\ pc' \notin Serving /\ ~ans'.done
          /\ work_todo' <=> work_todo \/ sd.valid
      BY <2>1 DEF Keeps, Quiet, Todo
    <3> QED
      BY <1>2, <1>3, <1>5, <3>1 DEF OneRequest, GivenOK
  <2>2. CASE Takes
    BY <1>2, <1>3, <1>5, <2>2 DEF Takes, Quiet, OneRequest, GivenOK, Todo, Serving
  <2>3. CASE Works
    BY <1>2, <1>3, <1>5, <2>3 DEF Works, Quiet, OneRequest, GivenOK, Todo
  <2>4. CASE Ends
    BY <1>2, <1>3, <1>5, <2>4 DEF Ends, OneRequest, GivenOK, Todo
  <2> QED
    BY <1>1, <2>1, <2>2, <2>3, <2>4
<1> QED
  BY <1>4, <1>6

\* A request to serve is one of the users.
LEMMA CopiedIs ==
  ASSUME GivenOK, OneRequest, Todo \/ pc \in Serving
  PROVE  /\ Copied \in Requests
         /\ Copied.addr \in Addr /\ Copied.addr.bank \in Banks
         /\ Copied.addr.row \in Rows /\ Copied.addr.col \in Cols
         /\ Copied.data \in Data \cup {None}
<1>1. Copied \in Requests
  BY DEF GivenOK, OneRequest, Todo, Copied
<1>2. Copied.addr \in Addr /\ Copied.data \in Data \cup {None}
  BY <1>1 DEF Requests
<1> QED
  BY <1>1, <1>2, AddrAssumption DEF Rows, Cols

\* One step per action: the command it puts on the pins is that of the next state.
LEMMA ControlStep ==
  ASSUME GivenOK, OneRequest, ControlOK, Controller
  PROVE  ControlOK'
<1> USE DEF Goto, Call, NoCall, Nop, States, Following
<1>0. /\ pc \in States /\ count \in Nat
      /\ pins \in [cmd : {Command}, bank : Banks \cup {None}, a : Rows \cup Cols \cup {None},
                   dq : Data \cup {None}, en : BOOLEAN]
      /\ pc \in {"wait", "loop"} => ret \in {"precharge", "load_mode", "refreshed"}
  BY DEF ControlOK
<1> DEFINE OK(cmd, next) ==
      /\ pins' \in [cmd : {cmd}, bank : Banks \cup {None}, a : Rows \cup Cols \cup {None},
                    dq : Data \cup {None}, en : BOOLEAN]
      /\ pc' = next
<1>1. CASE Start
  <2>1. OK("NOP", "wait") /\ ret' = "precharge" /\ count' \in Nat
    BY <1>0, <1>1, CountsAssumption DEF Start
  <2> QED
    BY <2>1 DEF ControlOK, Command
<1>2. CASE WaitEntry
  <2>1. OK("NOP", "loop") /\ ret' = ret /\ count' = count
    BY <1>0, <1>2 DEF WaitEntry
  <2> QED
    BY <1>0, <1>2, <2>1 DEF ControlOK, Command, WaitEntry
<1>3. CASE WaitLoop
  <2>1. OK("NOP", IF count > 0 THEN "loop" ELSE ret) /\ ret' = ret /\ count' \in Nat
    BY <1>0, <1>3 DEF WaitLoop
  <2> QED
    BY <1>0, <1>3, <2>1 DEF ControlOK, Command, WaitLoop
<1>4. CASE Precharge
  <2>1. OK("PRECHARGE", "wait") /\ ret' = "load_mode" /\ count' \in Nat
    BY <1>0, <1>4 DEF Precharge
  <2> QED
    BY <2>1 DEF ControlOK, Command
<1>5. CASE LoadMode
  <2>1. OK("LOAD_MODE_REG", "tMRD") /\ count' = count
    BY <1>0, <1>5 DEF LoadMode
  <2> QED
    BY <1>0, <2>1 DEF ControlOK, Command
<1>6. CASE Pass
  <2>1. OK("NOP", Following[pc]) /\ count' = count
    BY <1>0, <1>6 DEF Pass
  <2> QED
    BY <1>0, <1>6, <2>1 DEF ControlOK, Command, Pass
<1>7. CASE Refresh
  <2>1. OK("REFRESH", "wait") /\ ret' = "refreshed" /\ count' \in Nat
    BY <1>0, <1>7, RefreshAssumption DEF Refresh, RefreshDelay
  <2> QED
    BY <2>1 DEF ControlOK, Command
<1>8. CASE Refreshed \/ Idle
  <2>1. OK("NOP", "head") /\ count' = count
    BY <1>0, <1>8 DEF Refreshed, Idle
  <2> QED
    BY <1>0, <2>1 DEF ControlOK, Command
<1>9. CASE Activate
  <2>1. OK("ACTIVE", "tRCD") /\ count' = count
    BY <1>0, <1>9, CopiedIs DEF Activate
  <2> QED
    BY <1>0, <2>1 DEF ControlOK, Command
<1>10. CASE WriteWord
  <2>1. OK("WRITE", "tWR") /\ count' = count
    BY <1>0, <1>10, CopiedIs DEF WriteWord, Serving
  <2> QED
    BY <1>0, <2>1 DEF ControlOK, Command
<1>11. CASE ReadWord
  <2>1. OK("READ", "cas1") /\ count' = count
    BY <1>0, <1>11, CopiedIs DEF ReadWord, Serving
  <2> QED
    BY <1>0, <2>1 DEF ControlOK, Command
<1>12. CASE DataOut
  <2>1. OK("NOP", "tRP1") /\ count' = count
    BY <1>0, <1>12 DEF DataOut
  <2> QED
    BY <1>0, <2>1 DEF ControlOK, Command
<1> QED
  BY <1>1, <1>2, <1>3, <1>4, <1>5, <1>6, <1>7, <1>8, <1>9, <1>10, <1>11, <1>12 DEF Controller

\* The pipe of the reads.
LEMMA PipeStep ==
  ASSUME Chip
  PROVE  /\ chip'.pipe[1] = chip.pipe[2]
         /\ chip'.pipe[2] = chip.pipe[3]
         /\ pins.cmd = "READ" => chip'.pipe[3] = [bank |-> pins.bank, col |-> pins.a]
         /\ chip'.dq = IF chip.pipe[1] = None THEN None
                       ELSE chip.cells[Cell(chip.pipe[1].bank, chip.pipe[1].col)]
  BY DEF Chip, ChipNext, CAS

\* The row of a request is opened, and its read goes through the pipe.
LEMMA OnItsWayStep ==
  ASSUME GivenOK, OneRequest, ControlOK, OnItsWay, Chip, Controller
  PROVE  OnItsWay'
<1> USE DEF Goto, NoCall, Nop, Serving, Reading
<1>0. /\ pins \in [cmd : {Command}, bank : Banks \cup {None}, a : Rows \cup Cols \cup {None},
                   dq : Data \cup {None}, en : BOOLEAN]
      /\ pins.cmd = Command
  BY DEF ControlOK
<1>1. req' = Copied
  BY DEF Controller
<1>2. pc \in Serving => Copied = req /\ req.addr.bank \in Banks
  BY CopiedIs DEF OneRequest, Copied, GivenOK
<1>3. CASE pc' \notin Serving /\ pc' # "tWR"
  BY <1>3 DEF OnItsWay
<1>9. CASE WriteWord
  <2>1. pc' = "tWR" /\ pins'.bank = pins.bank /\ pins.bank \in Banks
    BY <1>0, <1>2, <1>9 DEF WriteWord, OnItsWay
  <2> QED
    BY <2>1 DEF OnItsWay
<1>4. CASE Activate
  <2>1. /\ pc' = "tRCD"
        /\ pins'.bank = Copied.addr.bank /\ pins'.a = Copied.addr.row
    BY <1>0, <1>4 DEF Activate
  <2> QED
    BY <1>1, <2>1 DEF OnItsWay
<1>5. CASE pc = "tRCD" /\ Pass
  <2>1. pc' = "access" /\ pins'.bank = req.addr.bank /\ pins.cmd = "ACTIVE"
    BY <1>0, <1>5 DEF Pass, Following, OnItsWay, Command
  <2>2. chip'.row[req.addr.bank] = req.addr.row
    BY <1>2, <1>5, <2>1, BankStep DEF OnItsWay, Activates
  <2> QED
    BY <1>1, <1>2, <1>5, <2>1, <2>2 DEF OnItsWay
<1>6. ASSUME pc \in Serving \ {"tRCD"}
      PROVE  chip'.row[req.addr.bank] = req.addr.row
  BY <1>0, <1>2, <1>6, BankStep DEF OnItsWay, Activates, Command
<1>7. CASE ReadWord
  <2>1. pc' = "cas1" /\ pins'.bank = req.addr.bank /\ pins'.a = req.addr.col /\ ~pins'.en
    BY <1>0, <1>2, <1>7 DEF ReadWord, OnItsWay
  <2> QED
    BY <1>1, <1>2, <1>6, <1>7, <2>1 DEF OnItsWay, ReadWord
<1>8. CASE pc \in {"cas1", "cas2", "cas3"} /\ Pass
  <2>1. pc' = Following[pc] /\ pins'.bank = pins.bank /\ pins'.en = pins.en
    BY <1>0, <1>8 DEF Pass
  <2>2. pc = "cas1" => pins.cmd = "READ"
    BY <1>0 DEF Command
  <2> QED
    BY <1>1, <1>2, <1>6, <1>8, <2>1, <2>2, PipeStep DEF OnItsWay, Following, Target
<1> QED
  BY <1>3, <1>4, <1>5, <1>7, <1>8, <1>9
     DEF Controller, Start, WaitEntry, WaitLoop, Precharge, LoadMode, Pass, Following, Refresh,
         Refreshed, Idle, WriteWord, DataOut, Call, ControlOK

\* A write on the pins is a write of the memory.
LEMMA MemStep ==
  ASSUME GivenOK, OneRequest, ControlOK, OnItsWay, Chip, Controller
  PROVE  IF WriteWord THEN memBar' = [memBar EXCEPT ![req.addr] = req.data]
                      ELSE memBar' = memBar
<1>0. chip'.cells = memBar
  BY CellsStep
<1>1. memBar' = [c \in Addr |->
                   IF Writes(c.bank)' /\ c = Cell(c.bank, pins.a)' THEN pins'.dq ELSE memBar[c]]
  BY <1>0 DEF memBar
<1>2. memBar = [c \in Addr |-> memBar[c]]
  BY DEF memBar
<1>3. ControlOK'
  BY ControlStep
<1>4. CASE WriteWord
  <2>1. Copied = req /\ req.addr \in Addr /\ req.addr.bank \in Banks
    BY <1>4, CopiedIs DEF WriteWord, Serving, OneRequest, Copied, GivenOK
  <2>2. /\ pins'.cmd = "WRITE" /\ pins'.bank = req.addr.bank
        /\ pins'.a = req.addr.col /\ pins'.dq = req.data
    BY <1>4, <2>1 DEF WriteWord, ControlOK, OnItsWay, Serving
  <2>3. chip'.row[req.addr.bank] = req.addr.row
    BY <1>4, <2>1, BankStep DEF WriteWord, OnItsWay, Serving, Activates, ControlOK, Command
  <2>4. \A c \in Addr : (Writes(c.bank)' /\ c = Cell(c.bank, pins.a)') <=> c = req.addr
    <3> TAKE c \in Addr
    <3>1. Writes(c.bank)' <=> c.bank = req.addr.bank
      BY <2>2 DEF Writes
    <3>2. c.bank = req.addr.bank => Cell(c.bank, pins.a)' = req.addr
      BY <2>1, <2>2, <2>3, AddrAssumption DEF Cell
    <3> QED
      BY <3>1, <3>2
  <2>5. memBar' = [c \in Addr |-> IF c = req.addr THEN req.data ELSE memBar[c]]
    BY <1>1, <2>2, <2>4
  <2> QED
    BY <1>2, <1>4, <2>1, <2>5
<1>5. CASE ~WriteWord
  <2>1. pc' # "tWR"
    BY <1>5 DEF Controller, Start, WaitEntry, WaitLoop, Precharge, LoadMode, Pass, Following,
         Refresh, Refreshed, Activate, Idle, ReadWord, DataOut, Goto, Call, ControlOK
  <2>2. pins'.cmd # "WRITE"
    BY <1>3, <2>1 DEF ControlOK, Command
  <2>3. \A c \in Addr : ~Writes(c.bank)'
    BY <2>2 DEF Writes
  <2> QED
    BY <1>1, <1>2, <1>5, <2>3
<1> QED
  BY <1>4, <1>5

\* The word that comes out of the chip is that of the cell that was asked for.
LEMMA WordRead ==
  ASSUME GivenOK, OneRequest, ControlOK, OnItsWay, Chip, DataOut
  PROVE  IsRead(req) /\ DataBus = memBar[req.addr]
<1>0. pc = "data" /\ pins.cmd = "NOP"
  BY DEF DataOut, ControlOK, Command
<1>1. req.addr \in Addr /\ req.addr.bank \in Banks /\ Copied = req
  BY <1>0, CopiedIs DEF Serving, OneRequest, Copied, GivenOK
<1>2. /\ IsRead(req) /\ ~pins.en
      /\ chip.pipe[1] = [bank |-> req.addr.bank, col |-> req.addr.col]
      /\ chip.row[req.addr.bank] = req.addr.row
  BY <1>0 DEF OnItsWay, Serving, Reading, Target
<1>3. Cell(req.addr.bank, req.addr.col) = req.addr
  BY <1>1, <1>2, AddrAssumption DEF Cell
<1>4. chip'.dq = chip.cells[req.addr]
  BY <1>1, <1>2, <1>3, PipeStep
<1>5. memBar[req.addr] = chip.cells[req.addr]
  BY <1>0, <1>1 DEF memBar, Writes
<1> QED
  BY <1>2, <1>4, <1>5 DEF DataBus

Inv == GivenOK /\ OneRequest /\ ControlOK /\ OnItsWay

\* Initially, no request.
LEMMA InitInv == Init => Inv
<1> SUFFICES ASSUME Init PROVE Inv
  OBVIOUS
<1> USE DEF Init, ArbiterInit, ControllerInit, ChipInit
<1>1. GivenOK
  BY DEF GivenOK, Quiet
<1>2. OneRequest
  <2>1. ~sd.valid /\ ~ans.done /\ work_todo = FALSE /\ pc \notin Serving
    BY DEF Quiet, Serving
  <2> QED
    BY <2>1 DEF OneRequest
<1>3. ControlOK
  BY DEF ControlOK, Command, States
<1>4. OnItsWay
  BY DEF OnItsWay, Serving, Reading
<1> QED
  BY <1>1, <1>2, <1>3, <1>4 DEF Inv

\* Every cycle keeps it.
LEMMA StepInv == Inv /\ [Next]_vars => Inv'
<1>1. ASSUME Inv, Next PROVE Inv'
  BY <1>1, OneRequestStep, ControlStep, OnItsWayStep DEF Inv, Next
<1>2. ASSUME Inv, UNCHANGED vars PROVE Inv'
  <2>1. UNCHANGED <<asks, waiting, answers, buffered, working, sd, pc, count, ret, work_todo, req,
                    pins, ans, chip>>
    BY <1>2 DEF vars, userVars, arbiterVars, controllerVars
  <2>2. GivenOK'
    BY <1>2, <2>1 DEF Inv, GivenOK
  <2>3. OneRequest'
    BY <1>2, <2>1 DEF Inv, OneRequest
  <2>4. ControlOK'
    BY <1>2, <2>1 DEF Inv, ControlOK, Command
  <2>5. OnItsWay'
    BY <1>2, <2>1 DEF Inv, OnItsWay, IsRead, Target
  <2> QED
    BY <2>2, <2>3, <2>4, <2>5 DEF Inv
<1> QED
  BY <1>1, <1>2

\* The request of the memory.
LEMMA TodoIs ==
  ASSUME Inv
  PROVE  todoBar = IF work_todo \/ pc \in Serving THEN req ELSE None
  BY DEF todoBar, Serving

\* A cycle of the controller and of the chip is a cycle of the memory.
LEMMA NextRefines == Inv /\ Next => Memory!Next
<1> SUFFICES ASSUME Inv, Next PROVE Memory!Next
  OBVIOUS
<1> USE DEF Next, Inv
<1>1. Memory!UsersStep
  BY DEF UsersStep, Memory!UsersStep, Memory!Users, Users, Memory!Requests, Requests,
         Memory!Free, Free
<1>2. Memory!Arbitrate
  BY DEF Arbitrate, Memory!Arbitrate, Finish, Memory!Finish, Hold, Memory!Hold, Grant,
         Memory!Grant, Rest, Memory!Rest, Buffer, Memory!Buffer, Hot, Memory!Hot,
         Latched, Memory!Latched, Users, Memory!Users, Quiet, Memory!Quiet,
         IsRead, Memory!IsRead
<1>3. /\ req' = IF sd.valid THEN sd.req ELSE req
      /\ todoBar = IF work_todo \/ pc \in Serving THEN req ELSE None
      /\ todoBar' = IF work_todo' \/ pc' \in Serving THEN req' ELSE None
      /\ Inv'
  BY TodoIs, StepInv DEF Controller, Copied, todoBar, Serving
<1>4. CASE Keeps \/ Works \/ Takes
  <2>1. ~WriteWord /\ ans' = Quiet
    BY <1>4 DEF Keeps, Works, Takes, WriteWord, Quiet, Serving, Goto
  <2>2. memBar' = memBar
    BY <2>1, MemStep
  <2>3. todoBar' = IF sd.valid THEN sd.req ELSE todoBar
    <3>1. (work_todo' \/ pc' \in Serving) <=> (work_todo \/ pc \in Serving \/ sd.valid)
      <4>1. CASE Keeps \/ Works
        <5>1. work_todo' <=> work_todo \/ sd.valid
          BY <4>1 DEF Keeps, Works, Todo
        <5> QED
          BY <4>1, <5>1 DEF Keeps, Works
      <4>2. CASE Takes
        BY <4>2 DEF Takes, Todo, Serving
      <4> QED
        BY <1>4, <4>1, <4>2
    <3> QED
      BY <1>3, <3>1
  <2>4. Memory!Work
    BY <2>1, <2>2, <2>3 DEF Memory!Work, Quiet, Memory!Quiet
  <2> QED
    BY <1>1, <1>2, <2>4 DEF Memory!Next
<1>5. CASE Ends
  <2>1. /\ pc \in Serving /\ ~sd.valid /\ todoBar = req /\ req \in Requests
        /\ Copied = req
    BY <1>3, <1>5 DEF Ends, OneRequest, GivenOK, Copied
  <2>2. todoBar' = Memory!Taken
    BY <1>3, <1>5, <2>1 DEF Ends, OneRequest, Memory!Taken, Todo
  <2>3. CASE WriteWord
    BY <1>1, <1>2, <2>1, <2>2, <2>3, MemStep
       DEF WriteWord, Memory!Next, Memory!Write, Memory!IsRead, IsRead
  <2>4. CASE DataOut
    <3>1. ans' = [done |-> TRUE, data |-> memBar[req.addr]] /\ IsRead(req)
      BY <2>4, WordRead DEF DataOut
    <3>2. memBar' = memBar
      BY <2>4, MemStep DEF DataOut, WriteWord
    <3> QED
      BY <1>1, <1>2, <2>1, <2>2, <3>1, <3>2 DEF Memory!Next, Memory!Read, Memory!IsRead, IsRead
  <2>5. WriteWord \/ DataOut
    BY <1>5 DEF Ends, Serving, Controller, Start, WaitEntry, WaitLoop, Precharge, LoadMode,
                Pass, Following, Refresh, Refreshed, Activate, Idle, ReadWord, Goto, Call
  <2> QED
    BY <2>3, <2>4, <2>5
<1> QED
  BY <1>4, <1>5, ControllerStep

\* The same, or nothing changes.
LEMMA StepRefines == Inv /\ [Next]_vars => [Memory!Next]_Memory!vars
<1>1. UNCHANGED vars => UNCHANGED Memory!vars
  BY DEF vars, userVars, arbiterVars, controllerVars, Memory!vars, memBar, todoBar, Writes, Cell
<1> QED
  BY <1>1, NextRefines

\* A memory that holds words, with nothing to do.
LEMMA InitRefines == Init => Memory!Init
<1> SUFFICES ASSUME Init PROVE Memory!Init
  OBVIOUS
<1>1. memBar \in [Addr -> Data]
  <2>1. chip.cells \in [Addr -> Data] /\ pins.cmd = "NOP"
    BY DEF Init, ChipInit, ControllerInit
  <2>2. memBar = [c \in Addr |-> chip.cells[c]]
    BY <2>1 DEF memBar, Writes
  <2> QED
    BY <2>1, <2>2
<1>2. todoBar = None
  BY DEF Init, ControllerInit, todoBar
<1> QED
  BY <1>1, <1>2 DEF Init, ArbiterInit, Memory!Init, Memory!ArbiterInit, Users, Memory!Users,
                    Quiet, Memory!Quiet

\* The controller and the chip are the memory the users are promised.
THEOREM Implements == Spec => ImplementsMemory
  BY InitRefines, InitInv, StepInv, StepRefines, PTL DEF Spec, ImplementsMemory, Memory!Spec

---------------------------------------------------------------------------
(* What the users see. *)

\* Where the one request given to the memory is: in_valid is raised for it,
\* or it is being done, or done is raised for it.
AtMemory ==
  /\ working = None => ~sd.valid /\ todoBar = None /\ ~ans.done
  /\ sd.valid => todoBar = None /\ ~ans.done
  /\ todoBar # None => todoBar = sd.req /\ ~ans.done

\* When done is raised, the memory has done what it was asked.
Done ==
  ans.done =>
    IF IsRead(sd.req) THEN ans.data = memBar[sd.req.addr] ELSE memBar[sd.req.addr] = sd.req.data

\* The types of the arbiter and of the memory.
MemoryTypes ==
  /\ ArbiterTypeOK
  /\ memBar \in [Addr -> Data]
  /\ todoBar \in Requests \cup {None}

MemoryInv == MemoryTypes /\ NoneLost /\ AtMemory /\ Done /\ Memory!OwnAnswer

---------------------------------------------------------------------------
\* A cycle, with the memory in it.
Cycle ==
  /\ UsersStep
  /\ Arbitrate
  /\ (Memory!Work \/ Memory!Read \/ Memory!Write)

\* What the controller and the chip do is such a cycle.
LEMMA CycleIs == Inv /\ Next => Cycle
  BY NextRefines DEF Next, Cycle, Memory!Next

\* The initial states: nothing is asked.
LEMMA MemoryInit == Init => MemoryInv
<1> SUFFICES ASSUME Init PROVE MemoryInv
  OBVIOUS
<1>1. memBar \in [Addr -> Data] /\ todoBar = None
  BY InitRefines DEF Memory!Init
<1> QED
  BY NoneAssumption, <1>1, SMT
     DEF Init, ArbiterInit, MemoryInv, MemoryTypes, ArbiterTypeOK, NoneLost, AtMemory, Done,
         Memory!OwnAnswer, Memory!Users, Quiet, Answer, Asked, Held, Answered, Users

\* A step keeps the types.
LEMMA TypeStep == MemoryInv /\ Cycle => MemoryTypes'
<1> SUFFICES ASSUME MemoryInv, Cycle PROVE MemoryTypes'
  OBVIOUS
<1> USE DEF MemoryInv, MemoryTypes, ArbiterTypeOK, Answer, Quiet
<1>1. asks' \in [Users -> Requests \cup {None}] /\ waiting' \in [Users -> Requests \cup {None}]
  BY DEF Cycle, UsersStep
<1>2. /\ answers' \in [Users -> Answer]
      /\ buffered' \in [Users -> Requests \cup {None}]
      /\ working' \in Users \cup {None}
      /\ sd' \in [valid : BOOLEAN, req : Requests \cup {None}]
  <2>1. CASE Finish
    BY <2>1 DEF Finish, Latched
  <2>2. CASE Hold
    BY <2>2 DEF Hold, Buffer, Latched
  <2>3. CASE Grant
    BY <2>3 DEF Grant, Buffer, Latched, Hot
  <2>4. CASE Rest
    BY <2>4 DEF Rest, Buffer, Latched
  <2>5. QED
    BY <2>1, <2>2, <2>3, <2>4 DEF Cycle, Arbitrate
<1>3. ans' \in Answer /\ memBar' \in [Addr -> Data] /\ todoBar' \in Requests \cup {None}
  <2>1. CASE Memory!Work
    BY <2>1 DEF Memory!Work, Memory!Quiet
  <2>2. CASE Memory!Read
    BY <2>2 DEF Memory!Read, Memory!Taken, Requests
  <2>3. CASE Memory!Write
    BY <2>3 DEF Memory!Write, Memory!Taken, Memory!IsRead, Requests
  <2>4. QED
    BY <2>1, <2>2, <2>3 DEF Cycle
<1>4. QED
  BY <1>1, <1>2, <1>3

---------------------------------------------------------------------------
\* What a step does to the request of one user, from the arbiter's side:
\* with the users' own step, it keeps the request in one place.
LEMMA OneUser ==
  ASSUME MemoryInv, Cycle, NEW i \in Users,
         NEW finished \in BOOLEAN,
         finished => Held(i),
         answers'[i].done = finished,
         buffered'[i] = IF finished THEN None ELSE Latched(i)
  PROVE  /\ waiting'[i] # None <=> Asked(i)' \/ Held(i)' \/ Answered(i)'
         /\ Asked(i)' => asks'[i] = waiting'[i] /\ ~Held(i)' /\ ~Answered(i)'
         /\ Held(i)' => buffered'[i] = waiting'[i] /\ ~Answered(i)'
<1>1. /\ asks'[i] \in Requests \cup {None}
      /\ ~Free(i) => asks'[i] = None
      /\ waiting'[i] = IF Free(i) THEN asks'[i] ELSE waiting[i]
  BY DEF Cycle, UsersStep
<1>2. /\ waiting[i] # None <=> Asked(i) \/ Held(i) \/ Answered(i)
      /\ Asked(i) => asks[i] = waiting[i] /\ ~Held(i) /\ ~Answered(i)
      /\ Held(i) => buffered[i] = waiting[i] /\ ~Answered(i)
  BY DEF MemoryInv, NoneLost
<1> USE DEF Asked, Held, Answered
<1>3. CASE Free(i)
  <2>1. ~Asked(i) /\ ~Held(i)
    BY <1>2, <1>3 DEF Free
  <2>2. ~finished /\ buffered'[i] = None
    BY <2>1 DEF Latched
  <2>3. QED
    BY <1>1, <1>3, <2>2
<1>4. CASE ~Free(i)
  <2>1. asks'[i] = None /\ waiting'[i] = waiting[i] /\ waiting[i] # None /\ ~Answered(i)
    BY <1>1, <1>4 DEF Free
  <2>2. Latched(i) = waiting[i]
    BY <1>2, <2>1 DEF Latched
  <2>3. QED
    BY <2>1, <2>2
<1>5. QED
  BY <1>3, <1>4

\* No request is lost, replaced or served twice in a step.
LEMMA NoneLostStep == MemoryInv /\ Cycle => NoneLost'
<1> SUFFICES ASSUME MemoryInv, Cycle, NEW i \in Users
             PROVE  /\ (waiting[i] # None <=> Asked(i) \/ Held(i) \/ Answered(i))'
                    /\ (Asked(i) => asks[i] = waiting[i] /\ ~Held(i) /\ ~Answered(i))'
                    /\ (Held(i) => buffered[i] = waiting[i] /\ ~Answered(i))'
                    /\ (working = i => Held(i) /\ sd.req = buffered[i])'
  BY DEF NoneLost
<1> USE NoneAssumption
<1>a. /\ answers \in [Users -> Answer] /\ sd \in [valid : BOOLEAN, req : Requests \cup {None}]
      /\ i # None
  BY DEF MemoryInv, MemoryTypes, ArbiterTypeOK, Users
<1>b. \A j \in Users : Held(j) => ~Asked(j)
  BY DEF MemoryInv, NoneLost
<1>c. working = i => Held(i) /\ sd.req = buffered[i]
  BY DEF MemoryInv, NoneLost
<1>1. CASE Finish
  <2>1. answers'[i].done = (i = working)
    BY <1>1, <1>a DEF Finish, Quiet
  <2>2. buffered'[i] = IF i = working THEN None ELSE Latched(i)
    BY <1>1 DEF Finish
  <2>3. working' = None
    BY <1>1 DEF Finish
  <2>4. QED
    BY <2>1, <2>2, <2>3, <1>a, <1>c, OneUser
<1>2. ASSUME Buffer,
             (working' = i => Held(i) /\ sd'.req = Latched(i))
      PROVE  /\ (waiting[i] # None <=> Asked(i) \/ Held(i) \/ Answered(i))'
             /\ (Asked(i) => asks[i] = waiting[i] /\ ~Held(i) /\ ~Answered(i))'
             /\ (Held(i) => buffered[i] = waiting[i] /\ ~Answered(i))'
             /\ (working = i => Held(i) /\ sd.req = buffered[i])'
  <2>1. answers'[i].done = FALSE /\ buffered'[i] = Latched(i)
    BY <1>2 DEF Buffer, Quiet
  <2>2. (working = i => Held(i) /\ sd.req = buffered[i])'
    BY <1>2, <1>b, <2>1 DEF Held, Asked, Latched
  <2>3. QED
    BY <2>1, <2>2, OneUser
<1>3. CASE Hold
  <2>1. working' = i => Held(i) /\ sd'.req = Latched(i)
    BY <1>3, <1>a, <1>b, <1>c DEF Hold, Latched, Asked
  <2>2. QED
    BY <1>2, <1>3, <2>1 DEF Hold
<1>4. CASE Grant
  <2>1. working' = i => Held(i) /\ sd'.req = Latched(i)
    BY <1>4 DEF Grant, Hot, Held
  <2>2. QED
    BY <1>2, <1>4, <2>1 DEF Grant
<1>5. CASE Rest
  <2>1. working' # i
    BY <1>5, <1>a DEF Rest
  <2>2. QED
    BY <1>2, <1>5, <2>1 DEF Rest
<1>6. QED
  BY <1>1, <1>3, <1>4, <1>5 DEF Cycle, Arbitrate

---------------------------------------------------------------------------
\* The memory has at most one request, the one the arbiter works on.
LEMMA AtMemoryStep == MemoryInv /\ Cycle => AtMemory'
<1> SUFFICES ASSUME MemoryInv, Cycle PROVE AtMemory'
  OBVIOUS
<1> USE NoneAssumption, NotARequest
<1>1. /\ sd \in [valid : BOOLEAN, req : Requests \cup {None}]
      /\ working \in Users \cup {None}
      /\ ans \in Answer
  BY DEF MemoryInv, MemoryTypes, ArbiterTypeOK
<1>2. AtMemory
  BY DEF MemoryInv
<1>3. \* what the memory does
      /\ todoBar' = IF sd.valid THEN sd.req ELSE IF ans'.done THEN None ELSE todoBar
      /\ ans'.done => todoBar # None
  BY <1>1, <1>2
     DEF Cycle, Memory!Work, Memory!Read, Memory!Write, Memory!Taken, Memory!Quiet, AtMemory
<1>4. CASE Finish
  <2>1. todoBar' = None /\ ~ans'.done /\ ~sd'.valid /\ working' = None
    BY <1>1, <1>2, <1>3, <1>4 DEF Finish, AtMemory
  <2>2. QED
    BY <2>1 DEF AtMemory
<1>5. CASE Hold
  <2>1. ~sd'.valid /\ sd'.req = sd.req /\ working' # None
    BY <1>1, <1>5 DEF Hold
  <2>2. QED
    BY <1>2, <1>3, <2>1 DEF AtMemory
<1>6. CASE Grant
  <2>1. todoBar' = None /\ ~ans'.done
    BY <1>2, <1>3, <1>6 DEF Grant, AtMemory
  <2>2. working' # None
    BY <1>6 DEF Grant, Hot, Users
  <2>3. QED
    BY <2>1, <2>2 DEF AtMemory
<1>7. CASE Rest
  <2>1. todoBar' = None /\ ~ans'.done /\ ~sd'.valid
    BY <1>1, <1>2, <1>3, <1>7 DEF Rest, AtMemory
  <2>2. QED
    BY <2>1 DEF AtMemory
<1>8. QED
  BY <1>4, <1>5, <1>6, <1>7 DEF Cycle, Arbitrate

\* The memory raises done for what it did.
LEMMA DoneStep == MemoryInv /\ Cycle => Done'
<1> SUFFICES ASSUME MemoryInv, Cycle, ans'.done PROVE Done'
  BY DEF Done
<1> USE NoneAssumption, NotARequest
<1>1. /\ sd \in [valid : BOOLEAN, req : Requests \cup {None}]
      /\ memBar \in [Addr -> Data]
      /\ todoBar \in Requests \cup {None}
  BY DEF MemoryInv, MemoryTypes, ArbiterTypeOK
<1>2. todoBar # None /\ (Memory!Read \/ Memory!Write)
  BY DEF Cycle, Memory!Work, Memory!Quiet, Memory!Read, Memory!Write
<1>3. todoBar = sd.req /\ ~ans.done /\ working # None
  BY <1>2 DEF MemoryInv, AtMemory
<1>4. sd'.req = sd.req
  BY <1>1, <1>3 DEF Cycle, Arbitrate, Finish, Hold, Grant, Rest
<1>5. CASE Memory!Read
  BY <1>3, <1>4, <1>5 DEF Memory!Read, Memory!IsRead, Done, IsRead
<1>6. CASE Memory!Write
  BY <1>1, <1>2, <1>3, <1>4, <1>6 DEF Memory!Write, Memory!IsRead, Done, IsRead, Requests
<1>7. QED
  BY <1>2, <1>5, <1>6

\* A user sees done with the word of its own address.
LEMMA OwnAnswerStep == MemoryInv /\ Cycle => Memory!OwnAnswer'
<1> SUFFICES ASSUME MemoryInv, Cycle, NEW i \in Users, answers'[i].done
             PROVE  /\ waiting'[i] # None
                    /\ IF IsRead(waiting'[i])
                         THEN answers'[i].data = memBar'[waiting'[i].addr]
                         ELSE memBar'[waiting'[i].addr] = waiting'[i].data
  BY DEF Memory!OwnAnswer, Memory!IsRead, Memory!Users, IsRead, Users
<1>1. Finish /\ i = working
  BY DEF Cycle, Arbitrate, Finish, Hold, Grant, Rest, Buffer, Quiet
<1>2. Held(i) /\ sd.req = buffered[i] /\ buffered[i] = waiting[i] /\ waiting[i] # None
      /\ ~Answered(i)
  BY <1>1 DEF MemoryInv, NoneLost
<1>3. waiting'[i] = waiting[i]
  BY <1>2 DEF Cycle, UsersStep, Free, Answered
<1>4. memBar' = memBar
  BY <1>1 DEF MemoryInv, AtMemory, Finish, Cycle, Memory!Work, Memory!Read, Memory!Write
<1>5. answers'[i].data = IF IsRead(sd.req) THEN ans.data ELSE None
  BY <1>1 DEF Finish
<1>6. QED
  BY <1>1, <1>2, <1>3, <1>4, <1>5 DEF MemoryInv, Done, Finish, IsRead

---------------------------------------------------------------------------
\* The invariant is inductive.
LEMMA MemoryStep == Inv /\ MemoryInv /\ [Next]_vars => MemoryInv'
<1>1. ASSUME Inv, MemoryInv, Next PROVE MemoryInv'
  BY <1>1, CycleIs, TypeStep, NoneLostStep, AtMemoryStep, DoneStep, OwnAnswerStep DEF MemoryInv
<1>2. ASSUME MemoryInv, UNCHANGED vars PROVE MemoryInv'
  <2>1. UNCHANGED <<asks, waiting, answers, buffered, working, sd, ans, memBar, todoBar>>
    BY <1>2 DEF vars, userVars, arbiterVars, controllerVars, memBar, todoBar, Writes, Cell
  <2> QED
    BY <1>2, <2>1 DEF MemoryInv, MemoryTypes, ArbiterTypeOK, NoneLost, AtMemory, Done,
                      Memory!OwnAnswer, Memory!IsRead, IsRead, Asked, Held, Answered
<1> QED
  BY <1>1, <1>2

\* The types are kept.
THEOREM TypeCorrect == Spec => []Memory!TypeOK
<1>1. MemoryInv => Memory!TypeOK
  BY DEF MemoryInv, MemoryTypes, ArbiterTypeOK, Memory!TypeOK, Memory!ArbiterTypeOK,
         Users, Memory!Users, Requests, Memory!Requests, Answer, Memory!Answer
<1> QED
  BY InitInv, StepInv, MemoryInit, MemoryStep, <1>1, PTL DEF Spec

\* For any number of users, no request is lost, replaced or served twice:
\* the one place it is in goes from the user to the buffer to the answer.
THEOREM RequestsKept == Spec => []NoneLost
<1>1. MemoryInv => NoneLost
  BY DEF MemoryInv
<1> QED
  BY InitInv, StepInv, MemoryInit, MemoryStep, <1>1, PTL DEF Spec

\* For any number of users, who sees done gets the word of its own address.
THEOREM AnswersOwned == Spec => []Memory!OwnAnswer
<1>1. MemoryInv => Memory!OwnAnswer
  BY DEF MemoryInv
<1> QED
  BY InitInv, StepInv, MemoryInit, MemoryStep, <1>1, PTL DEF Spec

---------------------------------------------------------------------------
\* The same for the delays of a bank, with the numbers.
LEMMA AgesStep ==
  ASSUME Chip, NEW b \in Banks,
         chip.open[b] \in BOOLEAN, chip.precharged[b] \in Nat, chip.active[b] \in 0 .. tRC
  PROVE  /\ chip'.precharged[b] =
              IF pins.cmd = "PRECHARGE" THEN 1
              ELSE IF Closes(b) THEN IF chip.closing[b] = "WRITE" THEN 2 ELSE 1
              ELSE IF chip.precharged[b] > 0 THEN chip.precharged[b] - 1 ELSE 0
         /\ chip'.active[b] = IF Activates(b) THEN 1
                              ELSE IF chip.active[b] < 6 THEN chip.active[b] + 1 ELSE 6
         /\ Closes(b) <=> chip.closing[b] # None /\ chip.active[b] >= 4
         /\ Activates(b) => chip'.open[b] = TRUE
         /\ ~Activates(b) /\ (pins.cmd = "PRECHARGE" \/ Closes(b)) => chip'.open[b] = FALSE
         /\ ~Activates(b) /\ pins.cmd # "PRECHARGE" /\ ~Closes(b) => chip'.open[b] = chip.open[b]
         /\ chip'.open[b] \in BOOLEAN
<1>1. Max({chip.precharged[b] - 1, 0})
        = IF chip.precharged[b] > 0 THEN chip.precharged[b] - 1 ELSE 0
  BY MaxPair
<1>2. Older(chip.active[b], tRC) = IF chip.active[b] < 6 THEN chip.active[b] + 1 ELSE 6
  BY OlderIs DEF tRC
<1>3. Closes(b) <=> chip.closing[b] # None /\ chip.active[b] >= 4
  BY DEF Closes, tRAS
<1>4. chip'.active[b] = IF Activates(b) THEN 1
                        ELSE IF chip.active[b] < 6 THEN chip.active[b] + 1 ELSE 6
  BY <1>2, BankStep
<1>5. chip'.precharged[b] =
        IF pins.cmd = "PRECHARGE" THEN 1
        ELSE IF Closes(b) THEN IF chip.closing[b] = "WRITE" THEN 2 ELSE 1
        ELSE IF chip.precharged[b] > 0 THEN chip.precharged[b] - 1 ELSE 0
  <2>1. tRP - 1 = 1 /\ tRP + tWRa - 1 = 2
    BY DEF tRP, tWRa
  <2> QED
    BY <1>1, <2>1, BankStep, Zenon
<1>6. chip'.open[b] = (Activates(b) \/ (chip.open[b] /\ pins.cmd # "PRECHARGE" /\ ~Closes(b)))
  BY BankStep
<1>7. /\ Activates(b) => chip'.open[b] = TRUE
      /\ ~Activates(b) /\ (pins.cmd = "PRECHARGE" \/ Closes(b)) => chip'.open[b] = FALSE
      /\ ~Activates(b) /\ pins.cmd # "PRECHARGE" /\ ~Closes(b) => chip'.open[b] = chip.open[b]
  BY <1>6, Zenon
<1>8. chip'.open[b] = TRUE \/ chip'.open[b] = FALSE
  BY <1>7
<1> QED
  BY <1>3, <1>4, <1>5, <1>7, <1>8

\* A bank is open for its access only, and rests before the next one.
LEMMA BanksStep ==
  ASSUME GivenOK, OneRequest, ControlOK, OnItsWay, BanksOK, Chip, Controller
  PROVE  BanksOK'
<1> SUFFICES ASSUME NEW b \in Banks PROVE BankOK(b)'
  BY DEF BanksOK
<1> USE DEF Goto, Call, NoCall, Nop, tRC
<1>0. /\ pins \in [cmd : {Command}, bank : Banks \cup {None}, a : Rows \cup Cols \cup {None},
                   dq : Data \cup {None}, en : BOOLEAN]
      /\ pins.cmd = Command
      /\ pc \in {"wait", "loop"} => ret \in {"precharge", "load_mode", "refreshed"}
      /\ count \in Nat
  BY DEF ControlOK
<1>1. BankOK(b)
  BY DEF BanksOK
<1>2. /\ Activates(b) => chip'.open[b] = TRUE
      /\ ~Activates(b) /\ (pins.cmd = "PRECHARGE" \/ Closes(b)) => chip'.open[b] = FALSE
      /\ ~Activates(b) /\ pins.cmd # "PRECHARGE" /\ ~Closes(b) => chip'.open[b] = chip.open[b]
      /\ chip'.closing[b] = IF Reads(b) \/ Writes(b) THEN pins.cmd
                            ELSE IF Closes(b) THEN None ELSE chip.closing[b]
      /\ chip'.precharged[b] =
              IF pins.cmd = "PRECHARGE" THEN 1
              ELSE IF Closes(b) THEN IF chip.closing[b] = "WRITE" THEN 2 ELSE 1
              ELSE IF chip.precharged[b] > 0 THEN chip.precharged[b] - 1 ELSE 0
      /\ chip'.active[b] = IF Activates(b) THEN 1
                           ELSE IF chip.active[b] < 6 THEN chip.active[b] + 1 ELSE 6
      /\ Closes(b) <=> chip.closing[b] # None /\ chip.active[b] >= 4
  BY <1>1, BankStep, AgesStep DEF BankOK
<1>3. /\ chip'.open[b] \in BOOLEAN /\ chip'.precharged[b] \in Nat /\ chip'.active[b] \in 0 .. tRC
  <2>1. chip'.open[b] \in BOOLEAN
    BY <1>1, AgesStep DEF BankOK
  <2>2. chip.precharged[b] \in Nat /\ chip.active[b] \in 0 .. 6
    BY <1>1 DEF BankOK
  <2>3. chip'.precharged[b] \in Nat
    BY <1>2, <2>2
  <2>4. chip'.active[b] \in 0 .. 6
    BY <1>2, <2>2
  <2> QED
    BY <2>1, <2>3, <2>4
<1> USE DEF PoweringUp, Starting, Age, Used, Rested, Written, Bank, Activates, Reads, Writes
<1>4. CASE Start
  BY <1>0, <1>1, <1>2, <1>3, <1>4 DEF BankOK, Start, Command
<1>5. CASE WaitEntry
  <2>1. CASE ret = "precharge"
    BY <1>0, <1>1, <1>2, <1>3, <1>5, <2>1 DEF BankOK, WaitEntry, Command
  <2>3. CASE ret = "load_mode"
    <3>1. pins.cmd = "PRECHARGE" /\ pc = "wait" /\ pc' = "loop" /\ ret' = "load_mode"
      BY <1>0, <1>5, <2>3 DEF WaitEntry, Command
    <3>2. chip.closing[b] = None /\ chip.active[b] \in 4 .. 6
      BY <1>1, <2>3, <3>1 DEF BankOK
    <3>3. chip'.open[b] = FALSE /\ chip'.closing[b] = None /\ chip'.precharged[b] = 1
          /\ chip'.active[b] >= 5
      BY <1>2, <3>1, <3>2
    <3> QED
      BY <1>3, <3>1, <3>3 DEF BankOK
  <2>2. CASE ret = "refreshed"
    BY <1>0, <1>1, <1>2, <1>3, <1>5, <2>2 DEF BankOK, WaitEntry, Command
  <2> QED
    BY <1>0, <1>5, <2>1, <2>2, <2>3 DEF WaitEntry
<1>6. CASE WaitLoop
  <2>1. CASE ret = "precharge"
    BY <1>0, <1>1, <1>2, <1>3, <1>6, <2>1 DEF BankOK, WaitLoop, Command
  <2>2. CASE ret = "load_mode"
    BY <1>0, <1>1, <1>2, <1>3, <1>6, <2>2 DEF BankOK, WaitLoop, Command
  <2>3. CASE ret = "refreshed"
    BY <1>0, <1>1, <1>2, <1>3, <1>6, <2>3 DEF BankOK, WaitLoop, Command
  <2> QED
    BY <1>0, <1>6, <2>1, <2>2, <2>3 DEF WaitLoop
<1>7. CASE Precharge
  BY <1>0, <1>1, <1>2, <1>3, <1>7 DEF BankOK, Precharge, Command
<1>8. CASE LoadMode
  BY <1>0, <1>1, <1>2, <1>3, <1>8 DEF BankOK, LoadMode, Command
<1>9. CASE Pass
  <2>1. pc' = Following[pc] /\ pins'.bank = pins.bank /\ ret' = ret
    BY <1>0, <1>9 DEF Pass
  <2>2. CASE pc = "tMRD"
    BY <1>0, <1>1, <1>2, <1>3, <2>1, <2>2 DEF BankOK, Following, Command
  <2>3. CASE pc = "tRCD"
    <3>1. pins.cmd = "ACTIVE" /\ pc' = "access"
      BY <1>0, <2>1, <2>3 DEF Following, Command
    <3>2. Rested(b)
      BY <1>1, <2>3 DEF BankOK
    <3>3. b = pins.bank => Bank(b, TRUE, None, 0, 1)'
      BY <1>2, <3>1, <3>2
    <3>4. b # pins.bank => Rested(b)'
      BY <1>2, <3>1, <3>2
    <3> QED
      BY <1>3, <2>1, <3>1, <3>3, <3>4 DEF BankOK
  <2>4. CASE pc \in {"cas1", "cas2", "cas3", "tWR", "tRP1", "tRP2"} /\ b # pins.bank
    <3>1. Rested(b) /\ pins.cmd \notin {"PRECHARGE"} /\ ~Reads(b) /\ ~Writes(b) /\ ~Activates(b)
      BY <1>0, <1>1, <2>4 DEF BankOK, Command
    <3>2. Rested(b)'
      BY <1>2, <3>1
    <3>3. pc' \in {"cas2", "cas3", "data", "tRP1", "tRP2", "tRP3"} /\ b # pins'.bank
      BY <2>1, <2>4 DEF Following
    <3> QED
      BY <1>3, <3>2, <3>3 DEF BankOK
  <2>5. CASE pc = "cas1" /\ b = pins.bank
    BY <1>0, <1>1, <1>2, <1>3, <2>1, <2>5 DEF BankOK, Following, Command
  <2>7. CASE pc = "cas2" /\ b = pins.bank
    BY <1>0, <1>1, <1>2, <1>3, <2>1, <2>7 DEF BankOK, Following, Command
  <2>8. CASE pc = "cas3" /\ b = pins.bank
    <3>1. pins.cmd = "NOP" /\ pc' = "data"
      BY <1>0, <2>1, <2>8 DEF Following, Command
    <3>2. Bank(b, TRUE, "READ", 0, 4)
      BY <1>1, <2>8 DEF BankOK
    <3>3. CASE Bank(b, TRUE, "READ", 0, 4)
      <4>1. Closes(b)
        BY <1>2, <3>3, NotACommand
      <4>2. Bank(b, FALSE, None, 1, 5)'
        BY <1>2, <3>1, <3>3, <4>1
      <4> QED
        BY <1>3, <2>1, <2>8, <3>1, <4>2 DEF BankOK
    <3> QED
      BY <3>2, <3>3
  <2>9. CASE pc = "tWR" /\ b = pins.bank
    BY <1>0, <1>1, <1>2, <1>3, <2>1, <2>9 DEF BankOK, Following, Command
  <2>10. CASE pc = "tRP1" /\ b = pins.bank
    BY <1>0, <1>1, <1>2, <1>3, <2>1, <2>10 DEF BankOK, Following, Command
  <2>11. CASE pc = "tRP2" /\ b = pins.bank
    <3>1. pins.cmd = "NOP" /\ pc' = "tRP3"
      BY <1>0, <2>1, <2>11 DEF Following, Command
    <3>2. Rested(b) \/ Bank(b, TRUE, "WRITE", 0, 4)
      BY <1>1, <2>11 DEF BankOK
    <3>3. CASE Bank(b, TRUE, "WRITE", 0, 4)
      <4>1. Closes(b)
        BY <1>2, <3>3, NotACommand
      <4>2. Bank(b, FALSE, None, 2, 5)'
        BY <1>2, <3>1, <3>3, <4>1
      <4> QED
        BY <1>3, <2>1, <2>11, <3>1, <4>2 DEF BankOK
    <3>4. CASE Rested(b)
      BY <1>2, <1>3, <2>1, <2>11, <3>1, <3>4 DEF BankOK
    <3> QED
      BY <3>2, <3>3, <3>4
  <2>6. CASE pc \in {"tRP3", "tRP4"}
    BY <1>0, <1>1, <1>2, <1>3, <2>1, <2>6 DEF BankOK, Following, Command
  <2> QED
    BY <1>9, <2>2, <2>3, <2>4, <2>5, <2>6, <2>7, <2>8, <2>9, <2>10, <2>11 DEF Pass, Following
<1>10. CASE Refresh \/ Refreshed \/ Idle
  BY <1>0, <1>1, <1>2, <1>3, <1>10 DEF BankOK, Refresh, Refreshed, Idle, Command
<1>11. CASE Activate
  BY <1>0, <1>1, <1>2, <1>3, <1>11 DEF BankOK, Activate, Command
<1>12. CASE WriteWord \/ ReadWord
  <2>1. pc = "access" /\ pc' \in {"cas1", "tWR"} /\ pins'.bank = pins.bank /\ pins.cmd = "NOP"
    BY <1>0, <1>12 DEF WriteWord, ReadWord, Command
  <2> QED
    BY <1>1, <1>2, <1>3, <2>1 DEF BankOK
<1>13. CASE DataOut
  BY <1>0, <1>1, <1>2, <1>3, <1>13 DEF BankOK, DataOut, Command
<1> QED
  BY <1>4, <1>5, <1>6, <1>7, <1>8, <1>9, <1>10, <1>11, <1>12, <1>13 DEF Controller

\* The cycles since the mode was set and since the refresh.
LEMMA RefreshAgeStep ==
  ASSUME ControlOK, AgesOK, Chip, Controller
  PROVE  AgesOK'
<1> USE DEF Goto, Call, NoCall, Nop, tRFC, tMRD, PoweringUp, Starting, Age
<1>0. /\ pins.cmd = Command
      /\ pc \in {"wait", "loop"} => ret \in {"precharge", "load_mode", "refreshed"}
      /\ count \in Nat
  BY DEF ControlOK
<1>1. /\ chip'.mode = IF pins.cmd = "LOAD_MODE_REG" THEN 1
                      ELSE IF chip.mode + 1 =< 2 THEN chip.mode + 1 ELSE 2
      /\ chip'.refresh = IF pins.cmd = "REFRESH" THEN 1
                         ELSE IF chip.refresh + 1 =< FORGETS THEN chip.refresh + 1 ELSE FORGETS
      /\ chip.mode \in Nat /\ chip.refresh \in Nat
      /\ FORGETS \in Nat /\ FORGETS >= 7
  <2>1. Older(chip.mode, tMRD) = IF chip.mode + 1 =< 2 THEN chip.mode + 1 ELSE 2
    BY OlderIs DEF AgesOK
  <2>2. Older(chip.refresh, FORGETS)
          = IF chip.refresh + 1 =< FORGETS THEN chip.refresh + 1 ELSE FORGETS
    BY OlderIs, CountsAssumption DEF AgesOK
  <2> QED
    BY <2>1, <2>2, CountsAssumption DEF Chip, ChipNext, AgesOK
<1>2. chip'.mode \in Nat /\ chip'.refresh \in Nat
  BY <1>1
<1>4. CASE Start \/ Precharge \/ LoadMode
  BY <1>0, <1>1, <1>2, <1>4 DEF AgesOK, Start, Precharge, LoadMode, Command
<1>5. CASE WaitEntry
  <2>1. CASE ret = "precharge"
    BY <1>0, <1>1, <1>2, <1>5, <2>1 DEF AgesOK, WaitEntry, Command
  <2>2. CASE ret = "load_mode"
    BY <1>0, <1>1, <1>2, <1>5, <2>2 DEF AgesOK, WaitEntry, Command
  <2>3. CASE ret = "refreshed"
    <3>1. pins.cmd = "REFRESH" /\ pc = "wait" /\ pc' = "loop" /\ ret' = ret /\ count' = count
      BY <1>0, <1>5, <2>3 DEF WaitEntry, Command
    <3>2. count >= 3 /\ chip.mode >= 2
      BY <2>3, <3>1 DEF AgesOK
    <3> QED
      BY <1>0, <1>1, <1>2, <2>3, <3>1, <3>2 DEF AgesOK
  <2> QED
    BY <1>0, <1>5, <2>1, <2>2, <2>3 DEF WaitEntry
<1>6. CASE WaitLoop
  BY <1>0, <1>1, <1>2, <1>6 DEF AgesOK, WaitLoop, Command
<1>9. CASE Pass
  BY <1>0, <1>1, <1>2, <1>9 DEF AgesOK, Pass, Following, Command
<1>10. CASE Refresh
  BY <1>0, <1>1, <1>2, <1>10, RefreshAssumption DEF AgesOK, Refresh, RefreshDelay, Command
<1>11. CASE Refreshed \/ Idle \/ Activate
  BY <1>0, <1>1, <1>2, <1>11 DEF AgesOK, Refreshed, Idle, Activate, Command
<1>12. CASE WriteWord \/ ReadWord \/ DataOut
  BY <1>0, <1>1, <1>2, <1>12 DEF AgesOK, WriteWord, ReadWord, DataOut, Command
<1> QED
  BY <1>4, <1>5, <1>6, <1>9, <1>10, <1>11, <1>12 DEF Controller

TimingInv == Inv /\ BanksOK /\ AgesOK

\* Initially, every age is 0.
LEMMA InitTiming == Init => TimingInv
<1> SUFFICES ASSUME Init PROVE TimingInv
  OBVIOUS
<1>1. BanksOK
  <2> SUFFICES ASSUME NEW b \in Banks PROVE BankOK(b)
    BY DEF BanksOK
  <2>1. /\ chip.open[b] = TRUE /\ chip.closing[b] = None
        /\ chip.precharged[b] = 0 /\ chip.active[b] = 0
    <3>1. /\ chip.open = [bb \in Banks |-> TRUE] /\ chip.closing \in [Banks -> {None}]
          /\ chip.precharged \in [Banks -> {0}] /\ chip.active \in [Banks -> {0}]
      BY DEF Init, ChipInit
    <3> QED
      BY <3>1
  <2>2. pc = "start"
    BY DEF Init, ControllerInit
  <2>3. PoweringUp /\ Age = 0
    BY <2>2 DEF PoweringUp, Starting, Age
  <2>7. chip.open[b] \in BOOLEAN
    BY <2>1, Zenon
  <2>4. chip.open[b] \in BOOLEAN /\ chip.precharged[b] \in Nat /\ chip.active[b] \in 0 .. tRC
    BY <2>1, <2>7 DEF tRC
  <2>5. chip.closing[b] = None /\ chip.active[b] >= Age
    BY <2>1, <2>3
  <2>6. ~(pc = "loop") /\ ~(pc = "load_mode")
    BY <2>2
  <2> QED
    BY <2>3, <2>4, <2>5, <2>6 DEF BankOK
<1>2. AgesOK
  BY DEF AgesOK, PoweringUp, Starting, Age, tMRD, Init, ControllerInit, ChipInit
<1> QED
  BY <1>1, <1>2, InitInv DEF TimingInv

\* Every cycle keeps the ages as they are said.
LEMMA StepTiming == TimingInv /\ [Next]_vars => TimingInv'
<1>1. ASSUME TimingInv, Next PROVE TimingInv'
  BY <1>1, StepInv, BanksStep, RefreshAgeStep DEF TimingInv, Inv, Next
<1>2. ASSUME TimingInv, UNCHANGED vars PROVE TimingInv'
  <2>1. UNCHANGED <<pc, count, ret, pins, chip>>
    BY <1>2 DEF vars, controllerVars
  <2>2. BanksOK'
    BY <1>2, <2>1 DEF TimingInv, BanksOK, BankOK, PoweringUp, Starting, Age, Used, Rested, Written,
                      Bank
  <2>3. AgesOK'
    BY <1>2, <2>1 DEF TimingInv, AgesOK, PoweringUp, Starting, Age
  <2> QED
    BY <1>2, <2>2, <2>3, StepInv DEF TimingInv
<1> QED
  BY <1>1, <1>2

\* They are what each command needs.
LEMMA TimingInvKeeps == TimingInv => TimingsKept
<1> SUFFICES ASSUME TimingInv PROVE TimingsKept
  OBVIOUS
<1> USE DEF TimingInv
<1>1. pins.cmd = Command /\ pc \in States
  BY DEF Inv, ControlOK
<1>2. \A b \in Banks : BankOK(b)
  BY DEF BanksOK
<1> USE DEF PoweringUp, Starting, Age
<1>3. CASE pins.cmd = "REFRESH"
  <2>1. pc = "wait" /\ ret = "refreshed"
    BY <1>1, <1>3 DEF Command
  <2>2. \A b \in Banks : ~chip.open[b] /\ chip.precharged[b] = 0
    BY <1>2, <2>1 DEF BankOK, Used, Rested, Written, Bank
  <2>3. chip.refresh >= tRFC /\ chip.mode >= tMRD
    BY <2>1 DEF AgesOK
  <2> QED
    BY <1>3, <2>2, <2>3 DEF TimingsKept
<1>4. CASE pins.cmd = "LOAD_MODE_REG"
  <2>1. pc = "tMRD"
    BY <1>1, <1>4 DEF Command
  <2>2. \A b \in Banks : ~chip.open[b] /\ chip.precharged[b] = 0
    BY <1>2, <2>1 DEF BankOK, Used, Rested, Written, Bank
  <2>3. chip.refresh >= tRFC /\ chip.mode >= tMRD
    BY <2>1 DEF AgesOK
  <2> QED
    BY <1>4, <2>2, <2>3 DEF TimingsKept
<1>5. CASE pins.cmd = "PRECHARGE"
  <2>1. pc = "wait" /\ ret = "load_mode"
    BY <1>1, <1>5 DEF Command
  <2>2. \A b \in Banks : chip.active[b] >= tRAS
    BY <1>2, <2>1 DEF BankOK, tRAS
  <2> QED
    BY <1>5, <2>2 DEF TimingsKept
<1>6. CASE pins.cmd = "ACTIVE"
  <2>1. pc = "tRCD"
    BY <1>1, <1>6 DEF Command
  <2>2. \A b \in Banks : ~chip.open[b] /\ chip.precharged[b] = 0 /\ chip.active[b] = tRC
    BY <1>2, <2>1 DEF BankOK, Used, Rested, Written, Bank
  <2>3. chip.refresh >= tRFC /\ chip.mode >= tMRD
    BY <2>1 DEF AgesOK
  <2>4. pins.bank \in Banks
    BY <2>1, CopiedIs DEF Inv, OnItsWay, Serving, OneRequest, Copied, GivenOK
  <2> QED
    BY <1>6, <2>2, <2>3, <2>4 DEF TimingsKept, tRC, tRRD
<1>7. CASE pins.cmd \in {"READ", "WRITE"}
  <2>1. pc \in {"cas1", "tWR"}
    BY <1>1, <1>7 DEF Command
  <2>2. pins.bank \in Banks
    BY <2>1, CopiedIs DEF Inv, OnItsWay, Serving, OneRequest, Copied, GivenOK
  <2>3. chip.open[pins.bank] = TRUE /\ chip.active[pins.bank] = 2
    BY <1>2, <2>1, <2>2 DEF BankOK, Used, Bank
  <2> QED
    BY <1>7, <2>3 DEF TimingsKept, tRCD
<1>8. CASE pins.cmd = "NOP"
  BY <1>8 DEF TimingsKept
<1> QED
  BY <1>1, <1>3, <1>4, <1>5, <1>6, <1>7, <1>8 DEF Command

\* The chip never gets a command before the delays of the previous ones.
THEOREM KeepsTimings == Spec => []TimingsKept
<1> QED
  BY InitTiming, StepTiming, TimingInvKeeps, PTL DEF Spec

=============================================================================
