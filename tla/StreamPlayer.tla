--------------------------- MODULE StreamPlayer ---------------------------
(***************************************************************************)
(* The firmware that plays a file: read_audio_file and clear_audio of      *)
(* my_utils.c, with play_music_callback of step9_cabillot.c, on top of the *)
(* double buffer of the audio hardware.                                    *)
(*                                                                         *)
(* Processor and player run concurrently.  The processor learns that the   *)
(* banks were swapped only by polling *AUDIO; its stores always land in    *)
(* the bank not being played at that time, whatever address it kept.       *)
(*                                                                         *)
(* A file is B full blocks of N samples followed by a short read.  A       *)
(* sample is the number of its block, 0 for silence; its index in the      *)
(* block is its place in the bank, since byte k of a block is always       *)
(* stored at index k of a bank.                                            *)
(***************************************************************************)
EXTENDS Integers, FiniteSets

CONSTANTS N,      \* AUDIO_BLOCK_SIZE, samples in a bank and in a block (512)
          B,      \* full blocks in the file
          Budget  \* samples played, at most, between two polls of *AUDIO

ASSUME BlockAssumption == N \in Nat \ {0} /\ B \in Nat \ {0}

\* What the firmware relies on: from one poll of *AUDIO to the next it never
\* takes more than half the time of a bank (32 ms on the board).
ASSUME BudgetAssumption == Budget \in Nat \ {0} /\ 2 * Budget <= N

Silence == 0
Blocks == 1 .. B

VARIABLES
  wbank, pos, bank,  \* the double buffer
  pc,                \* what the firmware does next
  ret,               \* where clear_audio returns to
  caddr, round,      \* addr and b of clear_audio
  addr, k,           \* addr and k of read_audio_file (k: also in memset)
  block,             \* blocks read from the file; the last one is in buffer
  tries,             \* n: failed calls of fl_fopen
  loop, pause,       \* loop, pause
  signal,            \* output_signal, and the value returned
  lit,               \* some LED is on
  work,              \* samples played since the last poll of *AUDIO
  heard,             \* history: the furthest sample of the file played
  quiet,             \* history: the last sample played was silence
  risky              \* history: blocks whose load was not started by a swap

HW == INSTANCE DoubleBuffer WITH Sample <- 0 .. B

hw == <<wbank, pos, bank>>
clear == <<ret, caddr, round>>
file == <<block, tries>>
controls == <<loop, pause, signal, lit>>
history == <<heard, quiet, risky>>
vars == <<hw, pc, clear, addr, k, file, controls, work, history>>

\* Values of pc, by the line of my_utils.c or step9_cabillot.c they stand for.
ClearLabels == {"sync", "synced", "clearAddr", "clearByte", "clearSwap"}
PlayLabels == {"addr", "read", "copy", "wait", "close"}
CallbackLabels == {"button", "pause", "leds"}
\* The firmware waits for the user, or for the file system: no bound on time.
PatientLabels == {"idle", "open", "error", "errorRelease", "release"}

Busy == pc \notin PatientLabels

Init == /\ HW!BuffersInit
        /\ pc = "idle" /\ ret = "open"
        /\ caddr = 0 /\ round = 0 /\ addr = 0 /\ k = 0
        /\ block = 0 /\ tries = 0
        /\ loop = FALSE /\ pause = FALSE /\ signal = 0 /\ lit = FALSE
        /\ work = 0
        /\ heard = 0 /\ quiet = TRUE /\ risky = {}

---------------------------------------------------------------------------
(* The player of the hardware: one sample.                                 *)

\* The place in the file of the sample being played, 0 for silence.
Place == IF HW!Played = Silence THEN 0 ELSE (HW!Played - 1) * N + pos + 1

PlaySample == /\ Busy => work < Budget
              /\ HW!Tick
              /\ work' = IF Busy THEN work + 1 ELSE 0
              /\ heard' = IF Place > heard THEN Place ELSE heard
              /\ quiet' = (Place = 0)
              /\ UNCHANGED <<bank, pc, clear, addr, k, file, controls, risky>>

---------------------------------------------------------------------------
(* clear_audio: silence in both banks, each one cleared while the other is  *)
(* played.                                                                 *)

\* for (int b=0 ; b<2 ; ++b)   (mutant: only one bank)
OneRound == 1
ClearRounds == 2

\* addr = *AUDIO
ClearSync == /\ pc = "sync"
             /\ caddr' = wbank /\ round' = 0
             /\ pc' = "synced"
             /\ UNCHANGED <<hw, ret, addr, k, file, controls, work, history>>

\* while (addr == *AUDIO) {}   (mutant: no synchronisation)
ClearUnsynced == /\ pc = "synced"
                 /\ pc' = "clearAddr"
                 /\ work' = 0
                 /\ UNCHANGED <<hw, clear, addr, k, file, controls, history>>

ClearSynced == /\ pc = "synced"
               /\ pc' = IF caddr = wbank THEN "synced" ELSE "clearAddr"
               /\ work' = 0
               /\ UNCHANGED <<hw, clear, addr, k, file, controls, history>>

ClearAddr == /\ pc = "clearAddr"
             /\ caddr' = wbank /\ k' = 0
             /\ pc' = "clearByte"
             /\ UNCHANGED <<hw, ret, round, addr, file, controls, work, history>>

\* memset(addr,0,512)
ClearByte == /\ pc = "clearByte"
             /\ HW!Put(k, Silence)
             /\ k' = k + 1
             /\ pc' = IF k + 1 = N THEN "clearSwap" ELSE "clearByte"
             /\ UNCHANGED <<wbank, pos, clear, addr, file, controls, work, history>>

\* while (addr == *AUDIO) {}, then the next round or the caller
ClearSwap ==
  /\ pc = "clearSwap"
  /\ IF caddr = wbank
     THEN UNCHANGED <<pc, round>>
     ELSE /\ round' = round + 1
          /\ pc' = IF round + 1 < ClearRounds THEN "clearAddr" ELSE ret
  /\ work' = 0
  /\ UNCHANGED <<hw, ret, caddr, addr, k, file, controls, history>>

---------------------------------------------------------------------------
(* read_audio_file.                                                        *)

\* The call (play_music), whenever the menu makes it.
Play == /\ pc = "idle"
        /\ pc' = "sync" /\ ret' = "open"
        /\ block' = 0 /\ tries' = 0
        /\ heard' = 0 /\ risky' = {1} /\ quiet' = TRUE
        /\ UNCHANGED <<hw, caddr, round, addr, k, controls, work>>

Opened == /\ pc = "open"
          /\ loop' = TRUE /\ pause' = FALSE /\ signal' = 1
          /\ pc' = "addr"
          /\ UNCHANGED <<hw, clear, addr, k, file, lit, work, history>>

\* f == NULL: one more try (MAX_TRIES), then the message and WAIT_INPUT
NotOpened == /\ pc = "open"
             /\ IF tries < 1 THEN tries' = tries + 1 /\ UNCHANGED pc
                             ELSE tries' = tries + 1 /\ pc' = "error"
             /\ UNCHANGED <<hw, clear, addr, k, block, controls, work, history>>

\* WAIT_INPUT(): BTN_ZERO pressed, ...
ErrorSeen == /\ pc = "error"
             /\ pc' = "errorRelease"
             /\ UNCHANGED <<hw, clear, addr, k, file, controls, work, history>>

\* ... then released: return 0
ErrorLeft == /\ pc = "errorRelease"
             /\ signal' = 0
             /\ pc' = "idle"
             /\ UNCHANGED <<hw, clear, addr, k, file, loop, pause, lit, work, history>>

\* char* addr = *AUDIO; char pause = 0
\* (mutant: the address of the bank read once, before the loop)
LoadAddrOnce == /\ pc = "addr"
                /\ addr' = (IF block = 0 THEN wbank ELSE addr) /\ pause' = FALSE
                /\ pc' = "read"
                /\ UNCHANGED <<hw, clear, k, file, loop, signal, lit, work, history>>

LoadAddr == /\ pc = "addr"
            /\ addr' = wbank /\ pause' = FALSE
            /\ pc' = "read"
            /\ UNCHANGED <<hw, clear, k, file, loop, signal, lit, work, history>>

\* sz == AUDIO_BLOCK_SIZE   (mutant: the last full block taken for the end)
MoreButOne == block + 1 < B
More == block < B

\* fl_fread; if (sz<AUDIO_BLOCK_SIZE) break, then LEDS_OFF and clear_audio
ReadBlock == /\ pc = "read"
             /\ IF More
                THEN /\ block' = block + 1 /\ k' = 0
                     /\ pc' = "copy"
                     /\ UNCHANGED <<lit, ret>>
                ELSE /\ lit' = FALSE
                     /\ pc' = "sync" /\ ret' = "close"
                     /\ UNCHANGED <<block, k>>
             /\ UNCHANGED <<hw, caddr, round, addr, tries, loop, pause, signal, work, history>>

\* addr[k] = buffer[k]   (mutant: one byte too many)
CopyBytePast == /\ pc = "copy"
                /\ HW!Put(k, block)
                /\ k' = k + 1
                /\ pc' = IF k = N THEN "wait" ELSE "copy"
                /\ UNCHANGED <<wbank, pos, clear, addr, file, controls, work, history>>

CopyByte == /\ pc = "copy"
            /\ HW!Put(k, block)
            /\ k' = k + 1
            /\ pc' = IF k + 1 = N THEN "wait" ELSE "copy"
            /\ UNCHANGED <<wbank, pos, clear, addr, file, controls, work, history>>

\* addr == *AUDIO || pause   (mutants: the swap only; or not once stopped)
StayUnlessSwapped == addr = wbank
StayIfStopped == addr = wbank \/ pause \/ ~loop
StayInWait == addr = wbank \/ pause

\* One poll of the inner while; on exit, the test of while(loop).
Wait == /\ pc = "wait"
        /\ work' = 0
        /\ IF StayInWait THEN pc' = "button" /\ UNCHANGED <<ret, lit>>
           ELSE IF loop THEN pc' = "addr" /\ UNCHANGED <<ret, lit>>
           ELSE pc' = "sync" /\ ret' = "close" /\ lit' = FALSE
        /\ UNCHANGED <<hw, caddr, round, addr, k, file, loop, pause, signal, history>>

\* fl_fclose(f); return output_signal
Close == /\ pc = "close"
         /\ pc' = "idle"
         /\ UNCHANGED <<hw, clear, addr, k, file, controls, work, history>>

---------------------------------------------------------------------------
(* play_music_callback.  Its first line reads the buttons once; the switch  *)
(* only knows a button pressed alone.                                      *)

\* The signal of the buttons that stop the music: LEFT, DOWN and UP.
StopSignals == {0, 2, 3}

Stop == /\ pc = "button"
        /\ signal' \in StopSignals
        /\ loop' = FALSE /\ pause' = FALSE
        /\ pc' = "leds"
        /\ UNCHANGED <<hw, clear, addr, k, file, lit, work, history>>

\* BTN_RIGHT while playing: clear_audio first, and then pause.
\* (mutant: the banks left as they are)
PauseAtOnce == /\ pc = "button" /\ ~pause
               /\ pc' = "pause"
               /\ UNCHANGED <<hw, clear, addr, k, file, controls, work, history>>

Pause == /\ pc = "button" /\ ~pause
         /\ pc' = "sync" /\ ret' = "pause"
         /\ UNCHANGED <<hw, caddr, round, addr, k, file, controls, work, history>>

Paused == /\ pc = "pause"
          /\ pause' = TRUE
          /\ pc' = "release" /\ work' = 0
          /\ UNCHANGED <<hw, clear, addr, k, file, loop, signal, lit, history>>

\* BTN_RIGHT while paused.  The next load is started by the user, not by a swap.
Resume == /\ pc = "button" /\ pause
          /\ pause' = FALSE
          /\ pc' = "release" /\ work' = 0
          /\ risky' = risky \cup ({block + 1} \cap Blocks)
          /\ UNCHANGED <<hw, clear, addr, k, file, loop, signal, lit, heard, quiet>>

\* while (*BUTTONS & BTN_RIGHT)
Released == /\ pc = "release"
            /\ pc' = "leds"
            /\ UNCHANGED <<hw, clear, addr, k, file, controls, work, history>>

\* No button, several buttons, BTN_ZERO or BTN_ONE.
NoButton == /\ pc = "button"
            /\ pc' = "leds"
            /\ UNCHANGED <<hw, clear, addr, k, file, controls, work, history>>

\* LEDS_OFF and return, or the level of the block
\* (mutant: the LEDs updated whatever the state)
LedsAlways == TRUE
LedsShown == loop /\ ~pause

Leds == /\ pc = "leds"
        /\ lit' = LedsShown
        /\ pc' = "wait"
        /\ UNCHANGED <<hw, clear, addr, k, file, loop, pause, signal, work, history>>

---------------------------------------------------------------------------
Clearing == ClearSync \/ ClearSynced \/ ClearAddr \/ ClearByte \/ ClearSwap
Loading == LoadAddr \/ ReadBlock \/ CopyByte \/ Wait \/ Close
Callback == Stop \/ Pause \/ Paused \/ Resume \/ NoButton \/ Leds
Opening == Opened \/ NotOpened

Firmware == Clearing \/ Loading \/ Callback \/ Opening
User == Play \/ ErrorSeen \/ ErrorLeft \/ Released

Next == PlaySample \/ Firmware \/ User

Spec == Init /\ [][Next]_vars

\* The clock and the processor do not stop, and a button is not held for ever.
\* Nothing is assumed of the presses.
Fairness == /\ WF_vars(PlaySample)
            /\ WF_vars(Firmware)
            /\ WF_vars(Released)
            /\ WF_vars(ErrorLeft)

FairSpec == Spec /\ Fairness

---------------------------------------------------------------------------
(***************************************************************************)
(* Properties.                                                             *)
(***************************************************************************)
ControlOK ==
  /\ pc \in ClearLabels \cup PlayLabels \cup CallbackLabels \cup PatientLabels
  /\ ret \in {"open", "pause", "close"}
  /\ loop \in BOOLEAN /\ pause \in BOOLEAN /\ lit \in BOOLEAN

CountersOK ==
  /\ caddr \in {0, 1} /\ round \in 0 .. ClearRounds
  /\ addr \in {0, 1} /\ k \in 0 .. N
  /\ block \in 0 .. B /\ tries \in 0 .. 2
  /\ signal \in {1} \cup StopSignals
  /\ work \in 0 .. Budget

HistoryOK == heard \in 0 .. B * N /\ quiet \in BOOLEAN /\ risky \subseteq Blocks

TypeOK == HW!BuffersTypeOK /\ ControlOK /\ CountersOK /\ HistoryOK

AllSilent == \A b \in {0, 1}, i \in 0 .. N - 1 : bank[b][i] = Silence

\* When no music is being played, or while it is paused, both banks are
\* silent: nothing loops in the hardware, which never stops playing.
\* (clear_audio at my_utils.c:113 and step9_cabillot.c:256.)
SilentWhenStopped == (pc \in {"idle", "open"} \/ pause) => AllSilent

\* The LEDs are off when the menu is back and, once the button is released and
\* the callback has returned, while paused (README.md: "When a music is paused,
\* the LEDs are turned off").
LedsOffWhenStopped == (pc = "idle" \/ (pause /\ pc = "wait")) => ~lit

Clears == pc \in ClearLabels

\* The sample heard never goes back in the file while blocks are being loaded:
\* a stale bank is never played again, except in clear_audio (see InOrder).
NoReplayWhileLoading ==
  [][(PlaySample /\ Place # 0 /\ Place <= heard) => Clears]_vars

BlockOf(place) == (place + N - 1) \div N

\* Every sample of the file is heard, one right after the other, except those
\* of a block whose load was not started by a swap (the first one, and the first
\* one after a pause): all the others are loaded in the bank not played, whole,
\* before the next swap, and played before the bank is written again.
Seamless ==
  [][heard' > heard =>
       /\ \A p \in heard + 1 .. heard' - 1 : BlockOf(p) \in risky
       /\ quiet => {BlockOf(heard'), BlockOf(heard') - 1} \cap risky # {}]_vars

\* When the music ends by itself it has been played to its last full block, the
\* end of the banks included: the final clear_audio cuts nothing.
PlayedToTheEnd ==
  (pc = "close" /\ signal = 1) => (block = B /\ (heard = B * N \/ B \in risky))

\* A block started by a swap is stored in the bank whose address was read
\* (my_utils.c:99): the bank does not change under the loop that copies it.
CopiesInOneBank == (pc = "copy" /\ block \notin risky) => addr = wbank

\* The call, as the menu that made it sees it; a music is paused once both banks
\* are clear.
phase == CASE pc = "idle" -> "idle"
           [] pc = "open" \/ (Clears /\ ret = "open") -> "opening"
           [] pc \in {"error", "errorRelease"} -> "error"
           [] pc = "release" -> "release"
           [] OTHER -> "playing"

P == INSTANCE PlayContract

\* read_audio_file keeps the contract of play_music (music.c:69-86): it
\* leaves its loops only when it is not paused, whatever the callback did to loop,
\* pause and output_signal, in whatever order (my_utils.c:97-115), and it does
\* return: each block is followed by the next one although swaps are only seen
\* by polling, and the swap after BTN_LEFT, BTN_UP or BTN_DOWN ends the call.
ImplementsPlay == P!FairSpec

\* my_utils.c:71 "Read an audio file and play it.": the samples of a music that
\* nobody stops or pauses are heard in their order, none of them twice.
InOrder ==
  [][(PlaySample /\ Place # 0 /\ loop /\ ret # "pause") => Place > heard]_vars

\* my_utils.c:71 "Read an audio file and play it.", README.md "Play/Pause": no
\* sample of the file is skipped.
NothingSkipped == [][heard' > heard => heard' = heard + 1]_vars

\* README.md "BTN_LEFT: Go back to the previous menu": a music that was asked to
\* stop stops.
LeftReturns == (pc = "wait" /\ ~loop) ~> (pc = "idle")
===========================================================================
