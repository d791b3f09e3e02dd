--------------------------- MODULE AudioBuffer ---------------------------
(***************************************************************************)
(* The audio streaming circuit of cabillot.si, one step per clock cycle.   *)
(*                                                                         *)
(* The always block reads the registers of the current cycle and writes    *)
(* those of the next one, so Cycle reads unprimed variables only.  The     *)
(* trackers declared with <:: (audio_buffer_start_waddr/raddr) follow the  *)
(* registered value of audio_buffer_select.  A processor access issued in  *)
(* a cycle is recorded (prev_mem_addr, prev_mem_rw, prev_wdata) and takes  *)
(* effect on the audio memory in the following cycle.                      *)
(***************************************************************************)
EXTENDS Integers

CONSTANTS W,        \* 32-bit words in a bank (128 in cabillot.si)
          PERIOD,   \* cycles between two samples, minus one (3124)
          Sample,   \* values of a sample (8 bits)
          Silence,  \* the value the memory is initialised with
          Masks,    \* byte masks of the stores the processor issues
          Data      \* what it puts on the four bytes of the data bus

N == 4 * W

ASSUME WAssumption == W \in Nat \ {0}
ASSUME PeriodAssumption == PERIOD \in Nat \ {0}
ASSUME SilenceAssumption == Silence \in Sample
\* The masks ice-v.si builds for SB, SH and SW.
StoreMasks == {{0}, {1}, {2}, {3}, {0, 1}, {2, 3}, {0, 1, 2, 3}}

ASSUME MasksAssumption == Masks \subseteq StoreMasks

Lanes == 0 .. 3

ASSUME DataAssumption == Data \subseteq [Lanes -> Sample]

VARIABLES select,   \* audio_buffer_select: the bank to which we write
          sample,   \* audio_buffer_sample: the sample being played
          counter,  \* audio_counter
          mem,      \* audio_buffer, 2*N samples
          rdata0,   \* the read port, which feeds audio.audio_in
          prev      \* the processor access of the previous cycle

vars == <<select, sample, counter, mem, rdata0, prev>>

Address == 0 .. 2 * N - 1

\* A store to the AUDIO range: one of the 2*W words its addresses name, a byte
\* mask and the four bytes put on the data bus.
AudioStore == [word : 0 .. 2 * W - 1, mask : Masks, data : Data]

\* Any other access (fetch, load, RAM, another peripheral): nothing is written.
NoStore == [word |-> 0, mask |-> {}, data |-> [l \in Lanes |-> Silence]]

Access == AudioStore \cup {NoStore}

Init == /\ select = 0
        /\ sample = 0
        /\ counter = 0
        /\ mem = [a \in Address |-> Silence]
        /\ rdata0 \in Sample        \* the output register of the BRAM has no reset
        /\ prev = NoStore

---------------------------------------------------------------------------
\* audio_buffer_start_waddr and audio_buffer_start_raddr.
StartW == IF select = 1 THEN N ELSE 0
StartR == IF select = 1 THEN 0 ELSE N

\* audio_buffer_sample[9,1]: all the samples of the bank have been played.
Done == sample = N

NextSelect == IF Done THEN 1 - select ELSE select

\* (Mutant of NextSample: the return to 0 forgotten.)
NextSampleNoReturn == IF counter # PERIOD THEN sample ELSE sample + 1
NextSample == IF Done THEN 0
              ELSE IF counter # PERIOD THEN sample ELSE sample + 1

\* (Mutant of NextCounter: the delay restarted when the banks swap.)
NextCounterRestart == IF Done \/ counter = PERIOD THEN 0 ELSE counter + 1

NextCounter == IF counter = PERIOD THEN 0 ELSE counter + 1

\* addr0: the start of the bank played, and the low bits of the sample.
ReadAddr == StartR + (IF Done THEN 0 ELSE sample)

\* which = mask[1,2] | {2{mask[3]}}: the byte of the word that is kept.
Which(mask) == IF 3 \in mask THEN 3
               ELSE (IF 1 \in mask THEN 1 ELSE 0) + (IF 2 \in mask THEN 2 ELSE 0)

\* prev_mem_addr[0,7]: the bit that tells the banks apart is dropped.
\* (Mutant: one address bit too many is kept.)
LowWordAndBank(word) == word

LowWord(word) == IF word >= W THEN word - W ELSE word

\* (Mutant of WriteAddr: the bank taken from the address of the processor.)
WriteAddrAsAsked(a) == 4 * a.word + Which(a.mask)

\* addr1: the bank comes from the circuit, the word from the processor.
WriteAddr(a) == StartW + 4 * LowWord(a.word) + Which(a.mask)

NextMem == IF prev.mask = {} THEN mem
           ELSE [mem EXCEPT ![WriteAddr(prev)] = prev.data[Which(prev.mask)]]

Cycle(access) == /\ select' = NextSelect
                 /\ sample' = NextSample
                 /\ counter' = NextCounter
                 /\ rdata0' = mem[ReadAddr]
                 /\ mem' = NextMem
                 /\ prev' = access

Next == \E access \in Access : Cycle(access)

Spec == Init /\ [][Next]_vars

\* The clock does not stop.
FairSpec == Spec /\ WF_vars(Next)

---------------------------------------------------------------------------
(***************************************************************************)
(* Properties.                                                             *)
(***************************************************************************)
TypeOK == /\ select \in {0, 1}
          /\ sample \in 0 .. N
          /\ counter \in 0 .. PERIOD
          /\ mem \in [Address -> Sample]
          /\ rdata0 \in Sample
          /\ prev \in Access

\* A bank is left at once: the circuit stays on "sample = 512" for the single
\* cycle in which the counter is 0, so that swapping takes no time from the
\* cadence (audio_buffer_sample and audio_counter are updated separately).
DoneForOneCycle == Done => counter = 0

\* The time since the banks were swapped, in cycles (plus one).
Phase == sample * (PERIOD + 1) + counter

\* The playback is isochronous: whatever the processor does, the banks are
\* swapped every N*(PERIOD+1) cycles exactly, none lost or gained at a swap,
\* and never between two swaps.
Isochronous ==
  [][/\ Phase' = IF Done THEN 1 ELSE Phase + 1
     /\ (select' # select) <=> (Phase = N * (PERIOD + 1))]_vars

\* The abstract double buffer: in the cycle where sample = N the last sample of
\* the bank is still the one that counts.
DB == INSTANCE DoubleBuffer
        WITH wbank <- select,
             pos   <- IF Done THEN N - 1 ELSE sample,
             bank  <- [b \in {0, 1} |-> [i \in 0 .. N - 1 |-> mem[b * N + i]]]

\* The circuit implements the double buffer: it plays all the samples of one
\* bank in order, swaps, and an access of the processor, with whatever address
\* and mask and in whatever cycle, only changes the bank not being played.
ImplementsDoubleBuffer == DB!FairBuffers

\* The sample in the pipeline: rdata0 holds the sample addressed in the previous
\* cycle.  What is heard for sample i of a bank is what that bank still holds
\* at i, although the processor keeps writing and the banks swap.  The one cycle
\* left out follows a swap (see DacCurrent).
DacPlaysBank ==
  /\ (~Done /\ counter > 0 /\ Phase # 1) => rdata0 = mem[StartR + sample]
  /\ (sample > 0 /\ counter = 0) => rdata0 = mem[StartR + sample - 1]

\* What the comments say (cabillot.si:125 "sample being played", 167 "feed sample
\* to audio out", 171 "current sample"): once a sample is current for a cycle,
\* it is the one fed to the audio output.
DacCurrent == (~Done /\ counter > 0) => rdata0 = mem[StartR + sample]

===========================================================================
