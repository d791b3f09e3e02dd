------------------------ MODULE AudioBufferProofs ------------------------
(* Theorems about the audio streaming circuit, for every bank size, every  *)
(* period and every set of sample values.                                  *)
EXTENDS AudioBuffer, TLAPS

---------------------------------------------------------------------------
(* The operators the circuit is built from.                                *)

\* The byte kept of a store is one of the four of the bus.
LEMMA WhichIsLane == \A mask \in SUBSET Lanes : Which(mask) \in Lanes
BY DEF Which, Lanes

\* A word named by the processor falls inside the bank, whichever of the two
\* banks the processor believes it is writing.
LEMMA LowWordInBank == \A word \in 0 .. 2 * W - 1 : LowWord(word) \in 0 .. W - 1
BY WAssumption DEF LowWord

\* An access is well formed.
LEMMA AccessType ==
  ASSUME NEW a \in Access
  PROVE  /\ a.word \in 0 .. 2 * W - 1
         /\ a.mask \in SUBSET Lanes
         /\ a.data \in [Lanes -> Sample]
BY WAssumption, SilenceAssumption, MasksAssumption, DataAssumption
   DEF StoreMasks, Access, AudioStore, NoStore, Lanes

\* A store of the processor lands in the bank to which the circuit writes.
LEMMA WriteAddrInBank ==
  ASSUME NEW a \in Access, select \in {0, 1}
  PROVE  \E i \in 0 .. N - 1 : WriteAddr(a) = StartW + i
<1>1. LowWord(a.word) \in 0 .. W - 1
  BY AccessType, LowWordInBank
<1>2. Which(a.mask) \in 0 .. 3
  BY AccessType, WhichIsLane DEF Lanes
<1>3. 4 * LowWord(a.word) + Which(a.mask) \in 0 .. N - 1
  BY <1>1, <1>2, WAssumption DEF N
<1> QED
  BY <1>1, <1>2, <1>3, WAssumption DEF WriteAddr, StartW, N

---------------------------------------------------------------------------
\* A step of the clock leaves the bank being played alone, and changes at most
\* one cell of the other one.
LEMMA MemStep ==
  ASSUME TypeOK, mem' = NextMem
  PROVE  /\ mem' \in [Address -> Sample]
         /\ \A i \in 0 .. N - 1 : mem'[StartR + i] = mem[StartR + i]
         /\ \/ mem' = mem
            \/ \E i \in 0 .. N - 1, v \in Sample : mem' = [mem EXCEPT ![StartW + i] = v]
<1>0. N \in Nat
  BY WAssumption DEF N
<1>1. CASE prev.mask = {}
  BY <1>1 DEF NextMem, TypeOK
<1>2. CASE prev.mask # {}
  <2>1. prev \in Access /\ select \in {0, 1} /\ mem \in [Address -> Sample]
    BY DEF TypeOK
  <2>2. PICK i \in 0 .. N - 1 : WriteAddr(prev) = StartW + i
    BY <2>1, WriteAddrInBank
  <2> DEFINE v == prev.data[Which(prev.mask)]
  <2>3. v \in Sample
    BY <2>1, AccessType, WhichIsLane
  <2>4. mem' = [mem EXCEPT ![StartW + i] = v]
    BY <1>2, <2>2 DEF NextMem
  <2> HIDE DEF v
  <2>5. StartW + i \in Address /\ \A j \in 0 .. N - 1 : StartR + j # StartW + i
    BY <1>0, <2>1 DEF StartW, StartR, Address
  <2>6. \A j \in 0 .. N - 1 : StartR + j \in Address
    BY <1>0, <2>1 DEF StartR, Address
  <2> QED
    BY <2>1, <2>3, <2>4, <2>5, <2>6
<1> QED
  BY <1>1, <1>2

---------------------------------------------------------------------------
(* The inductive invariant.  It is the conjunction of the invariants the    *)
(* runs check: DacPlaysBank needs only that the step before did not touch   *)
(* the bank played, and the bound on sample needs Done to lead back to 0.   *)
IInv == TypeOK /\ DoneForOneCycle /\ DacPlaysBank

LEMMA InitIInv == Init => IInv
<1> SUFFICES ASSUME Init PROVE IInv
  OBVIOUS
<1>1. TypeOK
  BY WAssumption, PeriodAssumption, SilenceAssumption
     DEF Init, TypeOK, N, Access
<1>2. DoneForOneCycle /\ DacPlaysBank
  BY WAssumption DEF Init, DoneForOneCycle, DacPlaysBank, Done, N
<1> QED
  BY <1>1, <1>2 DEF IInv

LEMMA NextIInv == IInv /\ [Next]_vars => IInv'
<1> SUFFICES ASSUME IInv, [Next]_vars PROVE IInv'
  OBVIOUS
<1>0. N \in Nat \ {0} /\ PERIOD \in Nat \ {0}
  BY WAssumption, PeriodAssumption DEF N
<1>1. CASE UNCHANGED vars
  BY <1>1 DEF IInv, TypeOK, DoneForOneCycle, DacPlaysBank, vars, Done, Phase, StartR
<1>2. ASSUME NEW access \in Access, Cycle(access) PROVE IInv'
  <2>0. mem' = NextMem /\ TypeOK
    BY <1>2 DEF Cycle, IInv
  <2>1. TypeOK'
    <3>1. (select \in {0, 1})' /\ (sample \in 0 .. N)' /\ (counter \in 0 .. PERIOD)'
      BY <1>0, <1>2, <2>0
         DEF TypeOK, Cycle, NextSelect, NextSample, NextCounter, Done
    <3>2. mem' \in [Address -> Sample]
      BY <2>0, MemStep
    <3>3. ReadAddr \in Address
      BY <1>0, <2>0 DEF TypeOK, ReadAddr, StartR, Done, Address
    <3>4. rdata0' \in Sample /\ prev' \in Access
      BY <1>2, <2>0, <3>3 DEF TypeOK, Cycle
    <3> QED
      BY <3>1, <3>2, <3>4 DEF TypeOK
  <2>2. DoneForOneCycle'
    BY <1>0, <1>2, <2>0
       DEF TypeOK, Cycle, DoneForOneCycle, Done, NextSample, NextCounter
  <2>3. DacPlaysBank'
    <3>1. CASE Done
      <4>1. sample' = 0 /\ counter' = 1
        BY <1>0, <1>2, <3>1 DEF IInv, DoneForOneCycle, Cycle, NextSample, NextCounter
      <4>2. Phase' = 1
        BY <1>0, <4>1 DEF Phase
      <4> QED
        BY <4>1, <4>2 DEF DacPlaysBank
    <3>2. CASE ~Done
      <4>1. sample \in 0 .. N - 1 /\ StartR' = StartR
        BY <1>0, <1>2, <2>0, <3>2
           DEF TypeOK, Done, Cycle, NextSelect, StartR
      <4>2. rdata0' = mem'[StartR' + sample]
        BY <1>2, <2>0, <3>2, <4>1, MemStep DEF Cycle, ReadAddr
      <4>3. CASE counter = PERIOD
        <5>1. sample' = sample + 1 /\ counter' = 0
          BY <1>2, <3>2, <4>3 DEF Cycle, NextSample, NextCounter
        <5>2. StartR' \in Int /\ sample \in Int
          BY <1>0, <4>1 DEF StartR
        <5> QED
          BY <4>2, <5>1, <5>2 DEF DacPlaysBank
      <4>4. CASE counter # PERIOD
        <5>1. sample' = sample /\ counter' = counter + 1 /\ counter \in Nat
          BY <1>2, <2>0, <3>2, <4>4 DEF Cycle, NextSample, NextCounter, TypeOK
        <5> QED
          BY <4>2, <5>1 DEF DacPlaysBank
      <4> QED
        BY <4>3, <4>4
    <3> QED
      BY <3>1, <3>2
  <2> QED
    BY <2>1, <2>2, <2>3 DEF IInv
<1> QED
  BY <1>1, <1>2 DEF Next

\* In every reachable state the circuit is well typed, spends one cycle only
\* on sample = N, and feeds the audio output with the sample the bank holds.
THEOREM Invariance == Spec => [](TypeOK /\ DoneForOneCycle /\ DacPlaysBank)
<1>1. IInv => TypeOK /\ DoneForOneCycle /\ DacPlaysBank
  BY DEF IInv
<1> QED
  BY InitIInv, NextIInv, <1>1, PTL DEF Spec

\* The circuit never leaves its types: the position in a bank and the cadence stay in
\* their bounds, and whatever is stored, the write lands in the audio memory.
THEOREM TypeCorrect == Spec => []TypeOK
<1>1. IInv => TypeOK
  BY DEF IInv
<1> QED
  BY InitIInv, NextIInv, <1>1, PTL DEF Spec

---------------------------------------------------------------------------
\* A bank whose sample is not the last one has been played for less than the
\* time of a bank.
LEMMA PhaseBound ==
  ASSUME NEW s \in Int, NEW n \in Int, NEW c \in Int, NEW p \in Nat,
         s <= n - 1, c <= p
  PROVE  s * (p + 1) + c < n * (p + 1)
<1>1. s * (p + 1) <= (n - 1) * (p + 1)
  <2> DEFINE d == n - 1 - s
  <2>1. d \in Nat
    OBVIOUS
  <2>2. (n - 1) * (p + 1) = s * (p + 1) + d * (p + 1)
    OBVIOUS
  <2>3. d * (p + 1) \in Nat
    BY <2>1
  <2> HIDE DEF d
  <2>4. s * (p + 1) \in Int /\ (n - 1) * (p + 1) \in Int
    OBVIOUS
  <2> QED
    BY <2>2, <2>3, <2>4
<1>2. (n - 1) * (p + 1) + (p + 1) = n * (p + 1)
  OBVIOUS
<1>3. s * (p + 1) \in Int /\ (n - 1) * (p + 1) \in Int /\ n * (p + 1) \in Int
  OBVIOUS
<1> QED
  BY <1>1, <1>2, <1>3

\* A step of the clock takes exactly one cycle of the time of the bank, and
\* the banks are swapped when that time is up and only then.
LEMMA PhaseStep ==
  ASSUME IInv, Next
  PROVE  /\ Phase' = IF Done THEN 1 ELSE Phase + 1
         /\ (select' # select) <=> (Phase = N * (PERIOD + 1))
<1>0. N \in Nat \ {0} /\ PERIOD \in Nat \ {0}
  BY WAssumption, PeriodAssumption DEF N
<1>1. /\ select \in {0, 1} /\ sample \in 0 .. N /\ counter \in 0 .. PERIOD
      /\ Done => counter = 0
  BY DEF IInv, TypeOK, DoneForOneCycle
<1>2. select' = NextSelect /\ sample' = NextSample /\ counter' = NextCounter
  BY DEF Next, Cycle
<1>3. CASE Done
  <2>1. sample' = 0 /\ counter' = 1 /\ sample = N /\ counter = 0
    BY <1>0, <1>1, <1>2, <1>3 DEF NextSample, NextCounter, Done
  <2>2. Phase' = 1 /\ Phase = N * (PERIOD + 1)
    BY <1>0, <2>1 DEF Phase
  <2>3. select' # select
    BY <1>1, <1>2, <1>3 DEF NextSelect
  <2> QED
    BY <1>3, <2>2, <2>3
<1>4. CASE ~Done
  <2>1. sample \in Int /\ sample <= N - 1 /\ select' = select
    BY <1>0, <1>1, <1>2, <1>4 DEF Done, NextSelect
  <2>2. Phase < N * (PERIOD + 1)
    BY <1>0, <1>1, <2>1, PhaseBound DEF Phase
  <2>3. Phase \in Int /\ N * (PERIOD + 1) \in Int
    BY <1>0, <1>1 DEF Phase
  <2>4. Phase' = Phase + 1
    <3>1. CASE counter = PERIOD
      <4>1. sample' = sample + 1 /\ counter' = 0
        BY <1>2, <1>4, <3>1 DEF NextSample, NextCounter
      <4>2. (sample + 1) * (PERIOD + 1) = sample * (PERIOD + 1) + PERIOD + 1
        BY <1>0, <1>1
      <4>3. sample * (PERIOD + 1) \in Int
        BY <1>0, <1>1
      <4> QED
        BY <1>0, <3>1, <4>1, <4>2, <4>3 DEF Phase
    <3>2. CASE counter # PERIOD
      <4>1. sample' = sample /\ counter' = counter + 1
        BY <1>2, <1>4, <3>2 DEF NextSample, NextCounter
      <4>2. sample * (PERIOD + 1) \in Int
        BY <1>0, <1>1
      <4> QED
        BY <1>1, <4>1, <4>2 DEF Phase
    <3> QED
      BY <3>1, <3>2
  <2> QED
    BY <1>4, <2>1, <2>2, <2>3, <2>4
<1> QED
  BY <1>3, <1>4

\* The playback is isochronous: the banks are swapped every N*(PERIOD+1) cycles,
\* whatever the processor does.
THEOREM Cadence == Spec => Isochronous
<1>1. IInv /\ [Next]_vars
      => [/\ Phase' = IF Done THEN 1 ELSE Phase + 1
          /\ (select' # select) <=> (Phase = N * (PERIOD + 1))]_vars
  BY PhaseStep
<1> QED
  BY InitIInv, NextIInv, <1>1, PTL DEF Spec, Isochronous

---------------------------------------------------------------------------
(* The circuit implements the double buffer.                               *)

LEMMA InitRefines == Init => DB!BuffersInit
<1> SUFFICES ASSUME Init PROVE DB!BuffersInit
  OBVIOUS
<1>0. N \in Nat \ {0}
  BY WAssumption DEF N
<1>1. (IF Done THEN N - 1 ELSE sample) = 0 /\ select = 0
  BY <1>0 DEF Init, Done
<1>2. \A b \in {0, 1}, i \in 0 .. N - 1 : mem[b * N + i] = Silence
  BY <1>0 DEF Init, Address
<1> QED
  BY <1>1, <1>2 DEF DB!BuffersInit, DB!Index

\* The bank of the abstract buffer in which the processor stores is the one at
\* StartW, the one that is played is the one at StartR.
LEMMA StartOfBank ==
  ASSUME select \in {0, 1}
  PROVE  StartW = select * N /\ StartR = (1 - select) * N
BY WAssumption DEF StartW, StartR, N

LEMMA StepRefines ==
  ASSUME IInv, Next
  PROVE  [DB!BuffersNext]_(DB!buffers)
<1> DEFINE Bank(m) == [b \in {0, 1} |-> [i \in 0 .. N - 1 |-> m[b * N + i]]]
<1>0. N \in Nat \ {0} /\ PERIOD \in Nat \ {0}
  BY WAssumption, PeriodAssumption DEF N
<1>1. /\ select \in {0, 1} /\ sample \in 0 .. N /\ counter \in 0 .. PERIOD
      /\ Done => counter = 0
      /\ mem \in [Address -> Sample]
  BY DEF IInv, TypeOK, DoneForOneCycle
<1>2. /\ select' = NextSelect /\ sample' = NextSample /\ counter' = NextCounter
      /\ mem' = NextMem
  BY DEF Next, Cycle
<1>3. DB!Store \/ UNCHANGED Bank(mem)
  <2>1. CASE mem' = mem
    BY <2>1
  <2>2. ASSUME NEW i \in 0 .. N - 1, NEW v \in Sample,
               mem' = [mem EXCEPT ![StartW + i] = v]
        PROVE  DB!Store
    <3>1. StartW = select * N
      BY <1>1, StartOfBank
    <3>2. \A b \in {0, 1}, j \in 0 .. N - 1 :
             /\ b * N + j \in Address
             /\ (b * N + j = select * N + i) <=> (b = select /\ j = i)
      BY <1>0, <1>1 DEF Address
    <3>3. \A b \in {0, 1}, j \in 0 .. N - 1 :
             mem'[b * N + j] = IF b = select /\ j = i THEN v ELSE mem[b * N + j]
      BY <1>1, <2>2, <3>1, <3>2
    <3>4. Bank(mem)' = [Bank(mem) EXCEPT ![select][i] = v]
      <4> DEFINE Cells(m, b) == [j \in 0 .. N - 1 |-> m[b * N + j]]
      <4>1. Cells(mem', select) = [Cells(mem, select) EXCEPT ![i] = v]
        BY <1>1, <3>3
      <4>2. \A b \in {0, 1} : b # select => Cells(mem', b) = Cells(mem, b)
        BY <3>3
      <4>3. Bank(mem) = [b \in {0, 1} |-> Cells(mem, b)]
        OBVIOUS
      <4>4. Bank(mem)' = [b \in {0, 1} |-> Cells(mem', b)]
        OBVIOUS
      <4> HIDE DEF Cells, Bank
      <4>5. [Bank(mem) EXCEPT ![select][i] = v]
              = [Bank(mem) EXCEPT ![select] = [Cells(mem, select) EXCEPT ![i] = v]]
        BY <1>1, <4>3
      <4> QED
        BY <1>1, <4>1, <4>2, <4>3, <4>4, <4>5
    <3> QED
      BY <3>4 DEF DB!Store, DB!Put, DB!Index
  <2> QED
    BY <1>2, <2>1, <2>2, MemStep DEF IInv
<1>4. DB!Tick \/ UNCHANGED <<select, IF Done THEN N - 1 ELSE sample>>
  <2>1. CASE Done
    <3>1. select' = 1 - select /\ sample' = 0
      BY <1>2, <2>1 DEF NextSelect, NextSample
    <3>2. ~Done'
      BY <1>0, <3>1 DEF Done
    <3> QED
      BY <1>0, <2>1, <3>1, <3>2 DEF DB!Tick, DB!Swap
  <2>2. CASE ~Done
    <3>1. select' = select /\ sample \in 0 .. N - 1
      BY <1>0, <1>1, <1>2, <2>2 DEF NextSelect, Done
    <3>2. CASE counter = PERIOD /\ sample + 1 < N
      <4>1. sample' = sample + 1 /\ ~Done'
        BY <1>2, <2>2, <3>1, <3>2 DEF NextSample, Done
      <4> QED
        BY <2>2, <3>1, <3>2, <4>1 DEF DB!Tick, DB!Advance
    <3>3. CASE counter = PERIOD /\ sample + 1 = N
      <4>1. sample' = N /\ Done'
        BY <1>2, <2>2, <3>3 DEF NextSample, Done
      <4> QED
        BY <1>0, <2>2, <3>1, <3>3, <4>1
    <3>4. CASE counter # PERIOD
      <4>1. sample' = sample /\ ~Done'
        BY <1>2, <2>2, <3>4 DEF NextSample, Done
      <4> QED
        BY <2>2, <3>1, <4>1
    <3>5. sample + 1 < N \/ sample + 1 = N
      BY <1>0, <3>1
    <3> QED
      BY <3>2, <3>3, <3>4, <3>5
  <2> QED
    BY <2>1, <2>2
<1> QED
  BY <1>3, <1>4 DEF DB!BuffersNext

\* Every behaviour of the circuit is one of the double buffer: the player goes
\* through all the samples of a bank and swaps, and the processor only reaches
\* the bank that is not played.
THEOREM Refinement == Spec => DB!Buffers
<1>1. IInv /\ UNCHANGED vars => UNCHANGED DB!buffers
  BY DEF vars, DB!buffers, Done
<1>2. IInv /\ [Next]_vars => [DB!BuffersNext]_(DB!buffers)
  BY <1>1, StepRefines
<1> QED
  BY InitRefines, InitIInv, NextIInv, <1>2, PTL DEF Spec, DB!Buffers
===========================================================================
