------------------------ MODULE StreamPlayerProofs ------------------------
(***************************************************************************)
(* Theorems about StreamPlayer, for every size of a bank, every length of   *)
(* the file and every speed of the firmware allowed by BudgetAssumption.    *)
(***************************************************************************)
EXTENDS StreamPlayer, TLAPS

---------------------------------------------------------------------------
(* The inductive invariant.                                                *)

\* The banks were exchanged since the last poll of *AUDIO, ...
Fresh == pos + 1 <= work
\* ... or since the one before: no exchange before the next poll.
Early == pos + 1 <= Budget + work

BankSilent(b) == \A i \in 0 .. N - 1 : bank[b][i] = Silence

\* clear_audio clears a bank within the time it is not played, and the other
\* one at the next exchange.
ClearInv ==
  /\ pc \in ClearLabels \ {"sync"} => round \in {0, 1}
  /\ pc = "synced" => round = 0 /\ (caddr = wbank \/ Fresh)
  /\ pc \in {"clearAddr", "clearByte"} =>
       Early /\ (round = 1 => BankSilent(1 - wbank))
  /\ pc = "clearByte" => /\ caddr = wbank /\ k < N
                         /\ \A i \in 0 .. N - 1 : i < k => bank[wbank][i] = Silence
  /\ pc = "clearSwap" => /\ caddr = wbank \/ Fresh
                         /\ BankSilent(caddr)
                         /\ round = 1 => BankSilent(1 - caddr)

\* What clear_audio leaves is left until the next block is copied.
StopInv ==
  /\ pc \in (PatientLabels \ {"release"}) \cup {"pause", "close"} => AllSilent
  /\ pause => AllSilent /\ pc \in {"wait", "button", "leds", "release"}

\* The file is at its beginning until it is opened.
OpenInv ==
  pc = "open" \/ (pc \in ClearLabels /\ ret = "open") =>
    block = 0 /\ 1 \in risky /\ tries < 2

\* The next block, if there is one, is not loaded at an exchange.
NextRisky == block = B \/ block + 1 \in risky

\* The address read at line 99 is the one of the bank not played, unless the
\* banks have just been exchanged.
AddrInv ==
  /\ pc = "addr" => Early \/ NextRisky
  /\ pc = "read" => /\ addr = wbank \/ Fresh
                    /\ (Early /\ addr = wbank) \/ NextRisky
  /\ pc = "copy" => /\ addr = wbank \/ Fresh
                    /\ (Early /\ addr = wbank) \/ block \in risky
                    /\ k < N
  /\ pc \in {"wait", "button", "leds"} /\ ~pause /\ loop =>
       addr = wbank \/ Fresh \/ NextRisky
  /\ pc = "release" /\ ~pause /\ loop => NextRisky

\* The LEDs are switched off before each clear_audio that stops the music.
LedsInv ==
  /\ pc \in (PatientLabels \ {"release"}) \cup {"close"} => ~lit
  /\ pc \in ClearLabels /\ ret # "pause" => ~lit
  /\ pc = "wait" /\ pause => ~lit

IInv == TypeOK /\ ClearInv /\ StopInv /\ OpenInv /\ AddrInv /\ LedsInv

USE BlockAssumption, BudgetAssumption
USE DEF ClearLabels, PlayLabels, CallbackLabels, PatientLabels,
        hw, clear, file, controls, history

---------------------------------------------------------------------------
(* Stores and samples.                                                     *)

\* A store at index k changes that cell of the bank not played and no other.
LEMMA PutType ==
  ASSUME TypeOK, NEW v \in 0 .. B, k < N, HW!Put(k, v)
  PROVE  /\ bank' \in [{0, 1} -> [0 .. N - 1 -> 0 .. B]]
         /\ bank'[wbank][k] = v
         /\ \A b \in {0, 1}, i \in 0 .. N - 1 :
              b # wbank \/ i # k => bank'[b][i] = bank[b][i]
<1>1. wbank \in {0, 1} /\ bank \in [{0, 1} -> [0 .. N - 1 -> 0 .. B]]
  BY DEF TypeOK, HW!BuffersTypeOK, HW!Index
<1>2. k \in 0 .. N - 1
  BY DEF TypeOK, CountersOK
<1>3. bank' = [bank EXCEPT ![wbank][k] = v]
  BY DEF HW!Put
<1>4. \A b \in {0, 1}, i \in 0 .. N - 1 :
        b # wbank \/ i # k => bank'[b][i] = bank[b][i]
  BY <1>1, <1>2, <1>3
<1> QED
  BY <1>1, <1>2, <1>3, <1>4

\* The place of the sample being played is a place of the file, or 0.
LEMMA PlaceType ==
  ASSUME TypeOK
  PROVE  Place \in 0 .. B * N
<1>1. HW!Played \in 0 .. B /\ pos \in 0 .. N - 1 /\ N \in Nat /\ B \in Nat
  BY DEF TypeOK, HW!BuffersTypeOK, HW!Index, HW!Played, HW!PlayBank
<1>2. \A p \in 1 .. B, i \in 0 .. N - 1 : (p - 1) * N + i + 1 \in 0 .. B * N
  <2> TAKE p \in 1 .. B, i \in 0 .. N - 1
  <2>1. (p - 1) * N \in Nat /\ (B - p) * N \in Nat /\ B * N = (B - p) * N + (p - 1) * N + N
    BY <1>1, SMT
  <2>2. \A x, y \in Nat : x + i + 1 \in 0 .. (y + x + N)
    BY <1>1
  <2> QED BY <2>1, <2>2
<1> QED
  BY <1>1, <1>2 DEF Place, Silence

\* The next sample of the bank, or the first one of the other bank.
LEMMA TickType ==
  ASSUME TypeOK, HW!Tick
  PROVE  /\ wbank' \in {0, 1} /\ pos' \in 0 .. N - 1
         /\ \/ pos' = pos + 1 /\ wbank' = wbank
            \/ pos + 1 = N /\ pos' = 0 /\ wbank' = 1 - wbank
  BY DEF TypeOK, HW!BuffersTypeOK, HW!Index, HW!Tick, HW!Advance, HW!Swap

---------------------------------------------------------------------------
(* Every step keeps the invariant: the player and the two actions that     *)
(* store into a bank first.                                                *)

LEMMA ClearByteStep == ASSUME IInv, ClearByte PROVE IInv'
<1>0. k < N /\ k \in 0 .. N /\ Silence \in 0 .. B /\ TypeOK
  BY DEF IInv, TypeOK, CountersOK, ClearInv, ClearByte, Silence
<1>1. /\ bank' \in [{0, 1} -> [0 .. N - 1 -> 0 .. B]]
      /\ bank'[wbank][k] = Silence
      /\ \A b \in {0, 1}, i \in 0 .. N - 1 :
              b # wbank \/ i # k => bank'[b][i] = bank[b][i]
  BY <1>0, PutType DEF ClearByte
<1>2. TypeOK'
  <2>1. HW!BuffersTypeOK'
    BY <1>0, <1>1 DEF TypeOK, HW!BuffersTypeOK, HW!Index, ClearByte
  <2>2. ControlOK'
    BY <1>0 DEF ControlOK, TypeOK, ClearByte
  <2>3. CountersOK'
    BY <1>0 DEF CountersOK, TypeOK, ClearByte
  <2> QED
    BY <1>0, <2>1, <2>2, <2>3 DEF TypeOK, HistoryOK, ClearByte
<1>3. ClearInv'
  <2>1. wbank \in {0, 1} /\ caddr = wbank /\ Early /\ round \in {0, 1}
    BY <1>0 DEF IInv, ClearInv, TypeOK, HW!BuffersTypeOK, ClearByte
  <2>2. k' = k + 1 /\ UNCHANGED <<wbank, pos, work, caddr, round>>
    BY DEF ClearByte
  <2>3. \A i \in 0 .. N - 1 : i < k + 1 => bank'[wbank][i] = Silence
    <3>1. \A i \in 0 .. N - 1 : i < k => bank[wbank][i] = Silence
      BY DEF IInv, ClearInv, ClearByte
    <3> TAKE i \in 0 .. N - 1
    <3>2. CASE i = k
      BY <1>1, <3>2
    <3>3. CASE i # k
      <4>1. bank'[wbank][i] = bank[wbank][i]
        BY <1>1, <2>1, <3>3
      <4>2. i < k + 1 => i < k
        BY <1>0, <3>3
      <4> QED
        BY <3>1, <4>1, <4>2
    <3> QED
      BY <3>2, <3>3
  <2>4. round = 1 => \A i \in 0 .. N - 1 : bank'[1 - wbank][i] = Silence
    <3>1. round = 1 => \A i \in 0 .. N - 1 : bank[1 - wbank][i] = Silence
      BY DEF IInv, ClearInv, BankSilent, ClearByte
    <3>2. \A i \in 0 .. N - 1 : bank'[1 - wbank][i] = bank[1 - wbank][i]
      BY <1>1, <2>1
    <3> QED
      BY <3>1, <3>2
  <2>5. /\ k + 1 = N => pc' = "clearSwap"
        /\ k + 1 # N => pc' = "clearByte" /\ k + 1 < N
    BY <1>0 DEF ClearByte
  <2> QED
    BY <1>0, <2>1, <2>2, <2>3, <2>4, <2>5 DEF ClearInv, Early, BankSilent
<1>4. StopInv' /\ OpenInv' /\ AddrInv' /\ LedsInv'
  BY DEF IInv, StopInv, OpenInv, AddrInv, LedsInv, ClearByte
<1> QED
  BY <1>2, <1>3, <1>4 DEF IInv

LEMMA CopyByteStep == ASSUME IInv, CopyByte PROVE IInv'
<1>0. k < N /\ k \in 0 .. N /\ block \in 0 .. B /\ TypeOK
  BY DEF IInv, TypeOK, CountersOK, AddrInv, CopyByte
<1>1. /\ bank' \in [{0, 1} -> [0 .. N - 1 -> 0 .. B]]
      /\ bank'[wbank][k] = block
      /\ \A b \in {0, 1}, i \in 0 .. N - 1 :
              b # wbank \/ i # k => bank'[b][i] = bank[b][i]
  BY <1>0, PutType DEF CopyByte
<1>2. TypeOK'
  <2>1. HW!BuffersTypeOK'
    BY <1>0, <1>1 DEF TypeOK, HW!BuffersTypeOK, HW!Index, CopyByte
  <2>2. ControlOK'
    BY <1>0 DEF ControlOK, TypeOK, CopyByte
  <2>3. CountersOK'
    BY <1>0 DEF CountersOK, TypeOK, CopyByte
  <2> QED
    BY <1>0, <2>1, <2>2, <2>3 DEF TypeOK, HistoryOK, CopyByte
<1>3. AddrInv'
  BY <1>0 DEF IInv, AddrInv, TypeOK, CountersOK, CopyByte, Fresh, Early, NextRisky
<1>4. ClearInv' /\ StopInv' /\ OpenInv' /\ LedsInv'
  BY DEF IInv, ClearInv, StopInv, OpenInv, LedsInv, CopyByte
<1> QED
  BY <1>2, <1>3, <1>4 DEF IInv

LEMMA PlaySampleStep == ASSUME IInv, PlaySample PROVE IInv'
<1>0. TypeOK /\ HW!Tick /\ Place \in 0 .. B * N
  BY PlaceType DEF IInv, PlaySample
<1>1. /\ wbank' \in {0, 1} /\ pos' \in 0 .. N - 1
      /\ \/ pos' = pos + 1 /\ wbank' = wbank
         \/ pos + 1 = N /\ pos' = 0 /\ wbank' = 1 - wbank
  BY <1>0, TickType
<1>2. work' \in 0 .. Budget
  BY <1>0 DEF PlaySample, TypeOK, CountersOK
<1>3. heard' \in 0 .. B * N /\ quiet' \in BOOLEAN
  BY <1>0 DEF PlaySample, TypeOK, HistoryOK
<1>4. TypeOK'
  BY <1>0, <1>1, <1>2, <1>3 DEF TypeOK, ControlOK, CountersOK, HistoryOK, HW!BuffersTypeOK, HW!Index, PlaySample
<1>5. ClearInv' /\ AddrInv'
  <2>1. CASE pos' = pos + 1 /\ wbank' = wbank
    BY <1>0, <2>1 DEF IInv, ClearInv, AddrInv, TypeOK, CountersOK, HW!BuffersTypeOK, HW!Index, PlaySample, Busy, Fresh, Early, BankSilent, NextRisky
  <2>2. CASE pos + 1 = N /\ pos' = 0 /\ wbank' = 1 - wbank
    <3>1. ClearInv'
      BY <1>0, <1>1, <2>2 DEF IInv, ClearInv, TypeOK, CountersOK, HW!BuffersTypeOK, HW!Index, PlaySample, Busy, Fresh, Early, BankSilent
    <3>2. AddrInv'
      BY <1>0, <1>1, <2>2 DEF IInv, AddrInv, TypeOK, CountersOK, HW!BuffersTypeOK, HW!Index, PlaySample, Busy, Fresh, Early, NextRisky
    <3> QED BY <3>1, <3>2
  <2> QED
    BY <1>1, <2>1, <2>2
<1>6. StopInv' /\ OpenInv' /\ LedsInv'
  BY DEF IInv, StopInv, OpenInv, LedsInv, PlaySample, AllSilent
<1> QED
  BY <1>4, <1>5, <1>6 DEF IInv

---------------------------------------------------------------------------
(* The other actions leave the banks alone.                                *)

LEMMA ClearSyncStep == ASSUME IInv, ClearSync PROVE IInv'
<1>1. TypeOK'
  <2>1. ControlOK'
    BY DEF IInv, TypeOK, ControlOK, ClearSync
  <2>2. CountersOK'
    BY DEF IInv, TypeOK, CountersOK, ClearInv, OpenInv, ClearSync, StopSignals,
           ClearRounds, HW!BuffersTypeOK, HW!Index
  <2>3. HW!BuffersTypeOK' /\ HistoryOK'
    BY DEF IInv, TypeOK, HistoryOK, ClearSync, HW!BuffersTypeOK, Blocks
  <2> QED
    BY <2>1, <2>2, <2>3 DEF TypeOK
<1>2. ClearInv' /\ StopInv' /\ AddrInv'
  BY DEF IInv, TypeOK, ControlOK, CountersOK, ClearInv, StopInv, OpenInv,
         AddrInv, ClearSync, HW!BuffersTypeOK, HW!Index, Fresh, Early,
         NextRisky, BankSilent, AllSilent, Blocks
<1>3. OpenInv' /\ LedsInv'
  BY DEF IInv, TypeOK, CountersOK, OpenInv, LedsInv, StopInv, ClearSync
<1> QED
  BY <1>1, <1>2, <1>3 DEF IInv

LEMMA ClearSyncedStep == ASSUME IInv, ClearSynced PROVE IInv'
<1>1. TypeOK'
  <2>1. ControlOK'
    BY DEF IInv, TypeOK, ControlOK, ClearSynced
  <2>2. CountersOK'
    BY DEF IInv, TypeOK, CountersOK, ClearInv, OpenInv, ClearSynced,
           StopSignals, ClearRounds, HW!BuffersTypeOK, HW!Index
  <2>3. HW!BuffersTypeOK' /\ HistoryOK'
    BY DEF IInv, TypeOK, HistoryOK, ClearSynced, HW!BuffersTypeOK, Blocks
  <2> QED
    BY <2>1, <2>2, <2>3 DEF TypeOK
<1>2. ClearInv' /\ StopInv' /\ AddrInv'
  BY DEF IInv, TypeOK, ControlOK, CountersOK, ClearInv, StopInv, OpenInv,
         AddrInv, ClearSynced, HW!BuffersTypeOK, HW!Index, Fresh, Early,
         NextRisky, BankSilent, AllSilent, Blocks
<1>3. OpenInv' /\ LedsInv'
  BY DEF IInv, TypeOK, CountersOK, OpenInv, LedsInv, StopInv, ClearSynced
<1> QED
  BY <1>1, <1>2, <1>3 DEF IInv

LEMMA ClearAddrStep == ASSUME IInv, ClearAddr PROVE IInv'
<1>1. TypeOK'
  <2>1. ControlOK'
    BY DEF IInv, TypeOK, ControlOK, ClearAddr
  <2>2. CountersOK'
    BY DEF IInv, TypeOK, CountersOK, ClearInv, OpenInv, ClearAddr, StopSignals,
           ClearRounds, HW!BuffersTypeOK, HW!Index
  <2>3. HW!BuffersTypeOK' /\ HistoryOK'
    BY DEF IInv, TypeOK, HistoryOK, ClearAddr, HW!BuffersTypeOK, Blocks
  <2> QED
    BY <2>1, <2>2, <2>3 DEF TypeOK
<1>2. ClearInv' /\ StopInv' /\ AddrInv'
  BY DEF IInv, TypeOK, ControlOK, CountersOK, ClearInv, StopInv, OpenInv,
         AddrInv, ClearAddr, HW!BuffersTypeOK, HW!Index, Fresh, Early,
         NextRisky, BankSilent, AllSilent, Blocks
<1>3. OpenInv' /\ LedsInv'
  BY DEF IInv, TypeOK, CountersOK, OpenInv, LedsInv, StopInv, ClearAddr
<1> QED
  BY <1>1, <1>2, <1>3 DEF IInv

LEMMA ClearSwapStep == ASSUME IInv, ClearSwap PROVE IInv'
<1>1. TypeOK'
  <2>1. ControlOK'
    BY DEF IInv, TypeOK, ControlOK, ClearSwap, ClearRounds
  <2>2. CountersOK'
    BY DEF IInv, TypeOK, CountersOK, ClearInv, OpenInv, ClearSwap, ClearRounds,
           StopSignals, HW!BuffersTypeOK, HW!Index
  <2>3. HW!BuffersTypeOK' /\ HistoryOK'
    BY DEF IInv, TypeOK, HistoryOK, ClearSwap, HW!BuffersTypeOK, Blocks
  <2> QED
    BY <2>1, <2>2, <2>3 DEF TypeOK
<1>2. ClearInv' /\ StopInv' /\ AddrInv'
  BY DEF IInv, TypeOK, ControlOK, CountersOK, ClearInv, StopInv, OpenInv,
         AddrInv, ClearSwap, ClearRounds, HW!BuffersTypeOK, HW!Index, Fresh,
         Early, NextRisky, BankSilent, AllSilent, Blocks
<1>3. OpenInv' /\ LedsInv'
  BY DEF IInv, TypeOK, CountersOK, OpenInv, LedsInv, StopInv, ClearSwap,
         ClearRounds
<1> QED
  BY <1>1, <1>2, <1>3 DEF IInv

LEMMA PlayStep == ASSUME IInv, Play PROVE IInv'
<1>1. TypeOK'
  <2>1. ControlOK'
    BY DEF IInv, TypeOK, ControlOK, Play
  <2>2. CountersOK'
    BY DEF IInv, TypeOK, CountersOK, ClearInv, OpenInv, Play, StopSignals,
           ClearRounds, HW!BuffersTypeOK, HW!Index
  <2>3. HW!BuffersTypeOK' /\ HistoryOK'
    BY DEF IInv, TypeOK, HistoryOK, Play, HW!BuffersTypeOK, Blocks
  <2> QED
    BY <2>1, <2>2, <2>3 DEF TypeOK
<1>2. ClearInv' /\ StopInv' /\ AddrInv'
  BY DEF IInv, TypeOK, ControlOK, CountersOK, ClearInv, StopInv, OpenInv,
         AddrInv, Play, HW!BuffersTypeOK, HW!Index, Fresh, Early, NextRisky,
         BankSilent, AllSilent, Blocks
<1>3. OpenInv' /\ LedsInv'
  BY DEF IInv, TypeOK, CountersOK, OpenInv, LedsInv, StopInv, Play
<1> QED
  BY <1>1, <1>2, <1>3 DEF IInv

LEMMA OpenedStep == ASSUME IInv, Opened PROVE IInv'
<1>1. TypeOK'
  <2>1. ControlOK'
    BY DEF IInv, TypeOK, ControlOK, Opened
  <2>2. CountersOK'
    BY DEF IInv, TypeOK, CountersOK, ClearInv, OpenInv, Opened, StopSignals,
           ClearRounds, HW!BuffersTypeOK, HW!Index
  <2>3. HW!BuffersTypeOK' /\ HistoryOK'
    BY DEF IInv, TypeOK, HistoryOK, Opened, HW!BuffersTypeOK, Blocks
  <2> QED
    BY <2>1, <2>2, <2>3 DEF TypeOK
<1>2. ClearInv' /\ StopInv' /\ AddrInv'
  BY DEF IInv, TypeOK, ControlOK, CountersOK, ClearInv, StopInv, OpenInv,
         AddrInv, Opened, HW!BuffersTypeOK, HW!Index, Fresh, Early, NextRisky,
         BankSilent, AllSilent, Blocks
<1>3. OpenInv' /\ LedsInv'
  BY DEF IInv, TypeOK, CountersOK, OpenInv, LedsInv, StopInv, Opened
<1> QED
  BY <1>1, <1>2, <1>3 DEF IInv

LEMMA NotOpenedStep == ASSUME IInv, NotOpened PROVE IInv'
<1>1. TypeOK'
  <2>1. ControlOK'
    BY DEF IInv, TypeOK, ControlOK, NotOpened
  <2>2. CountersOK'
    BY DEF IInv, TypeOK, CountersOK, ClearInv, OpenInv, NotOpened, StopSignals,
           ClearRounds, HW!BuffersTypeOK, HW!Index
  <2>3. HW!BuffersTypeOK' /\ HistoryOK'
    BY DEF IInv, TypeOK, HistoryOK, NotOpened, HW!BuffersTypeOK, Blocks
  <2> QED
    BY <2>1, <2>2, <2>3 DEF TypeOK
<1>2. ClearInv' /\ StopInv' /\ AddrInv'
  BY DEF IInv, TypeOK, ControlOK, CountersOK, ClearInv, StopInv, OpenInv,
         AddrInv, NotOpened, HW!BuffersTypeOK, HW!Index, Fresh, Early,
         NextRisky, BankSilent, AllSilent, Blocks
<1>3. OpenInv' /\ LedsInv'
  BY DEF IInv, TypeOK, CountersOK, OpenInv, LedsInv, StopInv, NotOpened
<1> QED
  BY <1>1, <1>2, <1>3 DEF IInv

LEMMA ErrorSeenStep == ASSUME IInv, ErrorSeen PROVE IInv'
<1>1. TypeOK'
  <2>1. ControlOK'
    BY DEF IInv, TypeOK, ControlOK, ErrorSeen
  <2>2. CountersOK'
    BY DEF IInv, TypeOK, CountersOK, ClearInv, OpenInv, ErrorSeen, StopSignals,
           ClearRounds, HW!BuffersTypeOK, HW!Index
  <2>3. HW!BuffersTypeOK' /\ HistoryOK'
    BY DEF IInv, TypeOK, HistoryOK, ErrorSeen, HW!BuffersTypeOK, Blocks
  <2> QED
    BY <2>1, <2>2, <2>3 DEF TypeOK
<1>2. ClearInv' /\ StopInv' /\ AddrInv'
  BY DEF IInv, TypeOK, ControlOK, CountersOK, ClearInv, StopInv, OpenInv,
         AddrInv, ErrorSeen, HW!BuffersTypeOK, HW!Index, Fresh, Early,
         NextRisky, BankSilent, AllSilent, Blocks
<1>3. OpenInv' /\ LedsInv'
  BY DEF IInv, TypeOK, CountersOK, OpenInv, LedsInv, StopInv, ErrorSeen
<1> QED
  BY <1>1, <1>2, <1>3 DEF IInv

LEMMA ErrorLeftStep == ASSUME IInv, ErrorLeft PROVE IInv'
<1>1. TypeOK'
  <2>1. ControlOK'
    BY DEF IInv, TypeOK, ControlOK, ErrorLeft
  <2>2. CountersOK'
    BY DEF IInv, TypeOK, CountersOK, ClearInv, OpenInv, ErrorLeft, StopSignals,
           ClearRounds, HW!BuffersTypeOK, HW!Index
  <2>3. HW!BuffersTypeOK' /\ HistoryOK'
    BY DEF IInv, TypeOK, HistoryOK, ErrorLeft, HW!BuffersTypeOK, Blocks
  <2> QED
    BY <2>1, <2>2, <2>3 DEF TypeOK
<1>2. ClearInv' /\ StopInv' /\ AddrInv'
  BY DEF IInv, TypeOK, ControlOK, CountersOK, ClearInv, StopInv, OpenInv,
         AddrInv, ErrorLeft, HW!BuffersTypeOK, HW!Index, Fresh, Early,
         NextRisky, BankSilent, AllSilent, Blocks
<1>3. OpenInv' /\ LedsInv'
  BY DEF IInv, TypeOK, CountersOK, OpenInv, LedsInv, StopInv, ErrorLeft
<1> QED
  BY <1>1, <1>2, <1>3 DEF IInv

LEMMA LoadAddrStep == ASSUME IInv, LoadAddr PROVE IInv'
<1>1. TypeOK'
  <2>1. ControlOK'
    BY DEF IInv, TypeOK, ControlOK, LoadAddr
  <2>2. CountersOK'
    BY DEF IInv, TypeOK, CountersOK, ClearInv, OpenInv, LoadAddr, StopSignals,
           ClearRounds, HW!BuffersTypeOK, HW!Index
  <2>3. HW!BuffersTypeOK' /\ HistoryOK'
    BY DEF IInv, TypeOK, HistoryOK, LoadAddr, HW!BuffersTypeOK, Blocks
  <2> QED
    BY <2>1, <2>2, <2>3 DEF TypeOK
<1>2. ClearInv' /\ StopInv' /\ AddrInv'
  BY DEF IInv, TypeOK, ControlOK, CountersOK, ClearInv, StopInv, OpenInv,
         AddrInv, LoadAddr, HW!BuffersTypeOK, HW!Index, Fresh, Early,
         NextRisky, BankSilent, AllSilent, Blocks
<1>3. OpenInv' /\ LedsInv'
  BY DEF IInv, TypeOK, CountersOK, OpenInv, LedsInv, StopInv, LoadAddr
<1> QED
  BY <1>1, <1>2, <1>3 DEF IInv

LEMMA ReadBlockStep == ASSUME IInv, ReadBlock PROVE IInv'
<1>1. TypeOK'
  <2>1. ControlOK'
    BY DEF IInv, TypeOK, ControlOK, ReadBlock, More
  <2>2. CountersOK'
    BY DEF IInv, TypeOK, CountersOK, ClearInv, OpenInv, ReadBlock, More,
           StopSignals, ClearRounds, HW!BuffersTypeOK, HW!Index
  <2>3. HW!BuffersTypeOK' /\ HistoryOK'
    BY DEF IInv, TypeOK, HistoryOK, ReadBlock, HW!BuffersTypeOK, Blocks
  <2> QED
    BY <2>1, <2>2, <2>3 DEF TypeOK
<1>2. ClearInv' /\ StopInv' /\ AddrInv'
  BY DEF IInv, TypeOK, ControlOK, CountersOK, ClearInv, StopInv, OpenInv,
         AddrInv, ReadBlock, More, HW!BuffersTypeOK, HW!Index, Fresh, Early,
         NextRisky, BankSilent, AllSilent, Blocks
<1>3. OpenInv' /\ LedsInv'
  BY DEF IInv, TypeOK, CountersOK, OpenInv, LedsInv, StopInv, ReadBlock, More
<1> QED
  BY <1>1, <1>2, <1>3 DEF IInv

LEMMA WaitStep == ASSUME IInv, Wait PROVE IInv'
<1>1. TypeOK'
  <2>1. ControlOK'
    BY DEF IInv, TypeOK, ControlOK, Wait, StayInWait
  <2>2. CountersOK'
    BY DEF IInv, TypeOK, CountersOK, ClearInv, OpenInv, Wait, StayInWait,
           StopSignals, ClearRounds, HW!BuffersTypeOK, HW!Index
  <2>3. HW!BuffersTypeOK' /\ HistoryOK'
    BY DEF IInv, TypeOK, HistoryOK, Wait, HW!BuffersTypeOK, Blocks
  <2> QED
    BY <2>1, <2>2, <2>3 DEF TypeOK
<1>2. ClearInv' /\ StopInv' /\ AddrInv'
  BY DEF IInv, TypeOK, ControlOK, CountersOK, ClearInv, StopInv, OpenInv,
         AddrInv, Wait, StayInWait, HW!BuffersTypeOK, HW!Index, Fresh, Early,
         NextRisky, BankSilent, AllSilent, Blocks
<1>3. OpenInv' /\ LedsInv'
  BY DEF IInv, TypeOK, CountersOK, OpenInv, LedsInv, StopInv, Wait, StayInWait
<1> QED
  BY <1>1, <1>2, <1>3 DEF IInv

LEMMA CloseStep == ASSUME IInv, Close PROVE IInv'
<1>1. TypeOK'
  <2>1. ControlOK'
    BY DEF IInv, TypeOK, ControlOK, Close
  <2>2. CountersOK'
    BY DEF IInv, TypeOK, CountersOK, ClearInv, OpenInv, Close, StopSignals,
           ClearRounds, HW!BuffersTypeOK, HW!Index
  <2>3. HW!BuffersTypeOK' /\ HistoryOK'
    BY DEF IInv, TypeOK, HistoryOK, Close, HW!BuffersTypeOK, Blocks
  <2> QED
    BY <2>1, <2>2, <2>3 DEF TypeOK
<1>2. ClearInv' /\ StopInv' /\ AddrInv'
  BY DEF IInv, TypeOK, ControlOK, CountersOK, ClearInv, StopInv, OpenInv,
         AddrInv, Close, HW!BuffersTypeOK, HW!Index, Fresh, Early, NextRisky,
         BankSilent, AllSilent, Blocks
<1>3. OpenInv' /\ LedsInv'
  BY DEF IInv, TypeOK, CountersOK, OpenInv, LedsInv, StopInv, Close
<1> QED
  BY <1>1, <1>2, <1>3 DEF IInv

LEMMA StopStep == ASSUME IInv, Stop PROVE IInv'
<1>1. TypeOK'
  <2>1. ControlOK'
    BY DEF IInv, TypeOK, ControlOK, Stop, StopSignals
  <2>2. CountersOK'
    BY DEF IInv, TypeOK, CountersOK, ClearInv, OpenInv, Stop, StopSignals,
           ClearRounds, HW!BuffersTypeOK, HW!Index
  <2>3. HW!BuffersTypeOK' /\ HistoryOK'
    BY DEF IInv, TypeOK, HistoryOK, Stop, HW!BuffersTypeOK, Blocks
  <2> QED
    BY <2>1, <2>2, <2>3 DEF TypeOK
<1>2. ClearInv' /\ StopInv' /\ AddrInv'
  BY DEF IInv, TypeOK, ControlOK, CountersOK, ClearInv, StopInv, OpenInv,
         AddrInv, Stop, StopSignals, HW!BuffersTypeOK, HW!Index, Fresh, Early,
         NextRisky, BankSilent, AllSilent, Blocks
<1>3. OpenInv' /\ LedsInv'
  BY DEF IInv, TypeOK, CountersOK, OpenInv, LedsInv, StopInv, Stop,
         StopSignals
<1> QED
  BY <1>1, <1>2, <1>3 DEF IInv

LEMMA PauseStep == ASSUME IInv, Pause PROVE IInv'
<1>1. TypeOK'
  <2>1. ControlOK'
    BY DEF IInv, TypeOK, ControlOK, Pause
  <2>2. CountersOK'
    BY DEF IInv, TypeOK, CountersOK, ClearInv, OpenInv, Pause, StopSignals,
           ClearRounds, HW!BuffersTypeOK, HW!Index
  <2>3. HW!BuffersTypeOK' /\ HistoryOK'
    BY DEF IInv, TypeOK, HistoryOK, Pause, HW!BuffersTypeOK, Blocks
  <2> QED
    BY <2>1, <2>2, <2>3 DEF TypeOK
<1>2. ClearInv' /\ StopInv' /\ AddrInv'
  BY DEF IInv, TypeOK, ControlOK, CountersOK, ClearInv, StopInv, OpenInv,
         AddrInv, Pause, HW!BuffersTypeOK, HW!Index, Fresh, Early, NextRisky,
         BankSilent, AllSilent, Blocks
<1>3. OpenInv' /\ LedsInv'
  BY DEF IInv, TypeOK, CountersOK, OpenInv, LedsInv, StopInv, Pause
<1> QED
  BY <1>1, <1>2, <1>3 DEF IInv

LEMMA PausedStep == ASSUME IInv, Paused PROVE IInv'
<1>1. TypeOK'
  <2>1. ControlOK'
    BY DEF IInv, TypeOK, ControlOK, Paused
  <2>2. CountersOK'
    BY DEF IInv, TypeOK, CountersOK, ClearInv, OpenInv, Paused, StopSignals,
           ClearRounds, HW!BuffersTypeOK, HW!Index
  <2>3. HW!BuffersTypeOK' /\ HistoryOK'
    BY DEF IInv, TypeOK, HistoryOK, Paused, HW!BuffersTypeOK, Blocks
  <2> QED
    BY <2>1, <2>2, <2>3 DEF TypeOK
<1>2. ClearInv' /\ StopInv' /\ AddrInv'
  BY DEF IInv, TypeOK, ControlOK, CountersOK, ClearInv, StopInv, OpenInv,
         AddrInv, Paused, HW!BuffersTypeOK, HW!Index, Fresh, Early, NextRisky,
         BankSilent, AllSilent, Blocks
<1>3. OpenInv' /\ LedsInv'
  BY DEF IInv, TypeOK, CountersOK, OpenInv, LedsInv, StopInv, Paused
<1> QED
  BY <1>1, <1>2, <1>3 DEF IInv

LEMMA ResumeStep == ASSUME IInv, Resume PROVE IInv'
<1>1. TypeOK'
  <2>1. ControlOK'
    BY DEF IInv, TypeOK, ControlOK, Resume
  <2>2. CountersOK'
    BY DEF IInv, TypeOK, CountersOK, ClearInv, OpenInv, Resume, StopSignals,
           ClearRounds, HW!BuffersTypeOK, HW!Index
  <2>3. HW!BuffersTypeOK' /\ HistoryOK'
    BY DEF IInv, TypeOK, HistoryOK, Resume, HW!BuffersTypeOK, Blocks
  <2> QED
    BY <2>1, <2>2, <2>3 DEF TypeOK
<1>2. ClearInv' /\ StopInv' /\ AddrInv'
  BY DEF IInv, TypeOK, ControlOK, CountersOK, ClearInv, StopInv, OpenInv,
         AddrInv, Resume, HW!BuffersTypeOK, HW!Index, Fresh, Early, NextRisky,
         BankSilent, AllSilent, Blocks
<1>3. OpenInv' /\ LedsInv'
  BY DEF IInv, TypeOK, CountersOK, OpenInv, LedsInv, StopInv, Resume
<1> QED
  BY <1>1, <1>2, <1>3 DEF IInv

LEMMA ReleasedStep == ASSUME IInv, Released PROVE IInv'
<1>1. TypeOK'
  <2>1. ControlOK'
    BY DEF IInv, TypeOK, ControlOK, Released
  <2>2. CountersOK'
    BY DEF IInv, TypeOK, CountersOK, ClearInv, OpenInv, Released, StopSignals,
           ClearRounds, HW!BuffersTypeOK, HW!Index
  <2>3. HW!BuffersTypeOK' /\ HistoryOK'
    BY DEF IInv, TypeOK, HistoryOK, Released, HW!BuffersTypeOK, Blocks
  <2> QED
    BY <2>1, <2>2, <2>3 DEF TypeOK
<1>2. ClearInv' /\ StopInv' /\ AddrInv'
  BY DEF IInv, TypeOK, ControlOK, CountersOK, ClearInv, StopInv, OpenInv,
         AddrInv, Released, HW!BuffersTypeOK, HW!Index, Fresh, Early,
         NextRisky, BankSilent, AllSilent, Blocks
<1>3. OpenInv' /\ LedsInv'
  BY DEF IInv, TypeOK, CountersOK, OpenInv, LedsInv, StopInv, Released
<1> QED
  BY <1>1, <1>2, <1>3 DEF IInv

LEMMA NoButtonStep == ASSUME IInv, NoButton PROVE IInv'
<1>1. TypeOK'
  <2>1. ControlOK'
    BY DEF IInv, TypeOK, ControlOK, NoButton
  <2>2. CountersOK'
    BY DEF IInv, TypeOK, CountersOK, ClearInv, OpenInv, NoButton, StopSignals,
           ClearRounds, HW!BuffersTypeOK, HW!Index
  <2>3. HW!BuffersTypeOK' /\ HistoryOK'
    BY DEF IInv, TypeOK, HistoryOK, NoButton, HW!BuffersTypeOK, Blocks
  <2> QED
    BY <2>1, <2>2, <2>3 DEF TypeOK
<1>2. ClearInv' /\ StopInv' /\ AddrInv'
  BY DEF IInv, TypeOK, ControlOK, CountersOK, ClearInv, StopInv, OpenInv,
         AddrInv, NoButton, HW!BuffersTypeOK, HW!Index, Fresh, Early,
         NextRisky, BankSilent, AllSilent, Blocks
<1>3. OpenInv' /\ LedsInv'
  BY DEF IInv, TypeOK, CountersOK, OpenInv, LedsInv, StopInv, NoButton
<1> QED
  BY <1>1, <1>2, <1>3 DEF IInv

LEMMA LedsStep == ASSUME IInv, Leds PROVE IInv'
<1>1. TypeOK'
  <2>1. ControlOK'
    BY DEF IInv, TypeOK, ControlOK, Leds, LedsShown
  <2>2. CountersOK'
    BY DEF IInv, TypeOK, CountersOK, ClearInv, OpenInv, Leds, LedsShown,
           StopSignals, ClearRounds, HW!BuffersTypeOK, HW!Index
  <2>3. HW!BuffersTypeOK' /\ HistoryOK'
    BY DEF IInv, TypeOK, HistoryOK, Leds, HW!BuffersTypeOK, Blocks
  <2> QED
    BY <2>1, <2>2, <2>3 DEF TypeOK
<1>2. ClearInv' /\ StopInv' /\ AddrInv'
  BY DEF IInv, TypeOK, ControlOK, CountersOK, ClearInv, StopInv, OpenInv,
         AddrInv, Leds, LedsShown, HW!BuffersTypeOK, HW!Index, Fresh, Early,
         NextRisky, BankSilent, AllSilent, Blocks
<1>3. OpenInv' /\ LedsInv'
  BY DEF IInv, TypeOK, CountersOK, OpenInv, LedsInv, StopInv, Leds, LedsShown
<1> QED
  BY <1>1, <1>2, <1>3 DEF IInv

---------------------------------------------------------------------------
LEMMA InitIInv == Init => IInv
<1> SUFFICES ASSUME Init PROVE IInv
  OBVIOUS
<1>1. HW!BuffersTypeOK /\ AllSilent
  BY DEF Init, HW!BuffersInit, HW!BuffersTypeOK, HW!Index, AllSilent, Silence
<1>2. ControlOK
  BY DEF Init, ControlOK
<1>3. CountersOK
  BY DEF Init, CountersOK, ClearRounds, StopSignals
<1>4. HistoryOK
  <2>1. 0 \in 0 .. B * N
    BY 0 <= B * N
  <2> QED
    BY <2>1 DEF Init, HistoryOK
<1>5. ClearInv /\ StopInv /\ OpenInv /\ AddrInv /\ LedsInv
  BY <1>1 DEF Init, ClearInv, StopInv, OpenInv, AddrInv, LedsInv
<1> QED
  BY <1>1, <1>2, <1>3, <1>4, <1>5 DEF IInv, TypeOK

LEMMA StutterStep == ASSUME IInv, UNCHANGED vars PROVE IInv'
  BY DEF vars, IInv, TypeOK, HW!BuffersTypeOK, ControlOK, CountersOK, HistoryOK,
         ClearInv, StopInv, OpenInv, AddrInv, LedsInv,
         Fresh, Early, NextRisky, BankSilent, AllSilent

LEMMA NextStep == ASSUME IInv, [Next]_vars PROVE IInv'
<1>1. CASE PlaySample
  BY <1>1, PlaySampleStep
<1>2. CASE Clearing
  BY <1>2, ClearSyncStep, ClearSyncedStep, ClearAddrStep, ClearByteStep,
     ClearSwapStep DEF Clearing
<1>3. CASE Loading
  BY <1>3, LoadAddrStep, ReadBlockStep, CopyByteStep, WaitStep, CloseStep
     DEF Loading
<1>4. CASE Callback
  BY <1>4, StopStep, PauseStep, PausedStep, ResumeStep, NoButtonStep, LedsStep
     DEF Callback
<1>5. CASE Opening
  BY <1>5, OpenedStep, NotOpenedStep DEF Opening
<1>6. CASE User
  BY <1>6, PlayStep, ErrorSeenStep, ErrorLeftStep, ReleasedStep DEF User
<1>7. CASE UNCHANGED vars
  BY <1>7, StutterStep
<1> QED
  BY <1>1, <1>2, <1>3, <1>4, <1>5, <1>6, <1>7 DEF Next, Firmware

\* What clear_audio, read_audio_file and the callback maintain together with the
\* player of the hardware.
THEOREM Invariant == Spec => []IInv
BY InitIInv, NextStep, PTL DEF Spec

\* Every variable keeps its type: indexes stay within the banks, the block read
\* within the file.
THEOREM TypeCorrect == Spec => []TypeOK
<1>1. IInv => TypeOK
  BY DEF IInv
<1> QED
  BY <1>1, Invariant, PTL

\* When no music is played, or while it is paused, both banks hold silence: two
\* rounds of clear_audio are enough, whatever the bank being played when it is
\* called and whatever was stored in it.
THEOREM StoppedIsSilent == Spec => []SilentWhenStopped
<1>1. IInv => SilentWhenStopped
  BY DEF IInv, StopInv, SilentWhenStopped
<1> QED
  BY <1>1, Invariant, PTL

\* The LEDs are off when the menu is back, and while paused.
THEOREM StoppedIsDark == Spec => []LedsOffWhenStopped
<1>1. IInv => LedsOffWhenStopped
  BY DEF IInv, LedsInv, LedsOffWhenStopped
<1> QED
  BY <1>1, Invariant, PTL

\* A block whose load starts at an exchange goes to the bank whose address was
\* read: no exchange happens while it is copied.
THEOREM BlockInOneBank == Spec => []CopiesInOneBank
<1>1. IInv => CopiesInOneBank
  BY DEF IInv, AddrInv, CopiesInOneBank
<1> QED
  BY <1>1, Invariant, PTL

---------------------------------------------------------------------------
(* The call of play_music.                                                 *)

\* What a step does to the call.
LEMMA CallStep ==
  ASSUME IInv, [Next]_vars
  PROVE  [P!Next]_P!play
<1> USE DEF P!play, Clears
<1>0. /\ pc \in ClearLabels \cup PlayLabels \cup CallbackLabels \cup PatientLabels
      /\ loop \in BOOLEAN /\ pause \in BOOLEAN
      /\ ret \in {"open", "pause", "close"}
      /\ pause => pc \in {"wait", "button", "leds", "release"}
  BY DEF IInv, TypeOK, ControlOK, StopInv
<1>1. CASE UNCHANGED vars \/ PlaySample
  BY <1>1 DEF vars, PlaySample, phase
<1>2. CASE ClearSync \/ ClearSynced \/ ClearAddr \/ ClearByte
  BY <1>2 DEF ClearSync, ClearSynced, ClearAddr, ClearByte, phase
<1>3. CASE ClearSwap
  BY <1>0, <1>3 DEF ClearSwap, phase
<1>4. CASE Play
  BY <1>4 DEF Play, phase, P!Next, P!Call
<1>5. CASE Opened
  BY <1>5 DEF Opened, phase, P!Next, P!Opened
<1>6. CASE NotOpened
  BY <1>6 DEF NotOpened, phase, P!Next, P!Failed
<1>7. CASE ErrorSeen
  BY <1>7 DEF ErrorSeen, phase
<1>8. CASE ErrorLeft
  BY <1>8 DEF ErrorLeft, phase, P!Next, P!ErrorLeft
<1>9. CASE LoadAddr
  BY <1>0, <1>9 DEF LoadAddr, phase
<1>10. CASE ReadBlock \/ CopyByte \/ Wait
  BY <1>0, <1>10 DEF ReadBlock, CopyByte, Wait, phase
<1>11. CASE Close
  BY <1>0, <1>11 DEF Close, phase, P!Next, P!Return
<1>12. CASE Stop
  BY <1>12 DEF Stop, StopSignals, phase, P!Next, P!Stop, P!StopSignals
<1>13. CASE Pause \/ NoButton \/ Leds
  BY <1>13 DEF Pause, NoButton, Leds, phase
<1>14. CASE Paused \/ Resume
  BY <1>0, <1>14 DEF Paused, Resume, phase, P!Next, P!TogglePause
<1>15. CASE Released
  BY <1>15 DEF Released, phase, P!Next, P!PauseRelease
<1> QED
  BY <1>1, <1>2, <1>3, <1>4, <1>5, <1>6, <1>7, <1>8, <1>9, <1>10, <1>11, <1>12, <1>13,
     <1>14, <1>15
     DEF Next, Firmware, User, Clearing, Loading, Callback, Opening

\* For every size of a bank, every file and every speed allowed, read_audio_file and
\* its callback keep the contract of play_music, whatever the order of the
\* presses: the safety half of ImplementsPlay (my_utils.c:71-116).
THEOREM KeepsContract == Spec => P!Spec
<1>1. Init => P!Init
  BY DEF Init, phase, Clears, P!Init
<1> QED
  BY <1>1, Invariant, CallStep, PTL DEF Spec, P!Spec

---------------------------------------------------------------------------
(* What the banks hold and what has been heard.                            *)

\* The place in the file of sample i of block d, counted from 1.
At(d, i) == (d - 1) * N + i + 1

\* Bank b holds block d.  Of a block whose load was not started by an exchange
\* some samples may be missing.
Holds(b, d) ==
  \A i \in 0 .. N - 1 : bank[b][i] = d \/ (d \in risky /\ bank[b][i] = Silence)

\* What comes before sample i of block d has been heard, risky blocks excepted.
HeardTo(d, i) ==
  \A e \in Blocks, j \in 0 .. N - 1 :
    e < d \/ (e = d /\ j < i) => At(e, j) <= heard \/ e \in risky

\* Block d is being played, once everything before it was, ...
Plays(d) == /\ d \in Blocks
            /\ Holds(1 - wbank, d)
            /\ HeardTo(d, pos)
            /\ quiet => d \in risky \/ d - 1 \in risky

\* ... and for the first time.
PlaysFirst(d) == Plays(d) /\ heard < At(d, pos)

\* Blocks 1 .. d have been heard, and nothing after them.
HeardAll(d) == HeardTo(d + 1, 0) /\ heard < At(d + 1, 0)

\* Block d waits for the exchange, ...
Loaded(d) == /\ d \in Blocks /\ Holds(wbank, d)
             /\ d \in risky => BankSilent(1 - wbank) /\ HeardAll(d - 1)
             /\ d \notin risky => PlaysFirst(d - 1)

\* ... is played after it, what was played before being in the other bank, ...
Started(d) == /\ PlaysFirst(d)
              /\ d \in risky => Holds(wbank, d)
              /\ d \notin risky => Holds(wbank, d - 1)

\* ... or has been heard, and the banks are silent.
Finished == AllSilent /\ HeardAll(block)

\* In clear_audio: the last block is played, or the one before once more.
LastPlays == \/ Plays(block)
             \/ HeardAll(block) /\ (BankSilent(1 - wbank) \/ Plays(block - 1))

---------------------------------------------------------------------------
(* The inductive invariant, on top of IInv.                                *)

\* The next block is loaded at an exchange.
Fine == block + 1 \notin risky

RiskyInv == /\ \A b \in risky : b <= block + 1
            /\ pc # "idle" => 1 \in risky

HeardInv == heard < At(block + 1, 0)

\* While blocks are loaded.
LoadInv ==
  /\ pc \in {"addr", "read"} => \/ Finished /\ NextRisky
                                \/ Fine /\ Early /\ Started(block)
  /\ pc = "copy" => /\ Fine /\ block \in Blocks
                    /\ block \notin risky =>
                         /\ PlaysFirst(block - 1)
                         /\ \A i \in 0 .. N - 1 : i < k => bank[wbank][i] = block
                    /\ block \in risky =>
                         \/ addr = wbank /\ Loaded(block)
                         \/ addr # wbank /\ Fresh /\ Started(block)
  /\ pc \in {"wait", "button", "leds"} /\ ~pause =>
       \/ Finished /\ (NextRisky \/ ~loop)
       \/ Fine /\ addr = wbank /\ Loaded(block)
       \/ Fine /\ addr # wbank /\ Fresh /\ Started(block)
  /\ pc = "release" /\ ~pause => Finished /\ (NextRisky \/ ~loop)
  /\ pause \/ pc \in {"open", "pause", "close"} => HeardAll(block)

\* In clear_audio: the last block loaded is played to its end.
DrainInv ==
  /\ pc = "sync" => Finished \/ Loaded(block) \/ (Early /\ Started(block))
  /\ pc = "synced" /\ caddr = wbank => Finished \/ Loaded(block) \/ Started(block)
  /\ pc = "synced" /\ caddr # wbank => LastPlays
  /\ pc \in {"clearAddr", "clearByte"} /\ round = 0 => LastPlays
  /\ pc = "clearSwap" /\ round = 0 => /\ caddr = wbank => LastPlays
                                      /\ caddr # wbank => HeardAll(block)
  /\ pc \in {"clearAddr", "clearByte", "clearSwap"} /\ round = 1 => HeardAll(block)

\* The music ends by itself only after its last block.
EndInv ==
  /\ loop \/ signal # 1
  /\ pc = "close" \/ (pc \in ClearLabels /\ ret = "close") => block = B \/ ~loop

SInv == RiskyInv /\ HeardInv /\ LoadInv /\ DrainInv /\ EndInv

USE BlockAssumption, BudgetAssumption
USE DEF ClearLabels, PlayLabels, CallbackLabels, PatientLabels,
        hw, clear, file, controls, history

---------------------------------------------------------------------------
(* Places in the file.                                                     *)

LEMMA AtInt == \A d, i \in Int : At(d, i) \in Int
BY DEF At

\* The place after a sample is the one of the next sample of its block, ...
LEMMA AtNext == \A d, i \in Int : At(d, i + 1) = At(d, i) + 1
<1> SUFFICES ASSUME NEW d \in Int, NEW i \in Int PROVE At(d, i + 1) = At(d, i) + 1
  OBVIOUS
<1>1. (d - 1) * N \in Int
  OBVIOUS
<1> QED
  BY <1>1 DEF At

\* ... or the one of the first sample of the next block.
LEMMA AtBlock == \A d \in Int : At(d + 1, 0) = At(d, N - 1) + 1
<1> SUFFICES ASSUME NEW d \in Int PROVE At(d + 1, 0) = At(d, N - 1) + 1
  OBVIOUS
<1>1. (d - 1) * N \in Int /\ d * N = (d - 1) * N + N
  BY SMT
<1> QED
  BY <1>1 DEF At

\* Places are ordered as blocks, and in a block as samples.
LEMMA AtOrder ==
  ASSUME NEW d \in Int, NEW e \in Int, NEW i \in 0 .. N - 1, NEW j \in 0 .. N - 1,
         e < d \/ (e = d /\ j < i)
  PROVE  At(e, j) < At(d, i)
<1>1. CASE e = d /\ j < i
  <2>1. (d - 1) * N \in Int
    OBVIOUS
  <2> QED
    BY <1>1, <2>1 DEF At
<1>2. CASE e < d
  <2>1. \A m \in Nat : m * N \in Nat
    BY SMT
  <2>2. (d - 1 - e) * N \in Nat
    BY <1>2, <2>1
  <2>3. (e - 1) * N \in Int /\ (d - 1) * N = (e - 1) * N + N + (d - 1 - e) * N
    BY SMT
  <2> QED
    BY <2>2, <2>3 DEF At
<1> QED
  BY <1>1, <1>2

---------------------------------------------------------------------------
(* What has been heard stays heard.                                        *)

LEMMA HeardBefore ==
  ASSUME NEW d \in Int, HeardTo(d + 1, 0), NEW e \in Int, e <= d, NEW i
  PROVE  HeardTo(e, i)
<1>1. \A f \in Blocks : f < e \/ f = e => f < d + 1
  BY DEF Blocks
<1> QED
  BY <1>1 DEF HeardTo

LEMMA HeardRisky ==
  ASSUME NEW d \in Blocks, d \in risky, HeardTo(d, 0), NEW i
  PROVE  HeardTo(d, i) /\ HeardTo(d + 1, 0)
<1>1. \A f \in Blocks : f < d + 1 => f < d \/ f = d
  BY DEF Blocks
<1> QED
  BY <1>1 DEF HeardTo, Blocks

---------------------------------------------------------------------------
(* One sample.                                                             *)

NoSwap == pos' = pos + 1 /\ wbank' = wbank
Swapped == pos + 1 = N /\ pos' = 0 /\ wbank' = 1 - wbank

LEMMA PlayFrame ==
  ASSUME TypeOK, PlaySample
  PROVE  /\ wbank \in {0, 1} /\ pos \in 0 .. N - 1 /\ heard \in Int /\ heard >= 0
         /\ heard' \in Int /\ block \in 0 .. B /\ risky \subseteq Blocks
         /\ bank \in [{0, 1} -> [0 .. N - 1 -> 0 .. B]]
         /\ NoSwap \/ Swapped
         /\ UNCHANGED <<bank, pc, clear, addr, k, file, controls, risky>>
<1>1. wbank \in {0, 1} /\ pos \in 0 .. N - 1 /\ bank \in [{0, 1} -> [0 .. N - 1 -> 0 .. B]]
  BY DEF TypeOK, HW!BuffersTypeOK, HW!Index
<1>2. heard \in Int /\ heard >= 0 /\ block \in 0 .. B /\ risky \subseteq Blocks
  <2>1. B * N \in Int
    OBVIOUS
  <2> QED
    BY <2>1 DEF TypeOK, HistoryOK, CountersOK
<1>3. NoSwap \/ Swapped
  BY TickType DEF PlaySample, NoSwap, Swapped
<1>4. UNCHANGED <<bank, pc, clear, addr, k, file, controls, risky>>
  BY DEF PlaySample
<1>5. heard' \in Int
  <2>1. Place \in Int
    <3>1. B * N \in Int
      OBVIOUS
    <3> QED BY <3>1, PlaceType
  <2> QED
    BY <1>2, <2>1 DEF PlaySample
<1> QED
  BY <1>1, <1>2, <1>3, <1>4, <1>5

\* A silent bank.
LEMMA PlaySilent ==
  ASSUME TypeOK, PlaySample, BankSilent(1 - wbank)
  PROVE  heard' = heard
<1>1. Place = 0
  BY PlayFrame DEF Place, HW!Played, HW!PlayBank, BankSilent
<1> QED
  BY <1>1, PlayFrame DEF PlaySample

\* The bank of a block: its next sample is heard, or missing.
LEMMA PlayBlock ==
  ASSUME TypeOK, PlaySample, NEW d \in Blocks, Holds(1 - wbank, d)
  PROVE  /\ heard' \in {heard, At(d, pos)} /\ heard <= heard'
         /\ At(d, pos) <= heard' \/ d \in risky
         /\ quiet' => d \in risky
         /\ heard' > heard => heard' = At(d, pos)
<1> DEFINE s == bank[1 - wbank][pos]
<1>1. s = d \/ (d \in risky /\ s = Silence)
  BY PlayFrame DEF Holds
<1>2. Place = IF s = Silence THEN 0 ELSE At(s, pos)
  BY DEF Place, HW!Played, HW!PlayBank, At
<1>3. /\ Place > heard => heard' = Place
      /\ ~(Place > heard) => heard' = heard
      /\ quiet' => Place = 0
  BY DEF PlaySample
<1>4. d \in Int /\ d # 0 /\ pos \in Int /\ heard \in Int /\ heard >= 0
  BY PlayFrame DEF Blocks
<1>5. At(d, pos) \in Int /\ At(d, pos) > 0
  <2>1. At(1, 0) <= At(d, pos)
    <3>1. At(1, 0) < At(d, pos) \/ (d = 1 /\ pos = 0)
      BY PlayFrame, AtOrder DEF Blocks
    <3>2. At(1, 0) \in Int
      BY AtInt
    <3>3. At(d, pos) \in Int
      BY <1>4, AtInt
    <3> QED
      BY <3>1, <3>2, <3>3
  <2>2. At(1, 0) = 1
    BY DEF At
  <2> QED
    BY <1>4, <2>1, <2>2, AtInt
<1>6. CASE s = d
  <2>1. Place = At(d, pos)
    BY <1>2, <1>4, <1>6 DEF Silence
  <2> QED
    BY <1>3, <1>4, <1>5, <2>1
<1>7. CASE d \in risky /\ s = Silence
  <2>1. Place = 0
    BY <1>2, <1>7
  <2> QED
    BY <1>3, <1>4, <1>7, <2>1
<1> QED
  BY <1>1, <1>6, <1>7

\* ... after which it has been heard.
LEMMA HeardNext ==
  ASSUME TypeOK, PlaySample, NEW d \in Blocks, Plays(d)
  PROVE  \A e \in Blocks, j \in 0 .. N - 1 :
           e < d \/ (e = d /\ j <= pos) => At(e, j) <= heard' \/ e \in risky
<1> SUFFICES ASSUME NEW e \in Blocks, NEW j \in 0 .. N - 1,
                    e < d \/ (e = d /\ j <= pos)
             PROVE  At(e, j) <= heard' \/ e \in risky
  OBVIOUS
<1>1. At(e, j) \in Int /\ heard \in Int /\ heard' \in Int /\ heard <= heard'
  BY PlayFrame, PlayBlock, AtInt DEF Plays, Blocks
<1>2. CASE e < d \/ (e = d /\ j < pos)
  BY <1>1, <1>2 DEF Plays, HeardTo
<1>3. CASE e = d /\ j = pos
  BY <1>3, PlayBlock DEF Plays
<1> QED
  BY <1>2, <1>3, PlayFrame

LEMMA PlaysOn ==
  ASSUME TypeOK, PlaySample, NEW d \in Blocks, Plays(d), NoSwap
  PROVE  Plays(d)' /\ (PlaysFirst(d) => PlaysFirst(d)')
<1>1. Holds(1 - wbank, d)'
  BY PlayFrame DEF Plays, Holds, NoSwap
<1>2. HeardTo(d, pos)'
  BY HeardNext, PlayFrame DEF HeardTo, NoSwap
<1>3. quiet' => d \in risky
  BY PlayBlock DEF Plays
<1>4. Plays(d)'
  BY <1>1, <1>2, <1>3, PlayFrame DEF Plays
<1>5. PlaysFirst(d) => heard' < At(d, pos')
  <2>1. At(d, pos) \in Int /\ At(d, pos') = At(d, pos) + 1
    BY AtInt, AtNext, PlayFrame DEF NoSwap, Blocks
  <2>2. heard' = heard \/ heard' = At(d, pos)
    BY PlayBlock DEF Plays
  <2>3. heard \in Int
    BY PlayFrame
  <2> QED
    BY <2>1, <2>2, <2>3 DEF PlaysFirst
<1> QED
  BY <1>4, <1>5 DEF PlaysFirst

LEMMA PlaysOut ==
  ASSUME TypeOK, PlaySample, NEW d \in Blocks, Plays(d), Swapped
  PROVE  /\ HeardTo(d + 1, 0)' /\ (quiet' => d \in risky)
         /\ PlaysFirst(d) => heard' < At(d + 1, 0)
<1>1. HeardTo(d + 1, 0)'
  <2>1. \A e \in Blocks, j \in 0 .. N - 1 :
          e < d + 1 \/ (e = d + 1 /\ j < 0) => e < d \/ (e = d /\ j <= pos)
    <3>1. pos = N - 1
      BY PlayFrame DEF Swapped
    <3> QED
      BY <3>1 DEF Blocks
  <2> QED
    BY <2>1, HeardNext, PlayFrame DEF HeardTo
<1>2. quiet' => d \in risky
  BY PlayBlock DEF Plays
<1>3. PlaysFirst(d) => heard' < At(d + 1, 0)
  <2>1. pos = N - 1 /\ d \in Int
    BY PlayFrame DEF Swapped, Blocks
  <2>4. At(d, pos) \in Int
    BY <2>1, AtInt
  <2>2. At(d + 1, 0) = At(d, pos) + 1
    BY <2>1, AtBlock
  <2>3. heard \in Int /\ (heard' = heard \/ heard' = At(d, pos))
    BY PlayBlock, PlayFrame DEF Plays
  <2> QED
    BY <2>2, <2>3, <2>4 DEF PlaysFirst
<1> QED
  BY <1>1, <1>2, <1>3

---------------------------------------------------------------------------
(* One sample, in each of the states of the banks.                         *)

LEMMA FinishedStays ==
  ASSUME TypeOK, PlaySample, Finished
  PROVE  Finished'
<1>1. BankSilent(1 - wbank)
  BY PlayFrame DEF Finished, AllSilent, BankSilent
<1>2. heard' = heard
  BY <1>1, PlaySilent
<1>3. AllSilent'
  BY PlayFrame DEF Finished, AllSilent
<1>4. HeardAll(block)'
  BY <1>2, PlayFrame DEF Finished, HeardAll, HeardTo
<1> QED
  BY <1>3, <1>4 DEF Finished

LEMMA LoadedOn ==
  ASSUME TypeOK, PlaySample, NEW d \in Blocks, Loaded(d), NoSwap, d = 1 => d \in risky
  PROVE  Loaded(d)'
<1>1. Holds(wbank, d)'
  BY PlayFrame DEF Loaded, Holds, NoSwap
<1>2. CASE d \in risky
  <2>1. heard' = heard
    BY <1>2, PlaySilent DEF Loaded
  <2>2. BankSilent(1 - wbank)'
    BY <1>2, PlayFrame DEF Loaded, BankSilent, NoSwap
  <2>3. HeardAll(d - 1)'
    BY <1>2, <2>1, PlayFrame DEF Loaded, HeardAll, HeardTo
  <2> QED
    BY <1>1, <1>2, <2>2, <2>3, PlayFrame DEF Loaded
<1>3. CASE d \notin risky
  <2>1. d - 1 \in Blocks
    BY <1>3 DEF Blocks
  <2>2. PlaysFirst(d - 1)'
    BY <1>3, <2>1, PlaysOn DEF Loaded, PlaysFirst
  <2> QED
    BY <1>1, <1>3, <2>2, PlayFrame DEF Loaded
<1> QED
  BY <1>2, <1>3

LEMMA LoadedOut ==
  ASSUME TypeOK, PlaySample, NEW d \in Blocks, Loaded(d), Swapped, d = 1 => d \in risky
  PROVE  Started(d)'
<1>0. wbank \in {0, 1} /\ wbank' = 1 - wbank /\ 1 - wbank' = wbank /\ pos' = 0
  BY PlayFrame DEF Swapped
<1>1. Holds(1 - wbank, d)'
  BY <1>0, PlayFrame DEF Loaded, Holds
<1>2. CASE d \in risky
  <2>1. heard' = heard
    BY <1>2, PlaySilent DEF Loaded
  <2>2. (d - 1) + 1 = d
    BY DEF Blocks
  <2>3. HeardTo(d, 0)' /\ heard' < At(d, 0)
    BY <1>2, <2>1, <2>2, PlayFrame DEF Loaded, HeardAll, HeardTo
  <2>4. Holds(wbank, d)'
    BY <1>0, <1>2, PlayFrame DEF Loaded, BankSilent, Holds
  <2> QED
    BY <1>0, <1>1, <1>2, <2>3, <2>4, PlayFrame DEF Started, PlaysFirst, Plays
<1>3. CASE d \notin risky
  <2>1. d - 1 \in Blocks /\ (d - 1) + 1 = d
    BY <1>3 DEF Blocks
  <2>2. Plays(d - 1) /\ PlaysFirst(d - 1)
    BY <1>3 DEF Loaded, PlaysFirst
  <2>3. HeardTo(d, 0)' /\ (quiet' => d - 1 \in risky) /\ heard' < At(d, 0)
    BY <2>1, <2>2, PlaysOut
  <2>4. Holds(wbank, d - 1)'
    BY <1>0, <2>2, PlayFrame DEF Plays, Holds
  <2> QED
    BY <1>0, <1>1, <1>3, <2>3, <2>4, PlayFrame DEF Started, PlaysFirst, Plays
<1> QED
  BY <1>2, <1>3

LEMMA StartedOn ==
  ASSUME TypeOK, PlaySample, NEW d \in Blocks, Started(d), NoSwap
  PROVE  Started(d)'
<1>1. PlaysFirst(d)'
  BY PlaysOn DEF Started, PlaysFirst
<1>2. \A e : Holds(wbank, e) => Holds(wbank, e)'
  BY PlayFrame DEF Holds, NoSwap
<1> QED
  BY <1>1, <1>2, PlayFrame DEF Started

LEMMA StartedOut ==
  ASSUME TypeOK, PlaySample, NEW d \in Blocks, Started(d), Swapped, d = 1 => d \in risky
  PROVE  /\ HeardTo(d + 1, 0)'
         /\ \/ Plays(d)'
            \/ Plays(d - 1)'
<1>0. wbank \in {0, 1} /\ wbank' = 1 - wbank /\ 1 - wbank' = wbank /\ pos' = 0
  BY PlayFrame DEF Swapped
<1>1. HeardTo(d + 1, 0)' /\ (quiet' => d \in risky)
  BY PlaysOut DEF Started, PlaysFirst
<1>2. \A e : Holds(wbank, e) => Holds(1 - wbank, e)'
  BY <1>0, PlayFrame DEF Holds
<1>3. \A e \in Int : e <= d => HeardTo(e, 0)'
  BY <1>1, PlayFrame DEF HeardTo, Blocks
<1>4. CASE d \in risky
  <2>1. HeardTo(d, 0)'
    BY <1>3 DEF Blocks
  <2> QED
    BY <1>0, <1>1, <1>2, <1>4, <2>1, PlayFrame DEF Started, Plays
<1>5. CASE d \notin risky
  <2>1. d - 1 \in Blocks /\ d - 1 \in Int /\ d - 1 <= d
    BY <1>5 DEF Blocks
  <2>2. HeardTo(d - 1, 0)'
    BY <1>3, <2>1
  <2> QED
    BY <1>0, <1>1, <1>2, <1>5, <2>1, <2>2, PlayFrame DEF Started, Plays
<1> QED
  BY <1>4, <1>5

\* What has been heard once is heard.
LEMMA HeardStays ==
  ASSUME TypeOK, PlaySample, heard <= heard', NEW d, HeardTo(d, 0)
  PROVE  HeardTo(d, 0)'
<1> SUFFICES ASSUME NEW e \in Blocks, NEW j \in 0 .. N - 1, e < d \/ (e = d /\ j < 0)
             PROVE  At(e, j) <= heard' \/ e \in risky
  BY PlayFrame DEF HeardTo
<1>1. At(e, j) \in Int /\ heard \in Int /\ heard' \in Int
  BY PlayFrame, AtInt DEF Blocks
<1>2. At(e, j) <= heard \/ e \in risky
  BY DEF HeardTo
<1> QED
  BY <1>1, <1>2

\* Nothing is heard after the last block loaded.
LEMMA HeardInvStays ==
  ASSUME TypeOK, PlaySample, HeardInv,
         BankSilent(1 - wbank) \/ \E e \in Blocks : e <= block /\ Plays(e)
  PROVE  heard <= heard' /\ HeardInv'
<1>1. PICK d \in Int : d = block /\ d = block'
  BY PlayFrame
<1>2. CASE BankSilent(1 - wbank)
  BY <1>2, PlaySilent, PlayFrame DEF HeardInv
<1>3. ASSUME NEW e \in Blocks, e <= d, Plays(e)
      PROVE  heard <= heard' /\ HeardInv'
  <2>1. heard <= heard' /\ (heard' = heard \/ heard' = At(e, pos))
    BY <1>3, PlayBlock DEF Plays
  <2>2. At(e, pos) < At(d + 1, 0)
    BY <1>3, AtOrder, PlayFrame DEF Blocks
  <2> QED
    BY <1>1, <2>1, <2>2, PlayFrame DEF HeardInv
<1> QED
  BY <1>1, <1>2, <1>3

LEMMA LastPlaysHeard ==
  ASSUME TypeOK, PlaySample, LastPlays, HeardInv
  PROVE  heard <= heard' /\ HeardInv'
<1>1. block \in 0 .. B /\ block <= block /\ block - 1 <= block
  BY PlayFrame
<1>2. BankSilent(1 - wbank) \/ \E e \in Blocks : e <= block /\ Plays(e)
  BY <1>1 DEF LastPlays, Plays
<1> QED
  BY <1>2, HeardInvStays

LEMMA LastPlaysOn ==
  ASSUME TypeOK, PlaySample, LastPlays, HeardInv, NoSwap
  PROVE  LastPlays'
<1>1. PICK d \in Int : d = block /\ d = block'
  BY PlayFrame
<1>2. CASE Plays(d)
  <2>1. d \in Blocks
    BY <1>2 DEF Plays
  <2> QED
    BY <1>1, <1>2, <2>1, PlaysOn DEF LastPlays
<1>3. CASE HeardAll(d)
  <2>1. HeardAll(d)'
    BY <1>1, <1>3, LastPlaysHeard, HeardStays DEF HeardAll, HeardInv
  <2>2. BankSilent(1 - wbank) => BankSilent(1 - wbank)'
    BY PlayFrame DEF BankSilent, NoSwap
  <2>3. Plays(d - 1) => Plays(d - 1)'
    BY PlaysOn DEF Plays
  <2> QED
    BY <1>1, <1>2, <2>1, <2>2, <2>3 DEF LastPlays
<1> QED
  BY <1>1, <1>2, <1>3 DEF LastPlays

LEMMA LastPlaysOut ==
  ASSUME TypeOK, PlaySample, LastPlays, HeardInv, Swapped
  PROVE  HeardAll(block)'
<1>1. PICK d \in Int : d = block /\ d = block'
  BY PlayFrame
<1>2. HeardTo(d + 1, 0)'
  <2>1. CASE Plays(d)
    BY <2>1, PlaysOut DEF Plays
  <2>2. CASE HeardAll(d)
    BY <2>2, LastPlaysHeard, HeardStays DEF HeardAll
  <2> QED
    BY <1>1, <2>1, <2>2 DEF LastPlays
<1> QED
  BY <1>1, <1>2, LastPlaysHeard DEF HeardAll, HeardInv

---------------------------------------------------------------------------
(* One sample keeps the invariant.                                         *)

LEMMA TimePasses ==
  ASSUME IInv, PlaySample, Busy
  PROVE  /\ Fresh => Fresh' /\ NoSwap
         /\ Early => Early' /\ NoSwap
         /\ Swapped => Fresh' /\ Early'
<1>1. work' = work + 1 /\ work < Budget /\ work \in 0 .. Budget
  BY DEF IInv, TypeOK, CountersOK, PlaySample
<1>2. pos \in 0 .. N - 1 /\ (NoSwap \/ Swapped)
  BY PlayFrame DEF IInv
<1> QED
  BY <1>1, <1>2 DEF Fresh, Early, NoSwap, Swapped

\* Silence is played, or a block not after the last one loaded.
LEMMA WhatPlays ==
  ASSUME IInv, SInv
  PROVE  BankSilent(1 - wbank) \/ \E e \in Blocks : e <= block /\ Plays(e)
<1>0. /\ wbank \in {0, 1} /\ 1 - wbank \in {0, 1} /\ caddr \in {0, 1} /\ block \in 0 .. B
      /\ ClearInv /\ StopInv /\ LoadInv /\ DrainInv
      /\ pc \in ClearLabels \cup PlayLabels \cup CallbackLabels \cup PatientLabels
  BY DEF IInv, SInv, TypeOK, HW!BuffersTypeOK, CountersOK, ControlOK
<1>1. block <= block /\ block - 1 <= block
  BY <1>0
<1>2. AllSilent => BankSilent(1 - wbank)
  BY <1>0 DEF AllSilent, BankSilent
<1>3. Finished \/ Loaded(block) \/ Started(block) \/ LastPlays \/ PlaysFirst(block - 1)
      => BankSilent(1 - wbank) \/ \E e \in Blocks : e <= block /\ Plays(e)
  BY <1>1, <1>2 DEF Finished, Loaded, Started, LastPlays, PlaysFirst, Plays
<1>4. CASE pc \in PatientLabels \/ pc \in {"pause", "close"} \/ pause
  BY <1>0, <1>2, <1>3, <1>4 DEF StopInv, LoadInv
<1>5. CASE pc \in {"addr", "read", "copy", "wait", "button", "leds"} /\ ~pause
  BY <1>0, <1>3, <1>5 DEF LoadInv
<1>6. CASE pc \in {"sync", "synced"}
  BY <1>0, <1>3, <1>6 DEF DrainInv
<1>7. CASE pc \in {"clearAddr", "clearByte"}
  BY <1>0, <1>3, <1>7 DEF DrainInv, ClearInv
<1>8. CASE pc = "clearSwap"
  <2>1. caddr = wbank \/ caddr = 1 - wbank
    BY <1>0
  <2>2. round \in {0, 1} /\ BankSilent(caddr) /\ (round = 1 => BankSilent(1 - caddr))
    BY <1>0, <1>8 DEF ClearInv
  <2>3. round = 0 /\ caddr = wbank => LastPlays
    BY <1>0, <1>8 DEF DrainInv
  <2> QED
    BY <1>3, <2>1, <2>2, <2>3
<1> QED
  BY <1>0, <1>4, <1>5, <1>6, <1>7, <1>8

LEMMA PlaySampleKeeps ==
  ASSUME IInv, SInv, PlaySample
  PROVE  SInv'
<1>0. /\ TypeOK /\ ClearInv /\ StopInv /\ AddrInv
      /\ RiskyInv /\ HeardInv /\ LoadInv /\ DrainInv /\ EndInv
  BY DEF IInv, SInv
<1>1. /\ UNCHANGED <<bank, pc, clear, addr, k, file, controls, risky>>
      /\ wbank \in {0, 1} /\ caddr \in {0, 1} /\ (NoSwap \/ Swapped)
  BY <1>0, PlayFrame DEF TypeOK, CountersOK
<1>2. PICK c \in 0 .. B : c = block /\ c = block'
  BY <1>0, PlayFrame
<1>3. HeardInv'
  BY <1>0, WhatPlays, HeardInvStays
<1>4. NoSwap => wbank' = wbank
  BY DEF NoSwap
<1>5. Swapped => wbank' # wbank /\ wbank' = 1 - wbank
  BY <1>1 DEF Swapped
<1>6. pc # "idle" /\ c = 1 => c \in risky
  BY <1>0 DEF RiskyInv
\* The states of the banks.
<1>7. Finished => Finished' /\ LastPlays' /\ HeardAll(block)'
  <2>1. AllSilent' => BankSilent(1 - wbank)'
    BY <1>1, <1>4, <1>5 DEF AllSilent, BankSilent
  <2> QED
    BY <1>0, <2>1, FinishedStays DEF Finished, LastPlays
<1>8. pc # "idle" /\ Loaded(block) => /\ NoSwap => Loaded(block)'
                                      /\ Swapped => Started(block)' /\ LastPlays'
  <2> SUFFICES ASSUME pc # "idle", Loaded(c)
               PROVE  /\ NoSwap => Loaded(c)'
                      /\ Swapped => Started(c)' /\ Plays(c)'
    BY <1>2 DEF LastPlays
  <2>1. c \in Blocks
    BY DEF Loaded
  <2>2. NoSwap => Loaded(c)'
    BY <1>0, <1>6, <2>1, LoadedOn
  <2>3. Swapped => Started(c)'
    BY <1>0, <1>6, <2>1, LoadedOut
  <2> QED
    BY <2>2, <2>3 DEF Started, PlaysFirst
<1>9. pc # "idle" /\ Started(block) => /\ NoSwap => Started(block)'
                                       /\ Swapped => LastPlays'
  <2> SUFFICES ASSUME pc # "idle", Started(c)
               PROVE  /\ NoSwap => Started(c)'
                      /\ Swapped => LastPlays'
    BY <1>2
  <2>1. c \in Blocks
    BY DEF Started, PlaysFirst, Plays
  <2>2. NoSwap => Started(c)'
    BY <1>0, <2>1, StartedOn
  <2>3. Swapped => HeardTo(c + 1, 0)' /\ (Plays(c)' \/ Plays(c - 1)')
    BY <1>0, <1>6, <2>1, StartedOut
  <2>4. Swapped => HeardAll(block)'
    BY <1>2, <1>3, <2>3 DEF HeardAll, HeardInv
  <2> QED
    BY <1>2, <2>2, <2>3, <2>4 DEF LastPlays
<1>10. LastPlays => /\ NoSwap => LastPlays'
                    /\ Swapped => HeardAll(block)'
  BY <1>0, LastPlaysOn, LastPlaysOut
<1>11. HeardAll(block) /\ BankSilent(1 - wbank) => HeardAll(block)'
  BY <1>0, <1>1, <1>2, <1>3, PlaySilent, HeardStays, PlayFrame DEF HeardAll, HeardInv
\* The parts of the invariant.
<1>12. RiskyInv' /\ EndInv'
  BY <1>0, <1>1 DEF RiskyInv, EndInv
<1>13. Busy => /\ Fresh => Fresh' /\ NoSwap
               /\ Early => Early' /\ NoSwap
               /\ Swapped => Fresh' /\ Early'
  BY TimePasses
<1>14. NextRisky' = NextRisky /\ Fine' = Fine
  BY <1>1 DEF NextRisky, Fine
<1>15. LoadInv'
  <2>1. ASSUME pc \in {"addr", "read"}
        PROVE  \/ Finished' /\ NextRisky'
               \/ Fine' /\ Early' /\ Started(block)'
    BY <1>0, <1>7, <1>9, <1>13, <1>14, <2>1 DEF LoadInv, Busy
  <2>2. ASSUME pc = "copy", block \notin risky
        PROVE  /\ PlaysFirst(block - 1)'
               /\ \A i \in 0 .. N - 1 : i < k => bank'[wbank'][i] = block
    <3>1. Early /\ NoSwap
      BY <1>0, <1>13, <2>2 DEF AddrInv, Busy
    <3>2. PlaysFirst(c - 1)
      BY <1>0, <1>2, <2>2 DEF LoadInv
    <3>3. PlaysFirst(c - 1)'
      BY <1>0, <3>1, <3>2, PlaysOn DEF PlaysFirst, Plays
    <3>4. \A i \in 0 .. N - 1 : i < k => bank[wbank][i] = block
      BY <1>0, <2>2 DEF LoadInv
    <3> QED
      BY <1>1, <1>2, <1>4, <3>1, <3>3, <3>4
  <2>3. ASSUME pc = "copy", block \in risky
        PROVE  \/ addr = wbank' /\ Loaded(block)'
               \/ addr # wbank' /\ Fresh' /\ Started(block)'
    BY <1>0, <1>1, <1>4, <1>5, <1>8, <1>9, <1>13, <2>3 DEF LoadInv, Busy
  <2>4. ASSUME pc \in {"wait", "button", "leds"}, ~pause
        PROVE  \/ Finished' /\ (NextRisky' \/ ~loop)
               \/ Fine' /\ addr = wbank' /\ Loaded(block)'
               \/ Fine' /\ addr # wbank' /\ Fresh' /\ Started(block)'
    BY <1>0, <1>1, <1>4, <1>5, <1>7, <1>8, <1>9, <1>13, <1>14, <2>4 DEF LoadInv, Busy
  <2>5. pc = "release" /\ ~pause => Finished' /\ (NextRisky' \/ ~loop)
    BY <1>0, <1>7, <1>14 DEF LoadInv
  <2>6. pause \/ pc \in {"open", "pause", "close"} => HeardAll(block)'
    BY <1>0, <1>7 DEF LoadInv, StopInv, Finished
  <2>7. pc = "copy" => Fine /\ block \in Blocks
    BY <1>0 DEF LoadInv
  <2> QED
    BY <1>1, <1>14, <2>1, <2>2, <2>3, <2>4, <2>5, <2>6, <2>7 DEF LoadInv
<1>16. DrainInv'
  <2>1. pc = "sync" => Finished' \/ Loaded(block)' \/ (Early' /\ Started(block)')
    BY <1>0, <1>1, <1>7, <1>8, <1>9, <1>13 DEF DrainInv, Busy
  <2>2. pc = "synced" => /\ caddr = wbank' => Finished' \/ Loaded(block)' \/ Started(block)'
                         /\ caddr # wbank' => LastPlays'
    <3>1. ASSUME pc = "synced", caddr = wbank
          PROVE  /\ NoSwap => Finished' \/ Loaded(block)' \/ Started(block)'
                 /\ Swapped => LastPlays'
      BY <1>0, <1>7, <1>8, <1>9, <3>1 DEF DrainInv
    <3>2. ASSUME pc = "synced", caddr # wbank
          PROVE  NoSwap /\ LastPlays'
      BY <1>0, <1>10, <1>13, <3>2 DEF DrainInv, ClearInv, Busy
    <3> QED
      BY <1>1, <1>4, <1>5, <3>1, <3>2
  <2>3. pc \in {"clearAddr", "clearByte"} /\ round = 0 => LastPlays'
    BY <1>0, <1>10, <1>13 DEF DrainInv, ClearInv, Busy
  <2>4. pc = "clearSwap" /\ round = 0 => /\ caddr = wbank' => LastPlays'
                                         /\ caddr # wbank' => HeardAll(block)'
    <3>1. ASSUME pc = "clearSwap", round = 0, caddr = wbank
          PROVE  /\ NoSwap => LastPlays'
                 /\ Swapped => HeardAll(block)'
      BY <1>0, <1>10, <3>1 DEF DrainInv
    <3>2. ASSUME pc = "clearSwap", round = 0, caddr # wbank
          PROVE  NoSwap /\ HeardAll(block)'
      <4>1. caddr = 1 - wbank
        BY <1>1, <3>2
      <4> QED
        BY <1>0, <1>11, <1>13, <3>2, <4>1 DEF DrainInv, ClearInv, Busy
    <3> QED
      BY <1>1, <1>4, <1>5, <3>1, <3>2
  <2>5. ASSUME pc \in {"clearAddr", "clearByte", "clearSwap"}, round = 1
        PROVE  HeardAll(block)'
    <3>1. BankSilent(1 - wbank)
      <4>1. pc = "clearSwap" => BankSilent(caddr) /\ BankSilent(1 - caddr)
        BY <1>0, <2>5 DEF ClearInv
      <4>2. caddr = wbank \/ caddr = 1 - wbank
        BY <1>1
      <4> QED
        BY <1>0, <2>5, <4>1, <4>2 DEF ClearInv
    <3> QED
      BY <1>0, <1>11, <2>5, <3>1 DEF DrainInv
  <2> QED
    BY <1>1, <2>1, <2>2, <2>3, <2>4, <2>5 DEF DrainInv
<1> QED
  BY <1>3, <1>12, <1>15, <1>16 DEF SInv

---------------------------------------------------------------------------
(* The actions of the firmware that leave the banks and the file alone.    *)

Quiet == UNCHANGED <<wbank, pos, bank, heard, quiet, risky, block>>

LEMMA QuietFrame ==
  ASSUME Quiet
  PROVE  /\ Finished => Finished'
         /\ LastPlays => LastPlays'
         /\ HeardAll(block) => HeardAll(block)'
         /\ Loaded(block) => Loaded(block)'
         /\ Started(block) => Started(block)'
         /\ HeardInv => HeardInv'
<1>1. \A d : (Plays(d) => Plays(d)') /\ (PlaysFirst(d) => PlaysFirst(d)')
  BY DEF Quiet, Plays, PlaysFirst, Holds, HeardTo
<1>2. \A d : HeardAll(d) => HeardAll(d)'
  BY DEF Quiet, HeardAll, HeardTo
<1>3. \A b, d : (Holds(b, d) => Holds(b, d)') /\ (BankSilent(b) => BankSilent(b)')
  BY DEF Quiet, Holds, BankSilent
<1>4. (AllSilent => AllSilent') /\ (HeardInv => HeardInv')
  BY DEF Quiet, AllSilent, HeardInv
<1>5. \A d : (Loaded(d) => Loaded(d)') /\ (Started(d) => Started(d)')
  BY <1>1, <1>2, <1>3 DEF Quiet, Loaded, Started
<1>6. \A b : b = wbank => b = wbank'
  BY DEF Quiet
<1>7. LastPlays => LastPlays'
  BY <1>1, <1>2, <1>3 DEF Quiet, LastPlays
<1>8. Finished => Finished'
  BY <1>2, <1>4 DEF Quiet, Finished
<1> QED
  BY <1>2, <1>4, <1>5, <1>7, <1>8 DEF Quiet

LEMMA ClearSyncKeeps == ASSUME IInv, SInv, ClearSync PROVE SInv'
<1>1. Quiet
  BY DEF ClearSync, Quiet
<1>2. RiskyInv' /\ HeardInv' /\ EndInv'
  BY <1>1, QuietFrame DEF SInv, RiskyInv, EndInv, ClearSync, Quiet
<1>3. LoadInv'
  BY <1>1, QuietFrame DEF IInv, TypeOK, CountersOK, HW!BuffersTypeOK, HW!Index,
         ClearInv, StopInv, OpenInv, AddrInv, SInv, LoadInv, DrainInv,
         ClearSync, Quiet, Finished, Fine, NextRisky, Fresh, Early
<1>4. DrainInv'
  BY <1>1, QuietFrame DEF IInv, TypeOK, CountersOK, HW!BuffersTypeOK, HW!Index,
         ClearInv, StopInv, SInv, LoadInv, DrainInv, ClearSync, Quiet,
         Finished, Fresh, Early
<1> QED
  BY <1>2, <1>3, <1>4 DEF SInv

LEMMA ClearSyncedKeeps == ASSUME IInv, SInv, ClearSynced PROVE SInv'
<1>1. Quiet
  BY DEF ClearSynced, Quiet
<1>2. RiskyInv' /\ HeardInv' /\ EndInv'
  BY <1>1, QuietFrame DEF SInv, RiskyInv, EndInv, ClearSynced, Quiet
<1>3. LoadInv'
  BY <1>1, QuietFrame DEF IInv, TypeOK, CountersOK, HW!BuffersTypeOK, HW!Index,
         ClearInv, StopInv, OpenInv, AddrInv, SInv, LoadInv, DrainInv,
         ClearSynced, Quiet, Finished, Fine, NextRisky, Fresh, Early
<1>4. DrainInv'
  BY <1>1, QuietFrame DEF IInv, TypeOK, CountersOK, HW!BuffersTypeOK, HW!Index,
         ClearInv, StopInv, SInv, LoadInv, DrainInv, ClearSynced, Quiet,
         Finished, Fresh, Early
<1> QED
  BY <1>2, <1>3, <1>4 DEF SInv

LEMMA ClearAddrKeeps == ASSUME IInv, SInv, ClearAddr PROVE SInv'
<1>1. Quiet
  BY DEF ClearAddr, Quiet
<1>2. RiskyInv' /\ HeardInv' /\ EndInv'
  BY <1>1, QuietFrame DEF SInv, RiskyInv, EndInv, ClearAddr, Quiet
<1>3. LoadInv'
  BY <1>1, QuietFrame DEF IInv, TypeOK, CountersOK, HW!BuffersTypeOK, HW!Index,
         ClearInv, StopInv, OpenInv, AddrInv, SInv, LoadInv, DrainInv,
         ClearAddr, Quiet, Finished, Fine, NextRisky, Fresh, Early
<1>4. DrainInv'
  BY <1>1, QuietFrame DEF IInv, TypeOK, CountersOK, HW!BuffersTypeOK, HW!Index,
         ClearInv, StopInv, SInv, LoadInv, DrainInv, ClearAddr, Quiet,
         Finished, Fresh, Early
<1> QED
  BY <1>2, <1>3, <1>4 DEF SInv

LEMMA ClearSwapKeeps == ASSUME IInv, SInv, ClearSwap PROVE SInv'
<1>1. Quiet
  BY DEF ClearSwap, Quiet
<1>2. RiskyInv' /\ HeardInv' /\ EndInv'
  BY <1>1, QuietFrame DEF SInv, RiskyInv, EndInv, ClearSwap, ClearRounds,
         Quiet
<1>3. LoadInv'
  BY <1>1, QuietFrame DEF IInv, TypeOK, CountersOK, HW!BuffersTypeOK, HW!Index,
         ControlOK, ClearInv, StopInv, OpenInv, AddrInv, SInv, LoadInv,
         DrainInv, ClearSwap, ClearRounds, Quiet, Finished, Fine, NextRisky,
         Fresh, Early
<1>4. DrainInv'
  BY <1>1, QuietFrame DEF IInv, TypeOK, CountersOK, HW!BuffersTypeOK, HW!Index,
         ControlOK, ClearInv, StopInv, SInv, LoadInv, DrainInv, ClearSwap,
         ClearRounds, Quiet, Finished, Fresh, Early
<1> QED
  BY <1>2, <1>3, <1>4 DEF SInv

LEMMA OpenedKeeps == ASSUME IInv, SInv, Opened PROVE SInv'
<1>1. Quiet
  BY DEF Opened, Quiet
<1>2. RiskyInv' /\ HeardInv' /\ EndInv'
  BY <1>1, QuietFrame DEF SInv, RiskyInv, EndInv, Opened, Quiet
<1>3. LoadInv'
  BY <1>1, QuietFrame DEF IInv, TypeOK, CountersOK, HW!BuffersTypeOK, HW!Index,
         ClearInv, StopInv, OpenInv, AddrInv, SInv, LoadInv, DrainInv, Opened,
         Quiet, Finished, Fine, NextRisky, Fresh, Early
<1>4. DrainInv'
  BY <1>1, QuietFrame DEF IInv, TypeOK, CountersOK, HW!BuffersTypeOK, HW!Index,
         ClearInv, StopInv, SInv, LoadInv, DrainInv, Opened, Quiet, Finished,
         Fresh, Early
<1> QED
  BY <1>2, <1>3, <1>4 DEF SInv

LEMMA NotOpenedKeeps == ASSUME IInv, SInv, NotOpened PROVE SInv'
<1>1. Quiet
  BY DEF NotOpened, Quiet
<1>2. RiskyInv' /\ HeardInv' /\ EndInv'
  BY <1>1, QuietFrame DEF SInv, RiskyInv, EndInv, NotOpened, Quiet
<1>3. LoadInv'
  BY <1>1, QuietFrame DEF IInv, TypeOK, CountersOK, HW!BuffersTypeOK, HW!Index,
         ClearInv, StopInv, OpenInv, AddrInv, SInv, LoadInv, DrainInv,
         NotOpened, Quiet, Finished, Fine, NextRisky, Fresh, Early
<1>4. DrainInv'
  BY <1>1, QuietFrame DEF IInv, TypeOK, CountersOK, HW!BuffersTypeOK, HW!Index,
         ClearInv, StopInv, SInv, LoadInv, DrainInv, NotOpened, Quiet,
         Finished, Fresh, Early
<1> QED
  BY <1>2, <1>3, <1>4 DEF SInv

LEMMA ErrorSeenKeeps == ASSUME IInv, SInv, ErrorSeen PROVE SInv'
<1>1. Quiet
  BY DEF ErrorSeen, Quiet
<1>2. RiskyInv' /\ HeardInv' /\ EndInv'
  BY <1>1, QuietFrame DEF SInv, RiskyInv, EndInv, ErrorSeen, Quiet
<1>3. LoadInv'
  BY <1>1, QuietFrame DEF IInv, TypeOK, CountersOK, HW!BuffersTypeOK, HW!Index,
         ClearInv, StopInv, OpenInv, AddrInv, SInv, LoadInv, DrainInv,
         ErrorSeen, Quiet, Finished, Fine, NextRisky, Fresh, Early
<1>4. DrainInv'
  BY <1>1, QuietFrame DEF IInv, TypeOK, CountersOK, HW!BuffersTypeOK, HW!Index,
         ClearInv, StopInv, SInv, LoadInv, DrainInv, ErrorSeen, Quiet,
         Finished, Fresh, Early
<1> QED
  BY <1>2, <1>3, <1>4 DEF SInv

LEMMA ErrorLeftKeeps == ASSUME IInv, SInv, ErrorLeft PROVE SInv'
<1>1. Quiet
  BY DEF ErrorLeft, Quiet
<1>2. RiskyInv' /\ HeardInv' /\ EndInv'
  BY <1>1, QuietFrame DEF SInv, RiskyInv, EndInv, ErrorLeft, Quiet
<1>3. LoadInv'
  BY <1>1, QuietFrame DEF IInv, TypeOK, CountersOK, HW!BuffersTypeOK, HW!Index,
         ClearInv, StopInv, OpenInv, AddrInv, SInv, LoadInv, DrainInv,
         ErrorLeft, Quiet, Finished, Fine, NextRisky, Fresh, Early
<1>4. DrainInv'
  BY <1>1, QuietFrame DEF IInv, TypeOK, CountersOK, HW!BuffersTypeOK, HW!Index,
         ClearInv, StopInv, SInv, LoadInv, DrainInv, ErrorLeft, Quiet,
         Finished, Fresh, Early
<1> QED
  BY <1>2, <1>3, <1>4 DEF SInv

LEMMA LoadAddrKeeps == ASSUME IInv, SInv, LoadAddr PROVE SInv'
<1>1. Quiet
  BY DEF LoadAddr, Quiet
<1>2. RiskyInv' /\ HeardInv' /\ EndInv'
  BY <1>1, QuietFrame DEF SInv, RiskyInv, EndInv, LoadAddr, Quiet
<1>3. LoadInv'
  BY <1>1, QuietFrame DEF IInv, TypeOK, CountersOK, HW!BuffersTypeOK, HW!Index,
         ClearInv, StopInv, OpenInv, AddrInv, SInv, LoadInv, DrainInv,
         LoadAddr, Quiet, Finished, Fine, NextRisky, Fresh, Early
<1>4. DrainInv'
  BY <1>1, QuietFrame DEF IInv, TypeOK, CountersOK, HW!BuffersTypeOK, HW!Index,
         ClearInv, StopInv, SInv, LoadInv, DrainInv, LoadAddr, Quiet, Finished,
         Fresh, Early
<1> QED
  BY <1>2, <1>3, <1>4 DEF SInv

LEMMA WaitKeeps == ASSUME IInv, SInv, Wait PROVE SInv'
<1>1. Quiet
  BY DEF Wait, Quiet
<1>2. RiskyInv' /\ HeardInv' /\ EndInv'
  BY <1>1, QuietFrame DEF SInv, RiskyInv, EndInv, Wait, StayInWait, Quiet
<1>3. LoadInv'
  BY <1>1, QuietFrame DEF IInv, TypeOK, CountersOK, HW!BuffersTypeOK, HW!Index,
         ClearInv, StopInv, OpenInv, AddrInv, SInv, LoadInv, DrainInv, Wait,
         StayInWait, Quiet, Finished, Fine, NextRisky, Fresh, Early
<1>4. DrainInv'
  BY <1>1, QuietFrame DEF IInv, TypeOK, CountersOK, HW!BuffersTypeOK, HW!Index,
         ClearInv, StopInv, SInv, LoadInv, DrainInv, Wait, StayInWait, Quiet,
         Finished, Fresh, Early
<1> QED
  BY <1>2, <1>3, <1>4 DEF SInv

LEMMA CloseKeeps == ASSUME IInv, SInv, Close PROVE SInv'
<1>1. Quiet
  BY DEF Close, Quiet
<1>2. RiskyInv' /\ HeardInv' /\ EndInv'
  BY <1>1, QuietFrame DEF SInv, RiskyInv, EndInv, Close, Quiet
<1>3. LoadInv'
  BY <1>1, QuietFrame DEF IInv, TypeOK, CountersOK, HW!BuffersTypeOK, HW!Index,
         ClearInv, StopInv, OpenInv, AddrInv, SInv, LoadInv, DrainInv, Close,
         Quiet, Finished, Fine, NextRisky, Fresh, Early
<1>4. DrainInv'
  BY <1>1, QuietFrame DEF IInv, TypeOK, CountersOK, HW!BuffersTypeOK, HW!Index,
         ClearInv, StopInv, SInv, LoadInv, DrainInv, Close, Quiet, Finished,
         Fresh, Early
<1> QED
  BY <1>2, <1>3, <1>4 DEF SInv

LEMMA StopKeeps == ASSUME IInv, SInv, Stop PROVE SInv'
<1>1. Quiet
  BY DEF Stop, Quiet
<1>2. RiskyInv' /\ HeardInv' /\ EndInv'
  BY <1>1, QuietFrame DEF SInv, RiskyInv, EndInv, Stop, StopSignals, Quiet
<1>3. LoadInv'
  BY <1>1, QuietFrame DEF IInv, TypeOK, CountersOK, HW!BuffersTypeOK, HW!Index,
         ClearInv, StopInv, OpenInv, AddrInv, SInv, LoadInv, DrainInv, Stop,
         StopSignals, Quiet, Finished, Fine, NextRisky, Fresh, Early
<1>4. DrainInv'
  BY <1>1, QuietFrame DEF IInv, TypeOK, CountersOK, HW!BuffersTypeOK, HW!Index,
         ClearInv, StopInv, SInv, LoadInv, DrainInv, Stop, StopSignals, Quiet,
         Finished, Fresh, Early
<1> QED
  BY <1>2, <1>3, <1>4 DEF SInv

LEMMA PauseKeeps == ASSUME IInv, SInv, Pause PROVE SInv'
<1>1. Quiet
  BY DEF Pause, Quiet
<1>2. RiskyInv' /\ HeardInv' /\ EndInv'
  BY <1>1, QuietFrame DEF SInv, RiskyInv, EndInv, Pause, Quiet
<1>3. LoadInv'
  BY <1>1, QuietFrame DEF IInv, TypeOK, CountersOK, HW!BuffersTypeOK, HW!Index,
         ClearInv, StopInv, OpenInv, AddrInv, SInv, LoadInv, DrainInv, Pause,
         Quiet, Finished, Fine, NextRisky, Fresh, Early
<1>4. DrainInv'
  BY <1>1, QuietFrame DEF IInv, TypeOK, CountersOK, HW!BuffersTypeOK, HW!Index,
         ClearInv, StopInv, SInv, LoadInv, DrainInv, Pause, Quiet, Finished,
         Fresh, Early
<1> QED
  BY <1>2, <1>3, <1>4 DEF SInv

LEMMA PausedKeeps == ASSUME IInv, SInv, Paused PROVE SInv'
<1>1. Quiet
  BY DEF Paused, Quiet
<1>2. RiskyInv' /\ HeardInv' /\ EndInv'
  BY <1>1, QuietFrame DEF SInv, RiskyInv, EndInv, Paused, Quiet
<1>3. LoadInv'
  BY <1>1, QuietFrame DEF IInv, TypeOK, CountersOK, HW!BuffersTypeOK, HW!Index,
         ClearInv, StopInv, OpenInv, AddrInv, SInv, LoadInv, DrainInv, Paused,
         Quiet, Finished, Fine, NextRisky, Fresh, Early
<1>4. DrainInv'
  BY <1>1, QuietFrame DEF IInv, TypeOK, CountersOK, HW!BuffersTypeOK, HW!Index,
         ClearInv, StopInv, SInv, LoadInv, DrainInv, Paused, Quiet, Finished,
         Fresh, Early
<1> QED
  BY <1>2, <1>3, <1>4 DEF SInv

LEMMA ReleasedKeeps == ASSUME IInv, SInv, Released PROVE SInv'
<1>1. Quiet
  BY DEF Released, Quiet
<1>2. RiskyInv' /\ HeardInv' /\ EndInv'
  BY <1>1, QuietFrame DEF SInv, RiskyInv, EndInv, Released, Quiet
<1>3. LoadInv'
  BY <1>1, QuietFrame DEF IInv, TypeOK, CountersOK, HW!BuffersTypeOK, HW!Index,
         ClearInv, StopInv, OpenInv, AddrInv, SInv, LoadInv, DrainInv,
         Released, Quiet, Finished, Fine, NextRisky, Fresh, Early
<1>4. DrainInv'
  BY <1>1, QuietFrame DEF IInv, TypeOK, CountersOK, HW!BuffersTypeOK, HW!Index,
         ClearInv, StopInv, SInv, LoadInv, DrainInv, Released, Quiet, Finished,
         Fresh, Early
<1> QED
  BY <1>2, <1>3, <1>4 DEF SInv

LEMMA NoButtonKeeps == ASSUME IInv, SInv, NoButton PROVE SInv'
<1>1. Quiet
  BY DEF NoButton, Quiet
<1>2. RiskyInv' /\ HeardInv' /\ EndInv'
  BY <1>1, QuietFrame DEF SInv, RiskyInv, EndInv, NoButton, Quiet
<1>3. LoadInv'
  BY <1>1, QuietFrame DEF IInv, TypeOK, CountersOK, HW!BuffersTypeOK, HW!Index,
         ClearInv, StopInv, OpenInv, AddrInv, SInv, LoadInv, DrainInv,
         NoButton, Quiet, Finished, Fine, NextRisky, Fresh, Early
<1>4. DrainInv'
  BY <1>1, QuietFrame DEF IInv, TypeOK, CountersOK, HW!BuffersTypeOK, HW!Index,
         ClearInv, StopInv, SInv, LoadInv, DrainInv, NoButton, Quiet, Finished,
         Fresh, Early
<1> QED
  BY <1>2, <1>3, <1>4 DEF SInv

LEMMA LedsKeeps == ASSUME IInv, SInv, Leds PROVE SInv'
<1>1. Quiet
  BY DEF Leds, Quiet
<1>2. RiskyInv' /\ HeardInv' /\ EndInv'
  BY <1>1, QuietFrame DEF SInv, RiskyInv, EndInv, Leds, LedsShown, Quiet
<1>3. LoadInv'
  BY <1>1, QuietFrame DEF IInv, TypeOK, CountersOK, HW!BuffersTypeOK, HW!Index,
         ClearInv, StopInv, OpenInv, AddrInv, SInv, LoadInv, DrainInv, Leds,
         LedsShown, Quiet, Finished, Fine, NextRisky, Fresh, Early
<1>4. DrainInv'
  BY <1>1, QuietFrame DEF IInv, TypeOK, CountersOK, HW!BuffersTypeOK, HW!Index,
         ClearInv, StopInv, SInv, LoadInv, DrainInv, Leds, LedsShown, Quiet,
         Finished, Fresh, Early
<1> QED
  BY <1>2, <1>3, <1>4 DEF SInv

---------------------------------------------------------------------------
(* The actions that store in a bank, or move in the file.                  *)

\* A store in the bank not played leaves the other one and the history alone.
LEMMA StoreFrame ==
  ASSUME IInv, SInv, NEW v \in 0 .. B, k < N, HW!Put(k, v),
         UNCHANGED <<wbank, pos, heard, quiet, risky, block>>
  PROVE  /\ HeardAll(block) => HeardAll(block)'
         /\ \A d : (Plays(d) => Plays(d)') /\ (PlaysFirst(d) => PlaysFirst(d)')
         /\ LastPlays => LastPlays'
         /\ BankSilent(1 - wbank) => BankSilent(1 - wbank)'
         /\ \A d : HeardAll(d) => HeardAll(d)'
<1>1. wbank \in {0, 1} /\ \A i \in 0 .. N - 1 : bank'[1 - wbank][i] = bank[1 - wbank][i]
  BY PutType DEF IInv, TypeOK, HW!BuffersTypeOK
<1>2. \A d : (Plays(d) => Plays(d)') /\ (PlaysFirst(d) => PlaysFirst(d)')
  BY <1>1 DEF Plays, PlaysFirst, Holds, HeardTo
<1>3. \A d : HeardAll(d) => HeardAll(d)'
  BY DEF HeardAll, HeardTo
<1>4. BankSilent(1 - wbank) => BankSilent(1 - wbank)'
  BY <1>1 DEF BankSilent
<1>5. LastPlays => LastPlays'
  BY <1>2, <1>3, <1>4 DEF LastPlays
<1> QED
  BY <1>2, <1>3, <1>4, <1>5

LEMMA ClearByteKeeps == ASSUME IInv, SInv, ClearByte PROVE SInv'
<1>1. /\ k < N /\ Silence \in 0 .. B /\ HW!Put(k, Silence) /\ pc = "clearByte"
      /\ caddr = wbank /\ pc' \in {"clearByte", "clearSwap"}
      /\ UNCHANGED <<wbank, pos, heard, quiet, risky, block, caddr, round, loop, signal, ret, pause>>
  BY DEF IInv, ClearInv, ClearByte, Silence
<1>2. ~pause
  BY <1>1 DEF IInv, StopInv
<1>3. (LastPlays => LastPlays') /\ (HeardAll(block) => HeardAll(block)')
  BY <1>1, StoreFrame
<1>4. RiskyInv' /\ HeardInv' /\ EndInv'
  BY <1>1 DEF SInv, RiskyInv, HeardInv, EndInv
<1>5. LoadInv'
  BY <1>1, <1>2 DEF LoadInv
<1>6. DrainInv'
  BY <1>1, <1>3 DEF SInv, DrainInv
<1> QED
  BY <1>4, <1>5, <1>6 DEF SInv

LEMMA CopyByteKeeps == ASSUME IInv, SInv, CopyByte PROVE SInv'
<1>1. /\ k < N /\ k \in 0 .. N /\ HW!Put(k, block) /\ pc = "copy" /\ k' = k + 1
      /\ UNCHANGED <<wbank, pos, heard, quiet, risky, block, addr, work, loop, signal, pause>>
  BY DEF IInv, TypeOK, CountersOK, AddrInv, CopyByte
<1>2. /\ TypeOK /\ LoadInv /\ AddrInv /\ block \in Blocks /\ Fine /\ ~pause
      /\ wbank \in {0, 1}
  BY <1>1 DEF IInv, SInv, LoadInv, StopInv, TypeOK, HW!BuffersTypeOK
<1>3. PICK c \in 1 .. B : c = block /\ c = block'
  BY <1>1, <1>2 DEF Blocks
<1>4. /\ k + 1 = N => pc' = "wait"
      /\ k + 1 # N => pc' = "copy"
  BY DEF CopyByte
<1>5. /\ bank'[wbank][k] = c
      /\ \A i \in 0 .. N - 1 : i # k => bank'[wbank][i] = bank[wbank][i]
  <2>1. block \in 0 .. B
    BY <1>3
  <2>2. /\ bank'[wbank][k] = block
        /\ \A b \in {0, 1}, i \in 0 .. N - 1 :
             b # wbank \/ i # k => bank'[b][i] = bank[b][i]
    BY <1>1, <1>2, <2>1, PutType
  <2> QED
    BY <1>2, <1>3, <2>2
<1>6. /\ \A d : (Plays(d) => Plays(d)') /\ (PlaysFirst(d) => PlaysFirst(d)')
      /\ BankSilent(1 - wbank) => BankSilent(1 - wbank)'
      /\ \A d : HeardAll(d) => HeardAll(d)'
  BY <1>1, <1>3, StoreFrame
<1>7. RiskyInv' /\ HeardInv' /\ EndInv'
  BY <1>1, <1>4 DEF SInv, RiskyInv, HeardInv, EndInv
<1>8. Fine' /\ (Fresh => Fresh')
  BY <1>1, <1>2 DEF Fine, Fresh
<1>9. CASE c \notin risky
  <2>1. PlaysFirst(c - 1)' /\ addr = wbank
    BY <1>1, <1>2, <1>3, <1>6, <1>9 DEF LoadInv, AddrInv
  <2>2. \A i \in 0 .. N - 1 : i < k + 1 => bank'[wbank][i] = c
    <3> TAKE i \in 0 .. N - 1
    <3>1. i < k => bank[wbank][i] = c
      BY <1>1, <1>2, <1>3, <1>9 DEF LoadInv
    <3>2. i < k + 1 => i < k \/ i = k
      BY <1>1
    <3>3. i < k => i # k
      BY <1>1
    <3> QED
      BY <1>5, <3>1, <3>2, <3>3
  <2>3. k + 1 = N => Loaded(c)'
    <3>1. k + 1 = N => Holds(wbank, c)'
      <4>1. k + 1 = N => \A i \in 0 .. N - 1 : i < k + 1
        OBVIOUS
      <4> QED
        BY <1>1, <2>2, <4>1 DEF Holds
    <3> QED
      BY <1>1, <1>3, <1>9, <2>1, <3>1 DEF Loaded, Blocks
  <2>4. LoadInv'
    BY <1>1, <1>2, <1>3, <1>4, <1>8, <1>9, <2>1, <2>2, <2>3 DEF LoadInv
  <2> QED
    BY <1>1, <1>4, <1>7, <2>4 DEF SInv, DrainInv
<1>10. CASE c \in risky
  <2>1. Holds(wbank, c) => Holds(wbank, c)'
    BY <1>1, <1>5 DEF Holds
  <2>2. (Loaded(c) => Loaded(c)') /\ (Started(c) => Started(c)')
    BY <1>1, <1>6, <1>10, <2>1 DEF Loaded, Started
  <2>3. \/ addr' = wbank' /\ Loaded(block)'
        \/ addr' # wbank' /\ Fresh' /\ Started(block)'
    BY <1>1, <1>2, <1>3, <1>8, <1>10, <2>2 DEF LoadInv
  <2>4. LoadInv'
    BY <1>1, <1>2, <1>3, <1>4, <1>8, <1>10, <2>3 DEF LoadInv
  <2> QED
    BY <1>1, <1>4, <1>7, <2>4 DEF SInv, DrainInv
<1> QED
  BY <1>9, <1>10

LEMMA ReadBlockKeeps == ASSUME IInv, SInv, ReadBlock PROVE SInv'
<1>1. /\ pc = "read" /\ TypeOK /\ AddrInv /\ LoadInv /\ RiskyInv
      /\ wbank \in {0, 1} /\ pos \in 0 .. N - 1 /\ block \in 0 .. B /\ ~pause
      /\ UNCHANGED <<wbank, pos, bank, heard, quiet, risky, addr, work, loop, signal, pause>>
  BY DEF IInv, SInv, StopInv, TypeOK, HW!BuffersTypeOK, HW!Index, CountersOK, ReadBlock
<1>2. CASE block < B
  <2>1. PICK c \in 1 .. B : c = block + 1 /\ c = block'
    BY <1>1, <1>2 DEF ReadBlock, More
  <2>2. pc' = "copy" /\ k' = 0 /\ block = c - 1 /\ UNCHANGED ret
    BY <1>1, <1>2, <2>1 DEF ReadBlock, More
  <2>3. Fine' /\ RiskyInv'
    <3>1. \A b \in risky : b \in Int /\ b <= c
      BY <1>1, <2>1 DEF RiskyInv, TypeOK, HistoryOK, Blocks
    <3>2. c + 1 \notin risky /\ \A b \in risky : b <= c + 1
      BY <3>1
    <3> QED
      BY <1>1, <2>1, <2>2, <3>2 DEF RiskyInv, Fine
  <2>4. HeardInv'
    <3>1. heard \in Int
      <4>1. B * N \in Int
        OBVIOUS
      <4> QED
        BY <1>1, <4>1 DEF TypeOK, HistoryOK
    <3>2. 0 \in 0 .. N - 1 /\ c \in Int /\ c + 1 \in Int /\ c < c + 1
      OBVIOUS
    <3>3. At(c, 0) \in Int /\ At(c + 1, 0) \in Int
      BY <3>2, AtInt
    <3>4. At(c, 0) < At(c + 1, 0)
      BY <3>2, AtOrder
    <3> QED
      BY <1>1, <2>1, <3>1, <3>3, <3>4 DEF SInv, HeardInv
  <2>5. CASE c \notin risky
    <3>1. Started(c - 1)
      <4>1. ~NextRisky
        BY <1>1, <1>2, <2>1, <2>5 DEF NextRisky
      <4>2. Started(block)
        BY <1>1, <4>1 DEF LoadInv
      <4> QED
        BY <2>2, <4>2
    <3>2. PlaysFirst(c - 1)'
      BY <1>1, <3>1 DEF Started, PlaysFirst, Plays, Holds, HeardTo
    <3>3. LoadInv'
      <4>1. \A i \in 0 .. N - 1 : ~(i < 0)
        OBVIOUS
      <4>2. PlaysFirst(block - 1)' /\ block' \in Blocks /\ block' \notin risky'
        BY <1>1, <2>1, <2>5, <3>2 DEF Blocks
      <4> QED
        BY <1>1, <2>2, <2>3, <4>1, <4>2 DEF LoadInv
    <3> QED
      BY <1>1, <2>2, <2>3, <2>4, <3>3 DEF SInv, DrainInv, EndInv
  <2>6. CASE c \in risky
    <3>1. AllSilent /\ HeardAll(c - 1)
      BY <1>1, <2>1, <2>2, <2>6 DEF LoadInv, Fine, Finished
    <3>2. HeardTo(c, 0) /\ heard < At(c, 0)
      BY <3>1 DEF HeardAll
    <3>3. \A b \in {0, 1} : BankSilent(b) /\ Holds(b, c)
      BY <2>6, <3>1 DEF AllSilent, BankSilent, Holds
    <3>4. Loaded(c)'
      BY <1>1, <2>6, <3>1, <3>3 DEF Loaded, Holds, BankSilent, HeardAll, HeardTo, Blocks
    <3>5. Started(c)'
      <4>1. HeardTo(c, pos)
        BY <2>6, <3>2, HeardRisky DEF Blocks
      <4>2. heard < At(c, pos)
        <5>1. pos = 0 \/ At(c, 0) < At(c, pos)
          BY <1>1, AtOrder
        <5>2. At(c, 0) \in Int /\ At(c, pos) \in Int /\ heard \in Int
          <6>1. B * N \in Int
            OBVIOUS
          <6> QED
            BY <1>1, <6>1, AtInt DEF TypeOK, HistoryOK
        <5> QED
          BY <3>2, <5>1, <5>2
      <4> QED
        BY <1>1, <2>6, <3>3, <4>1, <4>2
           DEF Started, PlaysFirst, Plays, Holds, HeardTo, Blocks
    <3>6. \/ addr' = wbank' /\ Loaded(block)'
          \/ addr' # wbank' /\ Fresh' /\ Started(block)'
      BY <1>1, <2>1, <3>4, <3>5 DEF AddrInv, Fresh
    <3>7. LoadInv'
      BY <1>1, <2>1, <2>2, <2>3, <2>6, <3>6 DEF LoadInv, Blocks
    <3> QED
      BY <1>1, <2>2, <2>3, <2>4, <3>7 DEF SInv, DrainInv, EndInv
  <2> QED
    BY <2>5, <2>6
<1>3. CASE ~(block < B)
  <2>1. Quiet /\ block = B /\ pc' = "sync" /\ ret' = "close"
    BY <1>1, <1>3 DEF ReadBlock, More, Quiet
  <2>2. Finished \/ (Early /\ Started(block))
    BY <1>1 DEF LoadInv
  <2>3. DrainInv'
    BY <1>1, <2>1, <2>2, QuietFrame DEF DrainInv, Early
  <2>4. LoadInv'
    BY <1>1, <2>1 DEF LoadInv
  <2> QED
    BY <1>1, <2>1, <2>3, <2>4, QuietFrame DEF SInv, RiskyInv, EndInv, Quiet
<1> QED
  BY <1>2, <1>3

LEMMA ResumeKeeps == ASSUME IInv, SInv, Resume PROVE SInv'
<1>1. /\ pc = "button" /\ pause /\ pc' = "release" /\ pause' = FALSE
      /\ risky' = risky \cup ({block + 1} \cap Blocks) /\ block \in 0 .. B
      /\ UNCHANGED <<wbank, pos, bank, heard, quiet, block, loop, signal, ret>>
  BY DEF IInv, TypeOK, CountersOK, Resume
<1>2. AllSilent /\ HeardAll(block)
  BY <1>1 DEF IInv, StopInv, SInv, LoadInv
<1>3. Finished'
  BY <1>1, <1>2 DEF Finished, AllSilent, HeardAll, HeardTo
<1>4. NextRisky'
  BY <1>1 DEF NextRisky, Blocks
<1>5. RiskyInv' /\ HeardInv' /\ EndInv'
  BY <1>1 DEF SInv, RiskyInv, HeardInv, EndInv, Blocks
<1> QED
  BY <1>1, <1>3, <1>4, <1>5 DEF SInv, LoadInv, DrainInv

LEMMA PlayKeeps == ASSUME IInv, SInv, Play PROVE SInv'
<1>1. /\ pc = "idle" /\ pc' = "sync" /\ ret' = "open" /\ block' = 0 /\ heard' = 0
      /\ risky' = {1} /\ UNCHANGED <<wbank, pos, bank, loop, signal, pause>>
  BY DEF Play
<1>2. AllSilent /\ ~pause
  BY <1>1 DEF IInv, StopInv
<1>3. At(1, 0) = 1
  BY DEF At
<1>4. \A e \in Blocks, j \in 0 .. N - 1 : ~(e < 1 \/ (e = 1 /\ j < 0))
  BY DEF Blocks
<1>5. Finished'
  BY <1>1, <1>2, <1>3, <1>4 DEF Finished, AllSilent, HeardAll, HeardTo
<1> QED
  BY <1>1, <1>2, <1>3, <1>5
     DEF SInv, RiskyInv, HeardInv, LoadInv, DrainInv, EndInv

LEMMA InitSInv == Init => SInv
<1>1. At(1, 0) = 1
  BY DEF At
<1> QED
  BY <1>1 DEF Init, SInv, RiskyInv, HeardInv, LoadInv, DrainInv, EndInv

LEMMA StutterKeeps == ASSUME SInv, UNCHANGED vars PROVE SInv'
<1>1. Quiet /\ UNCHANGED <<pc, ret, caddr, round, addr, k, loop, pause, signal, work>>
  BY DEF vars, Quiet
<1>2. RiskyInv' /\ HeardInv' /\ EndInv'
  BY <1>1, QuietFrame DEF Quiet, SInv, RiskyInv, EndInv
<1>3. PlaysFirst(block - 1) => PlaysFirst(block - 1)'
  BY <1>1 DEF Quiet, PlaysFirst, Plays, Holds, HeardTo
<1>4. LoadInv'
  BY <1>1, <1>3, QuietFrame DEF Quiet, SInv, LoadInv, Fine, NextRisky, Fresh, Early
<1>5. DrainInv'
  BY <1>1, QuietFrame DEF Quiet, SInv, DrainInv, Early
<1> QED
  BY <1>2, <1>4, <1>5 DEF SInv

LEMMA NextKeeps == ASSUME IInv, SInv, [Next]_vars PROVE SInv'
<1>1. CASE PlaySample
  BY <1>1, PlaySampleKeeps
<1>2. CASE Clearing
  BY <1>2, ClearSyncKeeps, ClearSyncedKeeps, ClearAddrKeeps, ClearByteKeeps,
     ClearSwapKeeps DEF Clearing
<1>3. CASE Loading
  BY <1>3, LoadAddrKeeps, ReadBlockKeeps, CopyByteKeeps, WaitKeeps, CloseKeeps
     DEF Loading
<1>4. CASE Callback
  BY <1>4, StopKeeps, PauseKeeps, PausedKeeps, ResumeKeeps, NoButtonKeeps, LedsKeeps
     DEF Callback
<1>5. CASE Opening
  BY <1>5, OpenedKeeps, NotOpenedKeeps DEF Opening
<1>6. CASE User
  BY <1>6, PlayKeeps, ErrorSeenKeeps, ErrorLeftKeeps, ReleasedKeeps DEF User
<1>7. CASE UNCHANGED vars
  BY <1>7, StutterKeeps
<1> QED
  BY <1>1, <1>2, <1>3, <1>4, <1>5, <1>6, <1>7 DEF Next, Firmware

\* What the two banks hold and what was heard, at every step of read_audio_file,
\* of the callback and of clear_audio.
THEOREM HeardInvariant == Spec => [](IInv /\ SInv)
<1>1. IInv /\ SInv /\ [Next]_vars => (IInv /\ SInv)'
  BY NextStep, NextKeeps
<1> QED
  BY InitIInv, InitSInv, <1>1, PTL DEF Spec

---------------------------------------------------------------------------
(* What is heard.                                                          *)

\* Only the player of the hardware moves forward in the file.
LEMMA OnlySamples ==
  ASSUME IInv, [Next]_vars, heard' > heard
  PROVE  PlaySample
<1>1. heard \in Int /\ heard >= 0
  <2>1. B * N \in Int
    OBVIOUS
  <2> QED
    BY <2>1 DEF IInv, TypeOK, HistoryOK
<1>2. heard' # heard /\ heard' # 0
  BY <1>1
<1> QED
  BY <1>2 DEF Next, Firmware, User, Clearing, Loading, Callback, Opening, vars,
     ClearSync, ClearSynced, ClearAddr, ClearByte, ClearSwap, LoadAddr, ReadBlock,
     CopyByte, Wait, Close, Stop, Pause, Paused, Resume, NoButton, Leds, Opened,
     NotOpened, Play, ErrorSeen, ErrorLeft, Released

\* Every place but 0 is the one of a sample of its block.
LEMMA BlockPlace ==
  ASSUME NEW p \in Nat \ {0}
  PROVE  /\ BlockOf(p) \in Int
         /\ \E j \in 0 .. N - 1 : p = At(BlockOf(p), j)
<1> DEFINE a == p + N - 1
           q == a \div N
           r == a % N
<1>1. a \in Nat /\ BlockOf(p) = q
  BY DEF BlockOf
<1>2. q \in Int /\ r \in 0 .. N - 1 /\ a = N * q + r
  BY <1>1, SMTT(30)
<1> HIDE DEF q, r
<1>3. N * q \in Int /\ (q - 1) * N = N * q - N
  BY <1>2, SMT
<1>4. p = (q - 1) * N + r + 1
  BY <1>2, <1>3
<1> QED
  BY <1>1, <1>2, <1>4 DEF At

\* A place before sample i of block d belongs to an earlier block, or to an
\* earlier sample of it.
LEMMA BlockBefore ==
  ASSUME NEW d \in Blocks, NEW i \in 0 .. N - 1, NEW p \in Nat \ {0}, p < At(d, i)
  PROVE  \E e \in Blocks, j \in 0 .. N - 1 :
           /\ e = BlockOf(p) /\ p = At(e, j)
           /\ e < d \/ (e = d /\ j < i)
<1>1. BlockOf(p) \in Int
  BY BlockPlace
<1>2. PICK j \in 0 .. N - 1 : p = At(BlockOf(p), j)
  BY BlockPlace
<1>3. PICK e \in Int : e = BlockOf(p)
  BY <1>1
<1>4. d \in Int /\ At(d, i) \in Int
  BY AtInt DEF Blocks
<1>5. ~(d < e) /\ ~(d = e /\ i < j) /\ ~(d = e /\ i = j)
  <2>1. ~(At(d, i) < p)
    BY <1>4
  <2>2. ~(At(d, i) = p)
    BY <1>4
  <2> QED
    BY <1>2, <1>3, <1>4, <2>1, <2>2, AtOrder
<1>6. ~(e < 1)
  <2>1. SUFFICES ASSUME e < 1 PROVE FALSE
    OBVIOUS
  <2>2. At(e, j) < At(1, 0)
    BY <2>1, AtOrder
  <2>3. At(1, 0) = 1
    BY DEF At
  <2> QED
    BY <1>2, <1>3, <2>2, <2>3
<1>7. e \in Blocks
  BY <1>4, <1>5, <1>6 DEF Blocks
<1>8. e < d \/ (e = d /\ j < i)
  BY <1>4, <1>5
<1> QED
  BY <1>2, <1>3, <1>7, <1>8

LEMMA BlockOfAt ==
  ASSUME NEW d \in Blocks, NEW i \in 0 .. N - 1
  PROVE  BlockOf(At(d, i)) = d
<1>1. d \in Int /\ At(d, i) \in Nat \ {0}
  <2>1. At(1, 0) = 1
    BY DEF At
  <2>2. (d = 1 /\ i = 0) \/ At(1, 0) < At(d, i)
    BY AtOrder DEF Blocks
  <2>3. d \in Int /\ At(d, i) \in Int
    BY AtInt DEF Blocks
  <2> QED
    BY <2>1, <2>2, <2>3
<1>2. PICK e \in Int : e = BlockOf(At(d, i))
  BY <1>1, BlockPlace
<1>3. PICK j \in 0 .. N - 1 : At(d, i) = At(e, j)
  BY <1>1, <1>2, BlockPlace
<1>4. ~(At(d, i) < At(e, j)) /\ ~(At(e, j) < At(d, i))
  BY <1>1, <1>3
<1> QED
  BY <1>1, <1>2, <1>4, AtOrder

\* The step that plays a new sample.
LEMMA SeamlessStep ==
  ASSUME IInv, SInv, [Next]_vars, heard' > heard
  PROVE  /\ \A p \in heard + 1 .. heard' - 1 : BlockOf(p) \in risky
         /\ quiet => {BlockOf(heard'), BlockOf(heard') - 1} \cap risky # {}
<1>0. PlaySample /\ TypeOK
  BY OnlySamples DEF IInv
<1>1. heard \in Int /\ heard >= 0 /\ pos \in 0 .. N - 1
  BY <1>0, PlayFrame
<1>2. PICK d \in Blocks : Plays(d)
  BY <1>0, <1>1, WhatPlays, PlaySilent
<1>3. heard' = At(d, pos)
  BY <1>0, <1>2, PlayBlock DEF Plays
<1>4. \A p \in heard + 1 .. heard' - 1 : BlockOf(p) \in risky
  <2> SUFFICES ASSUME NEW p \in heard + 1 .. heard' - 1
               PROVE  BlockOf(p) \in risky
    OBVIOUS
  <2>1. p \in Nat \ {0} /\ p > heard
    BY <1>1
  <2>2. p < At(d, pos)
    <3>1. At(d, pos) \in Int
      BY <1>1, AtInt DEF Blocks
    <3> QED
      BY <1>3, <2>1, <3>1
  <2>3. PICK e \in Blocks, j \in 0 .. N - 1 :
          /\ e = BlockOf(p) /\ p = At(e, j)
          /\ e < d \/ (e = d /\ j < pos)
    BY <1>1, <2>1, <2>2, BlockBefore
  <2>4. At(e, j) <= heard \/ e \in risky
    BY <1>2, <2>3 DEF Plays, HeardTo
  <2> QED
    BY <1>1, <2>1, <2>3, <2>4
<1>5. BlockOf(heard') = d
  BY <1>1, <1>3, BlockOfAt
<1>6. quiet => d \in risky \/ d - 1 \in risky
  BY <1>2 DEF Plays
<1> QED
  BY <1>4, <1>5, <1>6

\* Outside clear_audio, what is played is played for the first time.
LEMMA WhatPlaysFirst ==
  ASSUME IInv, SInv, ~Clears
  PROVE  BankSilent(1 - wbank) \/ \E e \in Blocks : PlaysFirst(e)
<1>0. /\ wbank \in {0, 1} /\ StopInv /\ LoadInv
      /\ pc \in PlayLabels \cup CallbackLabels \cup PatientLabels
  BY DEF IInv, SInv, TypeOK, HW!BuffersTypeOK, ControlOK, Clears
<1>1. AllSilent => BankSilent(1 - wbank)
  BY <1>0 DEF AllSilent, BankSilent
<1>2. Finished \/ Loaded(block) \/ Started(block) \/ PlaysFirst(block - 1)
      => BankSilent(1 - wbank) \/ \E e \in Blocks : PlaysFirst(e)
  BY <1>1 DEF Finished, Loaded, Started, PlaysFirst, Plays
<1>3. CASE pc \in PatientLabels \/ pc \in {"pause", "close"} \/ pause
  BY <1>0, <1>1, <1>2, <1>3 DEF StopInv, LoadInv
<1>4. CASE pc \in {"addr", "read", "copy", "wait", "button", "leds"} /\ ~pause
  BY <1>0, <1>2, <1>4 DEF LoadInv
<1> QED
  BY <1>0, <1>3, <1>4

LEMMA FirstTime ==
  ASSUME IInv, SInv, PlaySample, Place # 0, Place <= heard
  PROVE  Clears
<1> SUFFICES ASSUME ~Clears PROVE FALSE
  OBVIOUS
<1>0. TypeOK
  BY DEF IInv
<1>1. ~BankSilent(1 - wbank)
  BY <1>0, PlayFrame DEF Place, HW!Played, HW!PlayBank, BankSilent
<1>2. PICK d \in Blocks : PlaysFirst(d)
  BY <1>1, WhatPlaysFirst
<1>3. bank[1 - wbank][pos] = d \/ bank[1 - wbank][pos] = Silence
  BY <1>0, <1>2, PlayFrame DEF PlaysFirst, Plays, Holds
<1>4. Place = At(d, pos)
  BY <1>3 DEF Place, HW!Played, HW!PlayBank, At
<1>5. At(d, pos) \in Int /\ heard \in Int
  BY <1>0, PlayFrame, AtInt DEF Blocks
<1> QED
  BY <1>2, <1>4, <1>5 DEF PlaysFirst

---------------------------------------------------------------------------
\* Every sample of the file is heard, in its place and without a gap, but for the
\* blocks whose load no exchange started: the loads, the polls and the swaps can
\* be interleaved in any way BudgetAssumption allows.
THEOREM PlaysSeamlessly == Spec => Seamless
<1>1. IInv /\ SInv /\ [Next]_vars =>
        [heard' > heard =>
           /\ \A p \in heard + 1 .. heard' - 1 : BlockOf(p) \in risky
           /\ quiet => {BlockOf(heard'), BlockOf(heard') - 1} \cap risky # {}]_vars
  BY SeamlessStep
<1> QED
  BY <1>1, HeardInvariant, PTL DEF Spec, Seamless

\* No sample is heard twice, except in clear_audio.
THEOREM NothingReplayed == Spec => NoReplayWhileLoading
<1>1. IInv /\ SInv /\ [Next]_vars =>
        [(PlaySample /\ Place # 0 /\ Place <= heard) => Clears]_vars
  BY FirstTime
<1> QED
  BY <1>1, HeardInvariant, PTL DEF Spec, NoReplayWhileLoading

\* A music that ends by itself has been heard to its last sample, unless its last
\* block is one whose load no exchange started.
THEOREM HeardToTheEnd == Spec => []PlayedToTheEnd
<1>1. IInv /\ SInv => PlayedToTheEnd
  <2> SUFFICES ASSUME IInv, SInv, pc = "close", signal = 1, B \notin risky
               PROVE  block = B /\ heard = B * N
    BY DEF PlayedToTheEnd, SInv, EndInv
  <2>1. block = B /\ HeardAll(B)
    BY DEF SInv, EndInv, LoadInv
  <2>2. B \in Blocks /\ B < B + 1 /\ N - 1 \in 0 .. N - 1
    BY DEF Blocks
  <2>3. At(B, N - 1) <= heard
    BY <2>1, <2>2 DEF HeardAll, HeardTo
  <2>4. At(B, N - 1) = B * N /\ B * N \in Int
    <3>1. B * N \in Int /\ (B - 1) * N = B * N - N
      BY SMT
    <3> QED
      BY <3>1 DEF At
  <2>5. heard \in 0 .. B * N
    BY DEF IInv, TypeOK, HistoryOK
  <2> QED
    BY <2>1, <2>3, <2>4, <2>5
<1> QED
  BY <1>1, HeardInvariant, PTL
===========================================================================
