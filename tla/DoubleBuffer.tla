--------------------------- MODULE DoubleBuffer ---------------------------
(***************************************************************************)
(* What the audio streaming hardware of cabillot.si promises to the        *)
(* firmware: two banks of N samples.  One bank is played, sample by        *)
(* sample, while the processor writes the other one; when the last sample  *)
(* has been played the two banks exchange their roles.  The processor      *)
(* never reaches the bank being played and cannot delay the exchange.      *)
(*                                                                         *)
(* AudioBuffer (the circuit, one action per clock cycle) implements this   *)
(* specification; StreamPlayer (the firmware) is built on it.              *)
(***************************************************************************)
EXTENDS Integers

CONSTANTS N,        \* samples in a bank (512 in cabillot.si)
          Sample,   \* the values a sample can take (8 bits)
          Silence   \* the sample an empty bank holds (0, "pad(0)")

VARIABLES wbank,    \* the bank the processor writes, 0 or 1
          pos,      \* the sample being played in the other bank
          bank      \* the contents of the two banks

buffers == <<wbank, pos, bank>>

Index == 0 .. N - 1

BuffersTypeOK == /\ wbank \in {0, 1}
                 /\ pos \in Index
                 /\ bank \in [{0, 1} -> [Index -> Sample]]

BuffersInit == /\ wbank = 0
               /\ pos = 0
               /\ bank = [b \in {0, 1} |-> [i \in Index |-> Silence]]

\* The bank and the sample being played.
PlayBank == 1 - wbank
Played == bank[PlayBank][pos]

\* The processor stores sample v at index i: always in the bank not played.
Put(i, v) == bank' = [bank EXCEPT ![wbank][i] = v]

Store == \E i \in Index, v \in Sample : Put(i, v)

\* The player moves to the next sample of its bank, ...
Advance == /\ pos + 1 < N
           /\ pos' = pos + 1
           /\ UNCHANGED wbank

\* ... or, after the last one, the banks exchange their roles.
Swap == /\ pos + 1 = N
        /\ pos' = 0
        /\ wbank' = 1 - wbank

Tick == Advance \/ Swap

BuffersNext == /\ Store \/ UNCHANGED bank
               /\ Tick \/ UNCHANGED <<wbank, pos>>

Buffers == BuffersInit /\ [][BuffersNext]_buffers

\* The player never stops: the clock goes on whatever the processor does.
FairBuffers == Buffers /\ WF_buffers(Tick /\ (Store \/ UNCHANGED bank))
===========================================================================
