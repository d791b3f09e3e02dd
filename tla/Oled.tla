-------------------------------- MODULE Oled --------------------------------
(***************************************************************************)
(* The unit that sends bytes to the OLED screen bit by bit, in its two     *)
(* versions (projects/ice-v/SOCs/ice-v-oled.si), between a processor that  *)
(* gives it bytes without asking whether it is free, after having executed *)
(* a fixed number of instructions (oled_wait, firmware/oled.h:20), and the *)
(* screen, external, that takes a bit at each rising edge of the clock.    *)
(***************************************************************************)
EXTENDS Integers, SequencesExt

CONSTANTS Bytes,      \* the bytes that are sent
          Dividers,   \* 2: the fast version, 4: OLED_SLOW
          Gap,        \* cycles between two bytes, at least, for each version
          MaxSent     \* bound: bytes sent

\* The processor leaves the unit the time to raise the clock for the last bit.
ASSUME GapAssumption ==
  /\ Bytes \subseteq 0 .. 255 /\ Dividers \subseteq {2, 4} /\ MaxSent \in Nat
  /\ \A d \in Dividers : Gap[d] \in Nat /\ Gap[d] >= 7 * d + 2

VARIABLES div,        \* the version
          osc,        \* the place of the bit in its ring
          dc, sending, busy,
          oled_clk, oled_din, oled_dc,
          since,      \* the processor: cycles since the last byte, up to Gap
          sent,       \* the processor: what it has sent
          bits, got   \* the screen: the bits of the byte to come, and the bytes taken

pins == <<oled_clk, oled_din, oled_dc>>
vars == <<div, osc, dc, sending, busy, pins, since, sent, bits, got>>

Init ==
  /\ div \in Dividers
  /\ osc = 0 /\ dc = 0 /\ sending = 0 /\ busy = 0
  /\ oled_clk = 0 /\ oled_din = 0 /\ oled_dc = 0
  /\ since = Gap[div] /\ sent = <<>> /\ bits = <<>> /\ got = <<>>

\* mutant: the bits are not turned round.
MirroredNot(byte) == byte

Bit(byte, weight) == (byte \div weight) % 2

\* The bits of a byte, the last one first.
Mirrored(byte) ==
  Bit(byte, 128) + 2 * Bit(byte, 64) + 4 * Bit(byte, 32) + 8 * Bit(byte, 16)
    + 16 * Bit(byte, 8) + 32 * Bit(byte, 4) + 64 * Bit(byte, 2) + 128 * Bit(byte, 1)

Rotated == IF busy % 2 = 1 THEN (osc + 1) % div ELSE 0

\* The clock is up in the second half of the ring (slow) or at its start (fast).
ClkOf(o) == IF busy % 2 = 1 /\ IF div = 4 THEN o \in {2, 3} ELSE o = 0 THEN 1 ELSE 0

\* mutant: as many bits as remain of the byte before.
BusyKept == busy

BusyFull == 255

\* The always block when the processor gives a byte.
Load(byte, command) ==
  /\ dc' = command /\ sending' = Mirrored(byte) /\ busy' = BusyFull
  /\ oled_clk' = ClkOf(Rotated) /\ osc' = 0 /\ oled_dc' = dc
  /\ UNCHANGED oled_din

\* The always block otherwise.
Shift ==
  /\ oled_din' = sending % 2
  /\ sending' = IF Rotated = 0 THEN sending \div 2 ELSE sending
  /\ busy' = IF Rotated = 0 THEN busy \div 2 ELSE busy
  /\ oled_clk' = ClkOf(Rotated) /\ osc' = Rotated /\ oled_dc' = dc
  /\ UNCHANGED dc

\* The byte of eight bits, the first one on top.
Byte(taken) ==
  128 * taken[1] + 64 * taken[2] + 32 * taken[3] + 16 * taken[4]
    + 8 * taken[5] + 4 * taken[6] + 2 * taken[7] + taken[8]

\* The screen takes a bit when the clock rises, and dc with the last one.
Screen ==
  LET taken == IF oled_clk = 0 /\ oled_clk' = 1 THEN Append(bits, oled_din') ELSE bits IN
  IF Len(taken) = 8
  THEN bits' = <<>> /\ got' = Append(got, <<oled_dc', Byte(taken)>>)
  ELSE bits' = taken /\ UNCHANGED got

Send ==
  \E byte \in Bytes, command \in {0, 1} :
    /\ since = Gap[div] /\ Len(sent) < MaxSent
    /\ Load(byte, command)
    /\ since' = 1 /\ sent' = Append(sent, <<command, byte>>)
    /\ Screen /\ UNCHANGED div

Cycle ==
  /\ Shift /\ Screen
  /\ since' = IF since = Gap[div] THEN since ELSE since + 1
  /\ UNCHANGED <<div, sent>>

Next == Send \/ Cycle

\* The clock does not stop.
Spec == Init /\ [][Next]_vars /\ WF_vars(Cycle)
-----------------------------------------------------------------------------
TypeOK ==
  /\ osc \in 0 .. div - 1 /\ sending \in 0 .. 255 /\ busy \in {0, 1, 3, 7, 15, 31, 63, 127, 255}
  /\ {dc, oled_clk, oled_din, oled_dc} \subseteq {0, 1}
  /\ since \in 1 .. Gap[div] /\ Len(bits) < 8

\* The screen takes the bytes that were sent, whole, in order, each as the command or
\* the data it is, although nothing tells the processor that the unit is free
\* (ice-v-oled.si:27, 59).
BytesIntact == IsPrefix(got, sent)

\* Every byte gets to the screen.
AllArrive == \A k \in 1 .. MaxSent : Len(sent) = k ~> Len(got) >= k
=============================================================================
