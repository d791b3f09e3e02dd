----------------------------- MODULE OledProofs -----------------------------
(***************************************************************************)
(* Proofs about the OLED unit, for any bytes sent at any times that leave  *)
(* GapAssumption, in both versions: no byte is cut short by the next one.  *)
(***************************************************************************)
EXTENDS Oled, TLAPS

---------------------------------------------------------------------------
(* The bits of a byte.                                                     *)

\* The bits of a byte, in the order of the wire.
Sent(byte) == [j \in 0 .. 7 |-> Bit(byte, <<128, 64, 32, 16, 8, 4, 2, 1>>[j + 1])]

\* What sending and busy hold once j bits are gone.
Rest(byte, j) ==
  LET b == Sent(byte)
      r7 == b[7]
      r6 == b[6] + 2 * r7
      r5 == b[5] + 2 * r6
      r4 == b[4] + 2 * r5
      r3 == b[3] + 2 * r4
      r2 == b[2] + 2 * r3
      r1 == b[1] + 2 * r2
  IN  <<b[0] + 2 * r1, r1, r2, r3, r4, r5, r6, r7, 0>>[j + 1]
Busy(j) == <<255, 127, 63, 31, 15, 7, 3, 1, 0>>[j + 1]

\* Each bit is 0 or 1.
LEMMA Sent01 == \A byte \in 0 .. 255 : Sent(byte) \in [0 .. 7 -> {0, 1}]
<1> SUFFICES ASSUME NEW byte \in 0 .. 255, NEW j \in 0 .. 7 PROVE Sent(byte)[j] \in {0, 1}
  BY DEF Sent
<1>1. j \in {0, 1, 2, 3, 4, 5, 6, 7}
  OBVIOUS
<1> QED
  BY <1>1 DEF Sent, Bit

\* A bit in front of a number is its rest, and the number its half.
LEMMA BitInFront ==
  ASSUME NEW c \in {0, 1}, NEW r \in Nat
  PROVE  c + 2 * r \in Nat /\ (c + 2 * r) % 2 = c /\ (c + 2 * r) \div 2 = r
  OBVIOUS

\* The lowest bit of sending is the next one, and a shift leaves the rest.
LEMMA RestNext ==
  ASSUME NEW byte \in 0 .. 255, NEW j \in 0 .. 7
  PROVE  /\ Rest(byte, j) % 2 = Sent(byte)[j]
         /\ Rest(byte, j) \div 2 = Rest(byte, j + 1)
<1> DEFINE S == Sent(byte)
           r7 == S[7] + 2 * 0
           r6 == S[6] + 2 * r7
           r5 == S[5] + 2 * r6
           r4 == S[4] + 2 * r5
           r3 == S[3] + 2 * r4
           r2 == S[2] + 2 * r3
           r1 == S[1] + 2 * r2
           r0 == S[0] + 2 * r1
<1>1. /\ S[0] \in {0, 1} /\ S[1] \in {0, 1} /\ S[2] \in {0, 1} /\ S[3] \in {0, 1}
      /\ S[4] \in {0, 1} /\ S[5] \in {0, 1} /\ S[6] \in {0, 1} /\ S[7] \in {0, 1}
  <2>1. S \in [0 .. 7 -> {0, 1}]
    BY Sent01
  <2> HIDE DEF S
  <2> QED
    BY <2>1
<1>2. Rest(byte, j) = <<r0, r1, r2, r3, r4, r5, r6, r7, 0>>[j + 1]
      /\ Rest(byte, j + 1) = <<r0, r1, r2, r3, r4, r5, r6, r7, 0>>[j + 2]
  <2>1. r7 = S[7]
    BY <1>1
  <2> QED
    BY <2>1 DEF Rest
<1> HIDE DEF S
<1>3. r7 \in Nat /\ r7 % 2 = S[7] /\ r7 \div 2 = 0
  BY <1>1
<1> HIDE DEF r7
<1>4. r6 \in Nat /\ r6 % 2 = S[6] /\ r6 \div 2 = r7
  BY <1>1, <1>3, BitInFront
<1> HIDE DEF r6
<1>5. r5 \in Nat /\ r5 % 2 = S[5] /\ r5 \div 2 = r6
  BY <1>1, <1>4, BitInFront
<1> HIDE DEF r5
<1>6. r4 \in Nat /\ r4 % 2 = S[4] /\ r4 \div 2 = r5
  BY <1>1, <1>5, BitInFront
<1> HIDE DEF r4
<1>7. r3 \in Nat /\ r3 % 2 = S[3] /\ r3 \div 2 = r4
  BY <1>1, <1>6, BitInFront
<1> HIDE DEF r3
<1>8. r2 \in Nat /\ r2 % 2 = S[2] /\ r2 \div 2 = r3
  BY <1>1, <1>7, BitInFront
<1> HIDE DEF r2
<1>9. r1 \in Nat /\ r1 % 2 = S[1] /\ r1 \div 2 = r2
  BY <1>1, <1>8, BitInFront
<1> HIDE DEF r1
<1>10. r0 % 2 = S[0] /\ r0 \div 2 = r1
  BY <1>1, <1>9, BitInFront
<1> HIDE DEF r0
<1>11. j \in {0, 1, 2, 3, 4, 5, 6, 7}
  OBVIOUS
<1> QED
  BY <1>2, <1>3, <1>4, <1>5, <1>6, <1>7, <1>8, <1>9, <1>10, <1>11 DEF S

\* At the start sending is the byte turned round.
LEMMA RestAll == \A byte \in 0 .. 255 : Rest(byte, 0) = Mirrored(byte)
<1> SUFFICES ASSUME NEW byte \in 0 .. 255 PROVE Rest(byte, 0) = Mirrored(byte)
  OBVIOUS
<1> DEFINE S == Sent(byte)
<1>1. S \in [0 .. 7 -> {0, 1}]
  BY Sent01
<1>2. Mirrored(byte) = S[0] + 2 * S[1] + 4 * S[2] + 8 * S[3] + 16 * S[4] + 32 * S[5]
                         + 64 * S[6] + 128 * S[7]
  BY DEF Sent, Mirrored
<1>3. Rest(byte, 0) = S[0] + 2 * (S[1] + 2 * (S[2] + 2 * (S[3] + 2 * (S[4] + 2 * (S[5]
                         + 2 * (S[6] + 2 * S[7]))))))
  BY DEF Rest
<1> HIDE DEF S
<1>4. /\ S[0] \in Int /\ S[1] \in Int /\ S[2] \in Int /\ S[3] \in Int
      /\ S[4] \in Int /\ S[5] \in Int /\ S[6] \in Int /\ S[7] \in Int
  BY <1>1
<1> DEFINE P == S[4] + 2 * (S[5] + 2 * (S[6] + 2 * S[7]))
<1>5. P = S[4] + 2 * S[5] + 4 * S[6] + 8 * S[7] /\ P \in Int
  BY <1>4
<1>6. Rest(byte, 0) = S[0] + 2 * (S[1] + 2 * (S[2] + 2 * (S[3] + 2 * P)))
  BY <1>3
<1> HIDE DEF P
<1>7. S[0] + 2 * (S[1] + 2 * (S[2] + 2 * (S[3] + 2 * P)))
      = S[0] + 2 * S[1] + 4 * S[2] + 8 * S[3] + 16 * P
  BY <1>4, <1>5
<1>8. 16 * P = 16 * S[4] + 32 * S[5] + 64 * S[6] + 128 * S[7]
  BY <1>4, <1>5
<1>9. S[0] + 2 * S[1] + 4 * S[2] + 8 * S[3] + 16 * P
      = S[0] + 2 * S[1] + 4 * S[2] + 8 * S[3] + 16 * S[4] + 32 * S[5] + 64 * S[6] + 128 * S[7]
  BY <1>4, <1>5, <1>8
<1> QED
  BY <1>2, <1>4, <1>6, <1>7, <1>9

\* The number of ones in busy goes down by one.
LEMMA BusyNext ==
  ASSUME NEW j \in 0 .. 7
  PROVE  Busy(j) % 2 = 1 /\ Busy(j) \div 2 = Busy(j + 1) /\ Busy(0) = 255 /\ Busy(8) = 0
<1>1. j \in {0, 1, 2, 3, 4, 5, 6, 7}
  OBVIOUS
<1> QED
  BY <1>1 DEF Busy

\* The eight bits make the byte.
LEMMA Whole ==
  ASSUME NEW byte \in 0 .. 255, NEW taken, \A m \in 1 .. 8 : taken[m] = Sent(byte)[m - 1]
  PROVE  Byte(taken) = byte
<1>1. /\ taken[1] = Bit(byte, 128) /\ taken[2] = Bit(byte, 64) /\ taken[3] = Bit(byte, 32)
      /\ taken[4] = Bit(byte, 16) /\ taken[5] = Bit(byte, 8) /\ taken[6] = Bit(byte, 4)
      /\ taken[7] = Bit(byte, 2) /\ taken[8] = Bit(byte, 1)
  BY DEF Sent
<1> QED
  BY <1>1 DEF Byte, Bit

---------------------------------------------------------------------------
(* The invariant.                                                          *)

Pairs == {0, 1} \X (0 .. 255)

Types ==
  /\ div \in Dividers /\ osc \in 0 .. div - 1 /\ sending \in 0 .. 255
  /\ dc \in {0, 1} /\ oled_clk \in {0, 1} /\ oled_din \in {0, 1} /\ oled_dc \in {0, 1}
  /\ since \in 1 .. Gap[div]
  /\ sent \in Seq(Pairs) /\ got \in Seq(Pairs) /\ bits \in Seq({0, 1})

\* The screen has t bits of the byte.
HasTaken(t, byte) == Len(bits) = t /\ \A m \in 1 .. t : bits[m] = Sent(byte)[m - 1]

\* The screen waits for the next bytes.
AllTaken == bits = <<>> /\ got = sent

\* The bits of the byte that are on the screen when j have been shifted out.
Clocked(j) == IF div = 4 /\ osc \in {2, 3} THEN j + 1 ELSE j

\* The byte that was sent last is being shifted.
Shifting(j, byte) ==
  /\ busy = Busy(j) /\ sending = Rest(byte, j)
  /\ osc # 0 => oled_din = sending % 2
  /\ osc = 1 => oled_clk = 0
  /\ osc \in {2, 3} => oled_clk = 1
  /\ since <= j * div + osc + 1
  /\ IF Clocked(j) = 8 THEN AllTaken
     ELSE HasTaken(Clocked(j), byte) /\ sent = Append(got, <<dc, byte>>)

Resting == busy = 0 /\ osc = 0 /\ AllTaken

Inv == Types /\ (Resting \/ \E j \in 0 .. 7, byte \in 0 .. 255 : Shifting(j, byte))

---------------------------------------------------------------------------
(* The screen.                                                             *)

\* Without a rise of the clock it takes nothing.
LEMMA NoRise ==
  ASSUME Len(bits) # 8, Screen, ~(oled_clk = 0 /\ oled_clk' = 1)
  PROVE  bits' = bits /\ got' = got
<1> DEFINE taken == IF oled_clk = 0 /\ oled_clk' = 1 THEN Append(bits, oled_din') ELSE bits
<1>1. taken = bits
  OBVIOUS
<1>2. Len(taken) # 8 => bits' = taken /\ got' = got
  BY DEF Screen
<1> QED
  BY <1>1, <1>2

\* With one, it takes a bit, and the byte with the last one.
LEMMA Rise ==
  ASSUME Types, NEW t \in 0 .. 7, NEW byte \in 0 .. 255, HasTaken(t, byte),
         sent = Append(got, <<dc, byte>>), Screen,
         oled_clk = 0, oled_clk' = 1, oled_din' = Sent(byte)[t], oled_dc' = dc
  PROVE  /\ t = 7 => bits' = <<>> /\ got' = sent
         /\ t # 7 => HasTaken(t + 1, byte)' /\ got' = got /\ bits' \in Seq({0, 1})
<1> DEFINE taken == Append(bits, oled_din')
<1>1. oled_din' \in {0, 1}
  BY Sent01
<1>2. Len(taken) = t + 1 /\ \A m \in 1 .. t + 1 : taken[m] = Sent(byte)[m - 1]
  BY <1>1 DEF Types, HasTaken
<1>3. taken \in Seq({0, 1})
  BY <1>1 DEF Types
<1> HIDE DEF taken
<1>4. /\ Len(taken) = 8 => bits' = <<>> /\ got' = Append(got, <<dc, Byte(taken)>>)
      /\ Len(taken) # 8 => bits' = taken /\ got' = got
  BY DEF Screen, taken
<1>5. CASE t = 7
  <2>1. Len(taken) = 8 /\ \A m \in 1 .. 8 : taken[m] = Sent(byte)[m - 1]
    BY <1>2, <1>5
  <2>2. Byte(taken) = byte
    BY <2>1, Whole
  <2> QED
    BY <1>4, <1>5, <2>1, <2>2
<1>6. CASE t # 7
  <2>1. Len(taken) # 8 /\ bits' = taken /\ got' = got
    BY <1>2, <1>4, <1>6
  <2>2. HasTaken(t + 1, byte)'
    BY <1>2, <2>1 DEF HasTaken, Sent, Bit
  <2> QED
    BY <1>3, <1>6, <2>1, <2>2
<1> QED
  BY <1>5, <1>6

---------------------------------------------------------------------------
(* The steps.                                                              *)

\* What the assumption says of the version at work.
LEMMA Versions ==
  ASSUME Types
  PROVE  /\ div \in {2, 4} /\ Gap[div] \in Nat /\ Gap[div] >= 7 * div + 2
         /\ osc \in 0 .. 3 /\ (div = 2 => osc \in {0, 1})
<1>1. div \in Dividers /\ osc \in 0 .. div - 1
  BY DEF Types
<1>2. div \in {2, 4} /\ Gap[div] \in Nat /\ Gap[div] >= 7 * div + 2
  BY <1>1, GapAssumption
<1> QED
  BY <1>1, <1>2

\* While a byte is shifted its bit goes round the ring, and the clock rises after place 1.
LEMMA Round ==
  ASSUME Types, NEW j \in 0 .. 7, NEW byte \in 0 .. 255, Shifting(j, byte)
  PROVE  /\ busy % 2 = 1 /\ sending % 2 = Sent(byte)[j]
         /\ Rotated = IF osc + 1 = div THEN 0 ELSE osc + 1
         /\ ClkOf(Rotated) = IF osc \in {1, 2} THEN 1 ELSE 0
<1>1. busy % 2 = 1 /\ sending % 2 = Sent(byte)[j]
  <2>1. busy = Busy(j) /\ sending = Rest(byte, j)
    BY DEF Shifting
  <2>2. busy % 2 = 1
    BY <2>1, BusyNext
  <2>3. sending % 2 = Sent(byte)[j]
    BY <2>1, RestNext
  <2> QED
    BY <2>2, <2>3
<1>2. div \in {2, 4} /\ osc \in 0 .. 3 /\ (div = 2 => osc \in {0, 1})
  BY Versions
<1>3. Rotated = IF osc + 1 = div THEN 0 ELSE osc + 1
  <2>1. Rotated = (osc + 1) % div
    BY <1>1 DEF Rotated
  <2>2. CASE div = 2
    BY <1>2, <2>1, <2>2
  <2>3. CASE div = 4
    BY <1>2, <2>1, <2>3
  <2> QED
    BY <1>2, <2>2, <2>3
<1>4. ClkOf(Rotated) = IF osc \in {1, 2} THEN 1 ELSE 0
  <2>1. CASE div = 2
    BY <1>1, <1>2, <1>3, <2>1 DEF ClkOf
  <2>2. CASE div = 4
    BY <1>1, <1>2, <1>3, <2>2 DEF ClkOf
  <2> QED
    BY <1>2, <2>1, <2>2
<1> QED
  BY <1>1, <1>3, <1>4

\* Out of the rise the screen takes nothing.
LEMMA Kept ==
  ASSUME Types, NEW j \in 0 .. 7, NEW byte \in 0 .. 255, Shifting(j, byte),
         Screen, oled_clk' = ClkOf(Rotated), osc # 1
  PROVE  bits' = bits /\ got' = got
<1>1. osc \in {0, 2, 3}
  BY Versions
<1>2. ~(oled_clk = 0 /\ oled_clk' = 1)
  BY <1>1, Round DEF Shifting
<1>3. Len(bits) # 8
  <2>1. CASE Clocked(j) = 8
    BY <2>1 DEF Shifting, AllTaken
  <2>2. CASE Clocked(j) # 8
    <3>1. Clocked(j) = j \/ Clocked(j) = j + 1
      BY DEF Clocked
    <3>2. Len(bits) = Clocked(j)
      BY <2>2 DEF Shifting, HasTaken
    <3> QED
      BY <2>2, <3>2
  <2> QED
    BY <2>1, <2>2
<1> QED
  BY <1>2, <1>3, NoRise

\* At the rise it takes the bit, and with the last one the byte.
LEMMA Taken ==
  ASSUME Types, NEW j \in 0 .. 7, NEW byte \in 0 .. 255, Shifting(j, byte),
         Screen, oled_clk' = ClkOf(Rotated), osc = 1,
         oled_din' = Sent(byte)[j], oled_dc' = dc
  PROVE  /\ j = 7 => bits' = <<>> /\ got' = sent
         /\ j # 7 => HasTaken(j + 1, byte)' /\ got' = got /\ bits' \in Seq({0, 1})
<1>1. oled_clk = 0 /\ oled_clk' = 1
  BY Round DEF Shifting
<1>2. Clocked(j) = j /\ j # 8
  BY DEF Clocked
<1>3. HasTaken(j, byte) /\ sent = Append(got, <<dc, byte>>)
  BY <1>2 DEF Shifting
<1> QED
  BY <1>1, <1>3, Rise

\* What the next bit finds: the shifted byte, or nothing left.
LEMMA Shifted ==
  ASSUME NEW j \in 0 .. 7, NEW byte \in 0 .. 255, busy = Busy(j), sending = Rest(byte, j),
         busy' = busy \div 2, sending' = sending \div 2
  PROVE  /\ j # 7 => j + 1 \in 0 .. 7 /\ busy' = Busy(j + 1) /\ sending' = Rest(byte, j + 1)
         /\ j = 7 => busy' = 0
<1>1. busy' = Busy(j + 1) /\ sending' = Rest(byte, j + 1)
  <2>1. busy' = Busy(j + 1)
    BY BusyNext
  <2>2. sending' = Rest(byte, j + 1)
    BY RestNext
  <2> QED
    BY <2>1, <2>2
<1>2. j = 7 => busy' = 0
  BY <1>1, BusyNext
<1> QED
  BY <1>1, <1>2

\* The types of the registers; those of what is sent and taken come with the steps.
Registers ==
  /\ div \in Dividers /\ osc \in 0 .. div - 1 /\ sending \in 0 .. 255
  /\ dc \in {0, 1} /\ oled_clk \in {0, 1} /\ oled_din \in {0, 1} /\ oled_dc \in {0, 1}
  /\ since \in 1 .. Gap[div]

\* A cycle without a byte keeps the registers in their types.
LEMMA CycleRegisters == Types /\ Cycle => Registers'
<1> SUFFICES ASSUME Types, Cycle PROVE Registers'
  OBVIOUS
<1>1. div' = div /\ dc' = dc /\ oled_dc' = dc
  BY DEF Cycle, Shift
<1>2. Rotated \in 0 .. div - 1
  BY Versions DEF Rotated
<1>3. sending' \in 0 .. 255
  <2>1. sending \in 0 .. 255 /\ sending' \in {sending, sending \div 2}
    BY DEF Cycle, Shift, Types
  <2> QED
    BY <2>1
<1>4. oled_clk' \in {0, 1}
  BY DEF Cycle, Shift, ClkOf
<1>5. oled_din' \in {0, 1}
  <2>1. sending \in 0 .. 255 /\ oled_din' = sending % 2
    BY DEF Cycle, Shift, Types
  <2> QED
    BY <2>1
<1>6. since' \in 1 .. Gap[div]
  <2>1. since \in 1 .. Gap[div] /\ Gap[div] \in Nat
    BY Versions DEF Types
  <2>2. since' = IF since = Gap[div] THEN since ELSE since + 1
    BY DEF Cycle
  <2> QED
    BY <2>1, <2>2
<1>7. osc' = Rotated
  BY DEF Cycle, Shift
<1> QED
  BY <1>1, <1>2, <1>3, <1>4, <1>5, <1>6, <1>7 DEF Registers, Types

\* A byte too.
LEMMA SendRegisters == Types /\ Send => Registers' /\ sent' \in Seq(Pairs)
<1> SUFFICES ASSUME Types, Send PROVE Registers' /\ sent' \in Seq(Pairs)
  OBVIOUS
<1>1. PICK byte \in Bytes, command \in {0, 1} :
        Load(byte, command) /\ since' = 1 /\ sent' = Append(sent, <<command, byte>>) /\ div' = div
  BY DEF Send
<1>2. byte \in 0 .. 255
  BY GapAssumption
<1>3. sending' \in 0 .. 255
  <2>1. Sent(byte) \in [0 .. 7 -> {0, 1}]
    BY <1>2, Sent01
  <2>2. sending' = Sent(byte)[0] + 2 * Sent(byte)[1] + 4 * Sent(byte)[2] + 8 * Sent(byte)[3]
          + 16 * Sent(byte)[4] + 32 * Sent(byte)[5] + 64 * Sent(byte)[6] + 128 * Sent(byte)[7]
    BY <1>1 DEF Load, Sent, Mirrored
  <2> DEFINE S == Sent(byte)
  <2> HIDE DEF S
  <2>3. /\ S[0] \in 0 .. 1 /\ S[1] \in 0 .. 1 /\ S[2] \in 0 .. 1 /\ S[3] \in 0 .. 1
        /\ S[4] \in 0 .. 1 /\ S[5] \in 0 .. 1 /\ S[6] \in 0 .. 1 /\ S[7] \in 0 .. 1
    BY <2>1 DEF S
  <2>4. sending' = S[0] + 2 * S[1] + 4 * S[2] + 8 * S[3] + 16 * S[4] + 32 * S[5]
                     + 64 * S[6] + 128 * S[7]
    BY <2>2 DEF S
  <2> QED
    BY <2>3, <2>4
<1>4. oled_clk' \in {0, 1}
  BY <1>1 DEF Load, ClkOf
<1>5. 1 \in 1 .. Gap[div] /\ 0 \in 0 .. div - 1
  BY Versions
<1>6. <<command, byte>> \in Pairs
  BY <1>2 DEF Pairs
<1>7. sent' \in Seq(Pairs)
  BY <1>1, <1>6 DEF Types
<1> QED
  BY <1>1, <1>3, <1>4, <1>5, <1>7 DEF Registers, Types, Load

\* What a cycle does to a byte on its way.
LEMMA CycleShifting ==
  ASSUME Types, Cycle, NEW j \in 0 .. 7, NEW byte \in 0 .. 255, Shifting(j, byte)
  PROVE  /\ (\E k \in 0 .. 7 : Shifting(k, byte)') \/ Resting'
         /\ got' \in {got, sent} /\ bits' \in Seq({0, 1})
<1>1. /\ div \in {2, 4} /\ osc \in 0 .. 3 /\ (div = 2 => osc \in {0, 1})
  BY Versions
<1>2. /\ Rotated = IF osc + 1 = div THEN 0 ELSE osc + 1
      /\ ClkOf(Rotated) = IF osc \in {1, 2} THEN 1 ELSE 0
      /\ sending % 2 = Sent(byte)[j]
  BY Round
<1>3. /\ osc' = Rotated /\ oled_clk' = ClkOf(Rotated) /\ oled_din' = Sent(byte)[j]
      /\ oled_dc' = dc /\ dc' = dc /\ div' = div /\ sent' = sent /\ Screen
  BY <1>2 DEF Cycle, Shift
<1>4. since' <= since + 1
  <2>1. since \in Nat
    BY DEF Types
  <2> QED
    BY <2>1 DEF Cycle
<1>5. /\ busy = Busy(j) /\ sending = Rest(byte, j) /\ since <= j * div + osc + 1 /\ since \in Nat
  BY DEF Shifting, Types
<1>6. got \in Seq(Pairs) /\ bits \in Seq({0, 1}) /\ <<>> \in Seq({0, 1})
  BY DEF Types
<1>7. CASE osc + 1 # div
  <2>1. osc' = osc + 1 /\ Rotated # 0
    BY <1>1, <1>2, <1>3, <1>7
  <2>2. busy' = busy /\ sending' = sending
    BY <2>1 DEF Cycle, Shift
  <2>3. since' <= j * div + (osc + 1) + 1
    <3>1. j * div \in Nat /\ since' \in Nat
      BY <1>1, <1>5 DEF Cycle
    <3> QED
      BY <1>1, <1>4, <1>5, <3>1
  <2>4. /\ busy' = Busy(j) /\ sending' = Rest(byte, j)
        /\ osc' # 0 => oled_din' = sending' % 2
        /\ osc' = 1 => oled_clk' = 0
        /\ osc' \in {2, 3} => oled_clk' = 1
        /\ since' <= j * div' + osc' + 1
    BY <1>1, <1>2, <1>3, <1>5, <2>1, <2>2, <2>3
  <2>5. CASE osc = 1
    <3>1. div' = 4 /\ osc' = 2
      BY <1>1, <1>3, <1>7, <2>1, <2>5
    <3>2. /\ j = 7 => bits' = <<>> /\ got' = sent
          /\ j # 7 => HasTaken(j + 1, byte)' /\ got' = got /\ bits' \in Seq({0, 1})
      BY <1>3, <2>5, Taken
    <3>3. sent = Append(got, <<dc, byte>>)
      BY <2>5 DEF Shifting, Clocked
    <3>4. Clocked(j)' = j + 1
      BY <3>1 DEF Clocked
    <3>5. CASE j = 7
      <4>1. Shifting(j, byte)'
        BY <1>3, <2>4, <3>2, <3>4, <3>5 DEF Shifting, AllTaken
      <4> QED
        BY <1>6, <3>2, <3>5, <4>1
    <3>6. CASE j # 7
      <4>1. Shifting(j, byte)'
        BY <1>3, <2>4, <3>2, <3>3, <3>4, <3>6 DEF Shifting, HasTaken
      <4> QED
        BY <1>6, <3>2, <3>6, <4>1
    <3> QED
      BY <3>5, <3>6
  <2>6. CASE osc # 1
    <3>1. bits' = bits /\ got' = got
      BY <1>3, <2>6, Kept
    <3>2. Clocked(j)' = Clocked(j)
      BY <1>1, <1>3, <1>7, <2>1, <2>6 DEF Clocked
    <3>3. Shifting(j, byte)'
      BY <1>3, <2>4, <3>1, <3>2 DEF Shifting, AllTaken, HasTaken
    <3> QED
      BY <1>6, <3>1, <3>3
  <2> QED
    BY <2>5, <2>6
<1>8. CASE osc + 1 = div
  <2>1. osc' = 0 /\ Rotated = 0
    BY <1>2, <1>3, <1>8
  <2>2. busy' = busy \div 2 /\ sending' = sending \div 2
    BY <2>1 DEF Cycle, Shift
  <2>3. /\ j # 7 => j + 1 \in 0 .. 7 /\ busy' = Busy(j + 1) /\ sending' = Rest(byte, j + 1)
        /\ j = 7 => busy' = 0
    BY <1>5, <2>2, Shifted
  <2>4. since' <= (j + 1) * div + 0 + 1
    <3>1. since' \in Nat
      BY <1>5 DEF Cycle
    <3> QED
      BY <1>1, <1>4, <1>5, <1>8, <3>1
  <2>5. Clocked(j + 1)' = j + 1
    BY <2>1 DEF Clocked
  <2>6. /\ j = 7 => bits' = <<>> /\ got' = sent
        /\ j # 7 => HasTaken(j + 1, byte)' /\ got' = got /\ sent = Append(got, <<dc, byte>>)
        /\ bits' \in Seq({0, 1})
    <3>1. CASE osc = 1
      <4>1. /\ j = 7 => bits' = <<>> /\ got' = sent
            /\ j # 7 => HasTaken(j + 1, byte)' /\ got' = got /\ bits' \in Seq({0, 1})
        BY <1>3, <3>1, Taken
      <4>2. sent = Append(got, <<dc, byte>>)
        BY <3>1 DEF Shifting, Clocked
      <4> QED
        BY <1>6, <4>1, <4>2
    <3>2. CASE osc # 1
      <4>1. bits' = bits /\ got' = got
        BY <1>3, <3>2, Kept
      <4>2. Clocked(j) = j + 1
        BY <1>1, <1>8, <3>2 DEF Clocked
      <4>3. IF j + 1 = 8 THEN AllTaken
            ELSE HasTaken(j + 1, byte) /\ sent = Append(got, <<dc, byte>>)
        BY <4>2 DEF Shifting
      <4> QED
        BY <1>6, <4>1, <4>3 DEF HasTaken, AllTaken
    <3> QED
      BY <3>1, <3>2
  <2>7. got' \in {got, sent}
    BY <2>6
  <2>8. CASE j = 7
    <3>1. Resting'
      BY <1>3, <2>1, <2>3, <2>6, <2>8 DEF Resting, AllTaken
    <3> QED
      BY <2>6, <2>7, <3>1
  <2>9. CASE j # 7
    <3>1. Shifting(j + 1, byte)'
      BY <1>3, <2>1, <2>3, <2>4, <2>5, <2>6, <2>9 DEF Shifting
    <3> QED
      BY <2>3, <2>6, <2>7, <2>9, <3>1
  <2> QED
    BY <2>8, <2>9
<1> QED
  BY <1>7, <1>8

\* At rest nothing happens.
LEMMA CycleResting ==
  ASSUME Types, Cycle, Resting
  PROVE  Resting' /\ got' = got /\ bits' = bits
<1>1. Rotated = 0 /\ ClkOf(Rotated) = 0
  BY DEF Resting, Rotated, ClkOf
<1>2. osc' = 0 /\ busy' = 0 /\ oled_clk' = 0 /\ sent' = sent /\ Screen
  BY <1>1 DEF Cycle, Shift, Resting
<1>3. Len(bits) # 8
  BY DEF Resting, AllTaken
<1>4. bits' = bits /\ got' = got
  BY <1>2, <1>3, NoRise
<1> QED
  BY <1>2, <1>4 DEF Resting, AllTaken

\* When the next byte comes the screen takes, in the same cycle, what is missing of
\* the one before.
LEMMA SendAllTaken ==
  ASSUME Types, Send, Resting \/ \E j \in 0 .. 7, byte \in 0 .. 255 : Shifting(j, byte)
  PROVE  bits' = <<>> /\ got' = sent
<1>1. oled_clk' = ClkOf(Rotated) /\ oled_dc' = dc /\ oled_din' = oled_din /\ Screen
      /\ since = Gap[div]
  BY DEF Send, Load
<1>2. CASE Resting
  <2>1. oled_clk' = 0
    BY <1>1, <1>2 DEF Resting, Rotated, ClkOf
  <2>2. Len(bits) # 8
    BY <1>2 DEF Resting, AllTaken
  <2> QED
    BY <1>1, <1>2, <2>1, <2>2, NoRise DEF Resting, AllTaken
<1>3. ASSUME NEW j \in 0 .. 7, NEW byte \in 0 .. 255, Shifting(j, byte)
      PROVE  bits' = <<>> /\ got' = sent
  <2>1. div \in {2, 4} /\ Gap[div] \in Nat /\ Gap[div] >= 7 * div + 2 /\ osc \in 0 .. div - 1
    BY Versions DEF Types
  <2>2. j * div + osc + 1 >= 7 * div + 2
    <3>1. since <= j * div + osc + 1
      BY <1>3 DEF Shifting
    <3>2. CASE div = 2
      BY <1>1, <2>1, <3>1, <3>2
    <3>3. CASE div = 4
      BY <1>1, <2>1, <3>1, <3>3
    <3> QED
      BY <2>1, <3>2, <3>3
  <2>3. j = 7 /\ osc # 0
    <3>1. CASE div = 2
      BY <2>1, <2>2, <3>1
    <3>2. CASE div = 4
      BY <2>1, <2>2, <3>2
    <3> QED
      BY <2>1, <3>1, <3>2
  <2>4. CASE osc = 1
    <3>1. oled_din' = Sent(byte)[j]
      <4>1. oled_din = sending % 2
        <5>1. osc # 0 => oled_din = sending % 2
          BY <1>3 DEF Shifting
        <5> QED
          BY <2>3, <5>1
      <4>2. sending % 2 = Sent(byte)[j]
        BY <1>3, Round
      <4> QED
        BY <1>1, <4>1, <4>2
    <3> QED
      BY <1>1, <1>3, <2>3, <2>4, <3>1, Taken
  <2>5. CASE osc # 1
    <3>1. bits' = bits /\ got' = got
      BY <1>1, <1>3, <2>5, Kept
    <3>2. Clocked(j) = 8
      BY <2>1, <2>3, <2>5 DEF Clocked
    <3> QED
      BY <1>3, <3>1, <3>2 DEF Shifting, AllTaken
  <2> QED
    BY <2>4, <2>5
<1> QED
  BY <1>2, <1>3

\* A byte that is sent begins to be shifted.
LEMMA SendShifting ==
  ASSUME Types, Send, bits' = <<>>, got' = sent
  PROVE  \E byte \in 0 .. 255 : Shifting(0, byte)'
<1>1. PICK byte \in Bytes, command \in {0, 1} :
        Load(byte, command) /\ since' = 1 /\ sent' = Append(sent, <<command, byte>>) /\ div' = div
  BY DEF Send
<1>2. byte \in 0 .. 255
  BY GapAssumption
<1>3. busy' = Busy(0) /\ sending' = Rest(byte, 0)
  <2>1. busy' = 255 /\ sending' = Mirrored(byte)
    BY <1>1 DEF Load, BusyFull
  <2>2. Busy(0) = 255
    BY DEF Busy
  <2>3. Rest(byte, 0) = Mirrored(byte)
    BY <1>2, RestAll
  <2> QED
    BY <2>1, <2>2, <2>3
<1>4. osc' = 0 /\ dc' = command
  BY <1>1 DEF Load
<1>5. Clocked(0)' = 0
  BY <1>4 DEF Clocked
<1>6. HasTaken(0, byte)'
  BY DEF HasTaken
<1>7. since' <= 0 * div' + osc' + 1
  BY <1>1, <1>4, Versions
<1>8. Shifting(0, byte)'
  BY <1>1, <1>3, <1>4, <1>5, <1>6, <1>7 DEF Shifting
<1> QED
  BY <1>2, <1>8

\* The unit starts at rest.
LEMMA InitInv == Init => Inv
<1> SUFFICES ASSUME Init PROVE Inv
  OBVIOUS
<1>1. div \in {2, 4} /\ Gap[div] \in Nat /\ Gap[div] >= 7 * div + 2
  BY GapAssumption DEF Init
<1>2. 0 \in 0 .. div - 1 /\ Gap[div] \in 1 .. Gap[div]
  BY <1>1
<1> QED
  BY <1>2 DEF Init, Inv, Types, Resting, AllTaken

\* Every step keeps the invariant.
LEMMA StepInv == Inv /\ [Next]_vars => Inv'
<1> SUFFICES ASSUME Inv, [Next]_vars PROVE Inv'
  OBVIOUS
<1>1. Types /\ (Resting \/ \E j \in 0 .. 7, byte \in 0 .. 255 : Shifting(j, byte))
  BY DEF Inv
<1>2. got \in Seq(Pairs) /\ sent \in Seq(Pairs) /\ bits \in Seq({0, 1})
  BY <1>1 DEF Types
<1>3. CASE Cycle
  <2>1. Registers' /\ sent' = sent
    BY <1>1, <1>3, CycleRegisters DEF Cycle
  <2>2. CASE Resting
    BY <1>1, <1>2, <1>3, <2>1, <2>2, CycleResting DEF Inv, Types, Registers
  <2>3. ASSUME NEW j \in 0 .. 7, NEW byte \in 0 .. 255, Shifting(j, byte) PROVE Inv'
    <3>1. /\ (\E k \in 0 .. 7 : Shifting(k, byte)') \/ Resting'
          /\ got' \in {got, sent} /\ bits' \in Seq({0, 1})
      BY <1>1, <1>3, <2>3, CycleShifting
    <3>2. Types'
      BY <1>2, <2>1, <3>1 DEF Types, Registers
    <3> QED
      BY <3>1, <3>2 DEF Inv
  <2> QED
    BY <1>1, <2>2, <2>3
<1>4. CASE Send
  <2>1. Registers' /\ sent' \in Seq(Pairs)
    BY <1>1, <1>4, SendRegisters
  <2>2. bits' = <<>> /\ got' = sent
    BY <1>1, <1>4, SendAllTaken
  <2>3. \E byte \in 0 .. 255 : Shifting(0, byte)'
    BY <1>1, <1>4, <2>2, SendShifting
  <2>4. Types'
    BY <1>2, <2>1, <2>2 DEF Types, Registers
  <2> QED
    BY <2>3, <2>4 DEF Inv
<1>5. CASE UNCHANGED vars
  <2>1. Types'
    BY <1>1, <1>5 DEF Types, vars, pins
  <2>2. Resting => Resting'
    BY <1>5 DEF Resting, AllTaken, vars, pins
  <2>3. ASSUME NEW j \in 0 .. 7, NEW byte \in 0 .. 255, Shifting(j, byte)
        PROVE  Shifting(j, byte)'
    <3>1. Clocked(j)' = Clocked(j)
      BY <1>5 DEF Clocked, vars
    <3> QED
      BY <1>5, <2>3, <3>1 DEF Shifting, AllTaken, HasTaken, vars, pins
  <2> QED
    BY <1>1, <2>1, <2>2, <2>3 DEF Inv
<1> QED
  BY <1>3, <1>4, <1>5 DEF Next

---------------------------------------------------------------------------
(* The theorems.                                                           *)

\* Registers keep their widths, busy is a run of ones, and the screen never waits with eight
\* bits that it does not take for a byte.
THEOREM TypeCorrect == Spec => []TypeOK
<1>1. Inv => TypeOK
  <2> SUFFICES ASSUME Inv PROVE TypeOK
    OBVIOUS
  <2>1. Types
    BY DEF Inv
  <2>2. busy \in {0, 1, 3, 7, 15, 31, 63, 127, 255} /\ Len(bits) < 8
    <3>1. CASE Resting
      BY <3>1 DEF Resting, AllTaken
    <3>2. ASSUME NEW j \in 0 .. 7, NEW byte \in 0 .. 255, Shifting(j, byte)
          PROVE  busy \in {0, 1, 3, 7, 15, 31, 63, 127, 255} /\ Len(bits) < 8
      <4>1. j \in {0, 1, 2, 3, 4, 5, 6, 7} /\ busy = Busy(j)
        BY <3>2 DEF Shifting
      <4>2. busy \in {0, 1, 3, 7, 15, 31, 63, 127, 255}
        BY <4>1 DEF Busy
      <4>3. CASE Clocked(j) = 8
        BY <3>2, <4>2, <4>3 DEF Shifting, AllTaken
      <4>4. CASE Clocked(j) # 8
        <5>1. Len(bits) = Clocked(j)
          BY <3>2, <4>4 DEF Shifting, HasTaken
        <5>2. Clocked(j) \in 0 .. 7
          BY <4>4 DEF Clocked
        <5> QED
          BY <4>2, <5>1, <5>2
      <4> QED
        BY <4>3, <4>4
    <3> QED
      BY <3>1, <3>2 DEF Inv
  <2> QED
    BY <2>1, <2>2 DEF Types, TypeOK
<1> QED
  BY <1>1, InitInv, StepInv, PTL DEF Spec

\* The screen takes the bytes that were sent, whole and in order.
THEOREM BytesArriveIntact == Spec => []BytesIntact
<1>1. Inv => BytesIntact
  <2> SUFFICES ASSUME Inv PROVE BytesIntact
    OBVIOUS
  <2>1. got \in Seq(Pairs) /\ sent \in Seq(Pairs)
    BY DEF Inv, Types
  <2>2. got = sent \/ \E pair \in Pairs : sent = Append(got, pair)
    <3>1. CASE Resting
      BY <3>1 DEF Resting, AllTaken
    <3>2. ASSUME NEW j \in 0 .. 7, NEW byte \in 0 .. 255, Shifting(j, byte)
          PROVE  got = sent \/ \E pair \in Pairs : sent = Append(got, pair)
      <4>1. <<dc, byte>> \in Pairs
        BY DEF Inv, Types, Pairs
      <4> QED
        BY <3>2, <4>1 DEF Shifting, AllTaken
    <3> QED
      BY <3>1, <3>2 DEF Inv
  <2>3. Len(got) <= Len(sent) /\ SubSeq(got, 1, Len(got)) = SubSeq(sent, 1, Len(got))
    <3>1. CASE got = sent
      BY <2>1, <3>1
    <3>2. ASSUME NEW pair \in Pairs, sent = Append(got, pair)
          PROVE  Len(got) <= Len(sent) /\ SubSeq(got, 1, Len(got)) = SubSeq(sent, 1, Len(got))
      BY <2>1, <3>2
    <3> QED
      BY <2>2, <3>1, <3>2
  <2> QED
    BY <2>3 DEF BytesIntact, IsPrefix
<1> QED
  BY <1>1, InitInv, StepInv, PTL DEF Spec
=============================================================================
