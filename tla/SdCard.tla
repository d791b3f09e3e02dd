------------------------------- MODULE SdCard -------------------------------
(***************************************************************************)
(* The driver that reads the SD card by writing and reading its pins       *)
(* (firmware/sdcard.c), clock by clock, with the card of the SPI mode of   *)
(* the SD specification, which is external: it answers a command after a   *)
(* few bits, sends the block of a read, or an error token, after a few     *)
(* more, and sends ones when it has nothing to say. A card of high capacity *)
(* takes the argument of a read for the number of a sector, any other card *)
(* for the number of a byte.                                               *)
(***************************************************************************)
EXTENDS Integers, SequencesExt

CONSTANTS First,     \* start_block of sdcard_readsector
          Count,     \* its sector_count
          Bytes,     \* bytes in a sector (512)
          Patterns,  \* the bytes that sectors may hold
          Waits,     \* bits for which the card may keep the driver waiting
          Statuses,  \* the statuses that the card may give to a read
          Errors,    \* the tokens it may send instead of a block
          Models     \* the cards: of version 1 (it does not know cmd8), of version 2, and
                     \* of version 2 and high capacity

\* sdcard_readsector does nothing for no sector; sector numbers have 32 bits; the first
\* bit of a status, and of an error token, is 0.
ASSUME SdCardAssumption ==
  /\ {Count, Bytes} \subseteq Nat \ {0}
  /\ First \in Nat /\ (First + Count - 1) \div 65536 < 65536
  /\ Patterns \subseteq 0 .. 255 /\ Waits \subseteq Nat /\ Statuses \cup Errors \subseteq 0 .. 127
  /\ Models \subseteq {"SD1", "SD2", "SDHC"}

Sectors == First .. First + Count - 1

\* The bytes of the card that a read of these sectors may reach: those of the sectors, and
\* those that start at the byte of that number.
Places == UNION {(s * Bytes) .. (s * Bytes + Bytes - 1) \cup s .. (s + Bytes - 1) : s \in Sectors}
Contents == [Places -> Patterns]

\* What a card gives to a read: a status and, if it is zero, the token of a block or of an error.
StartToken == 254
Replies == {a \in [status : Statuses, token : {StartToken} \cup Errors] :
              a.status # 0 => a.token = StartToken}

VARIABLES call,     \* the call of the driver that is being executed
          len, wait, n, answer,  \* sdcard_read
          further,  \* more bytes that sdcard_get reads
          sector,   \* start_block
          byte,     \* i of sdcard_read_sector
          dst,      \* what was written in the buffer
          out,      \* card: the bits it has to send
          model, initialised, content,
          given     \* card: what it gave to each read

driver == <<call, len, wait, n, answer, further, sector, byte, dst>>
sdcard == <<out, model, initialised, content, given>>
sdvars == <<driver, sdcard>>

\* 1 << k, for a word.
Pow2[k \in 0 .. 31] == IF k = 0 THEN 1 ELSE 2 * Pow2[k - 1]

Bit(v, k) == (v \div Pow2[k]) % 2

\* The bits of a byte, and the byte of eight bits, the first one on top.
Bits(v) == [j \in 1 .. 8 |-> Bit(v, 8 - j)]
Byte(b) == 128 * b[1] + 64 * b[2] + 32 * b[3] + 16 * b[4] + 8 * b[5] + 4 * b[6] + 2 * b[7] + b[8]
Ones(k) == [j \in 1 .. k |-> 1]

Shifted(data, clk) == data * Pow2[clk]

\* The pins written by sdcard_send: <<mosi, clk>> for each of its sixteen steps.
sdcard_send(indata) ==
  LET data[i \in 0 .. 16] == IF i = 0 THEN indata ELSE Shifted(data[i - 1], (i - 1) % 2)
  IN [i \in 1 .. 16 |-> <<Bit(data[i - 1], 7), (i - 1) % 2>>]

\* What the card takes from them: the pin at every rising edge of the clock.
Received(indata) == Byte([k \in 1 .. 8 |-> sdcard_send(indata)[2 * k][1]])

\* The sector number of cmd17, as the card receives it.
Address(s) == 16777216 * Received((s \div 16777216) % 256) + 65536 * Received((s \div 65536) % 256)
              + 256 * Received((s \div 256) % 256) + Received(s % 256)

\* The block of a sector: start token, data, and a CRC that nobody looks at.
Block(data) ==
  Ones(7) \o <<0>>
    \o [j \in 1 .. 8 * Bytes |-> Bits(data[(j - 1) \div 8 + 1])[((j - 1) % 8) + 1]]
    \o Bits(170) \o Bits(170)

\* The byte from which a card reads, and the block it gives: the driver sends the number of
\* the sector, and does not ask the card for its capacity.
From(s) == IF model = "SDHC" THEN Address(s) * Bytes ELSE Address(s)
Asked(s) == [i \in 1 .. Bytes |-> content[From(s) + (i - 1)]]

\* An error token, and then ones; and the bytes of it, when its first bit is taken for the
\* end of a start token.
Failure(token) == Bits(token) \o Ones(8 * Bytes + 9)
Noise(token) == [i \in 1 .. Bytes |-> IF i = 1 THEN 2 * token + 1 ELSE 255]

\* A command takes 48 clocks, in which the card ends what it was sending; it answers
\* after some time.
Answers(response) ==
  \E w \in Waits : out' = SubSeq(out, 49, Len(out)) \o Ones(w) \o response

\* sdcard_get: select, sdcard_read, and then the other bytes.
Get(l, w) == len' = l /\ wait' = w /\ n' = 0 /\ answer' = 255 /\ further' = IF l < 8 THEN 0 ELSE l \div 8 - 1

SdInit ==
  /\ call = "preinit"
  /\ len = 0 /\ wait = FALSE /\ n = 0 /\ answer = 255 /\ further = 0
  /\ sector = First /\ byte = 0 /\ dst = <<>>
  /\ out = <<>> /\ model \in Models /\ initialised = FALSE /\ content \in Contents
  /\ given = <<>>

same == UNCHANGED <<sector, byte, dst, model, content, given>>

\* sdcard_init: cmd0, cmd8, then cmd55 and acmd41 until the card is ready, then cmd16.
Cmd0  == call = "preinit" /\ call' = "cmd0" /\ Answers(Bits(1)) /\ Get(8, TRUE)
         /\ same /\ UNCHANGED initialised

Cmd8  == call = "cmd8?" /\ call' = "cmd8" /\ Get(40, TRUE)
         /\ Answers(IF model = "SD1" THEN Bits(5) ELSE Bits(1) \o Bits(0) \o Bits(0) \o Bits(1) \o Bits(170))
         /\ same /\ UNCHANGED initialised
Cmd55 == call = "cmd55?" /\ call' = "cmd55" /\ Answers(Bits(1)) /\ Get(8, TRUE)
         /\ same /\ UNCHANGED initialised
Acmd41 == call = "acmd41?" /\ call' = "acmd41" /\ Get(8, TRUE)
          /\ initialised' \in {initialised, TRUE}
          /\ Answers(Bits(IF initialised' THEN 0 ELSE 1))
          /\ same
Cmd16 == call = "cmd16?" /\ call' = "cmd16" /\ Answers(Bits(0)) /\ Get(8, TRUE)
         /\ same /\ UNCHANGED initialised

\* sdcard_start_sector: the card gives a status, and a block or an error if it is zero.
Cmd17 ==
  /\ call = "cmd17?" /\ call' = "cmd17" /\ Get(8, TRUE)
  /\ \E a \in Replies, w \in Waits :
       /\ given' = Append(given, a)
       /\ Answers(Bits(a.status) \o
            IF a.status # 0 THEN <<>>
            ELSE Ones(w) \o IF a.token = StartToken THEN Block(Asked(sector)) ELSE Failure(a.token))
  /\ UNCHANGED <<sector, byte, dst, model, initialised, content>>

\* mutant: the bit below.
GoesOnBelow(l, w, k, a) == IF w THEN Bit(a, (l - 2) % 32) = 1 ELSE k < l

\* mutant: the bit above.
GoesOnAbove(l, w, k, a) == IF w THEN Bit(a, l % 32) = 1 ELSE k < l

\* The condition of the loop of sdcard_read; a shift is modulo 32.
GoesOn(l, w, k, a) == IF w THEN Bit(a, (l - 1) % 32) = 1 ELSE k < l

Reading == call \in {"cmd0", "cmd8", "cmd55", "acmd41", "cmd16", "cmd17", "token", "data", "crc"}

\* One turn of the loop: the clock goes up and down, and the pin is read.
Clock ==
  /\ Reading /\ GoesOn(len, wait, n, answer)
  /\ n' = IF wait THEN 0 ELSE n + 1
  /\ answer' = (2 * answer + IF out = <<>> THEN 1 ELSE Head(out)) % 65536
  /\ out' = IF out = <<>> THEN out ELSE Tail(out)
  /\ UNCHANGED <<call, len, wait, further, sector, byte, dst, model, initialised, content, given>>

\* The loop of sdcard_get: one more byte.
NextByte ==
  /\ Reading /\ ~GoesOn(len, wait, n, answer) /\ further > 0
  /\ len' = 8 /\ wait' = FALSE /\ n' = 0 /\ answer' = 255 /\ further' = further - 1
  /\ UNCHANGED <<call, sector, byte, dst, sdcard>>

status == answer % 256
Got(p) == call = p /\ ~GoesOn(len, wait, n, answer) /\ further = 0

idle == UNCHANGED <<len, wait, n, answer, further>>

Ready(answered) == answered = 0

\* What sdcard_init does with an answer.
AfterInit ==
  /\ \/ Got("cmd0")   /\ call' = IF status # 255 THEN "cmd8?" ELSE "preinit"
     \/ Got("cmd8")   /\ call' = "cmd55?"
     \/ Got("cmd55")  /\ call' = "acmd41?"
     \/ Got("acmd41") /\ call' = IF Ready(status) THEN "cmd16?" ELSE "cmd55?"
     \/ Got("cmd16")  /\ call' = "cmd17?"
  /\ idle /\ UNCHANGED <<sector, byte, dst, sdcard>>

NextSector == sector' = sector + 1 /\ call' = IF sector' \notin Sectors THEN "read" ELSE "cmd17?"

\* mutant: a sector that was refused leaves a hole.
RefusedHole(b) == b \o [k \in 1 .. Bytes |-> 0]

\* A sector that was refused leaves dst where it was.
Refused(b) == b

AfterCmd17 ==
  /\ Got("cmd17")
  /\ IF status # 0 THEN NextSector /\ idle /\ dst' = Refused(dst)
                   ELSE call' = "token" /\ Get(1, TRUE) /\ UNCHANGED <<sector, dst>>
  /\ UNCHANGED <<byte, sdcard>>

Lacks(b) == b < Bytes

AfterToken ==
  /\ Got("token") /\ call' = "data" /\ Get(8, FALSE) /\ byte' = 0
  /\ UNCHANGED <<sector, dst, sdcard>>

\* sdcard_get(16,1): bit 15 of 0xff is not set, nothing is waited for.
AfterByte ==
  /\ Got("data") /\ byte' = byte + 1 /\ dst' = Append(dst, status)
  /\ IF Lacks(byte') THEN Get(8, FALSE) /\ UNCHANGED call
                      ELSE Get(16, TRUE) /\ call' = "crc"
  /\ UNCHANGED <<sector, sdcard>>

AfterCrc == Got("crc") /\ NextSector /\ idle /\ UNCHANGED <<byte, dst, sdcard>>

Done == call = "read" /\ UNCHANGED sdvars

SdNext == \/ Cmd0 \/ Cmd8 \/ Cmd55 \/ Acmd41 \/ Cmd16 \/ Cmd17 \/ Clock \/ NextByte
          \/ AfterInit \/ AfterCmd17 \/ AfterToken \/ AfterByte \/ AfterCrc \/ Done

\* The driver does not stop; the card is ready some time.
SdSpec == SdInit /\ [][SdNext]_sdvars /\ WF_sdvars(SdNext) /\ SF_sdvars(Acmd41 /\ initialised')
-----------------------------------------------------------------------------
SdTypeOK ==
  /\ len \in {0, 1, 8, 16, 40} /\ wait \in BOOLEAN /\ n \in 0 .. 8 /\ further \in 0 .. 4
  /\ answer \in 0 .. 65535
  /\ sector \in First .. First + Count /\ byte \in 0 .. Bytes
  /\ dst \in Seq(0 .. 255) /\ out \in Seq({0, 1})
  /\ Len(given) <= Count

\* A status that the driver acts upon is the one the card gave to that command: nothing
\* left over from an earlier answer, and no block, is ever taken for one, although half
\* of the CRC of a block is left in the card (sdcard.c:145).
OwnStatus ==
  /\ Got("cmd17")  => status = given[Len(given)].status
  /\ Got("acmd41") => status = (IF initialised THEN 0 ELSE 1)
  /\ Got("cmd0") \/ Got("cmd55") => status = 1
  /\ Got("cmd16") => status = 0

\* What a read leaves in the buffer.
Taken(a, s) ==
  IF a.status # 0 THEN <<>> ELSE IF a.token = StartToken THEN Asked(s) ELSE Noise(a.token)

\* When sdcard_readsector returns, the buffer has what the card gave, bit for bit and one
\* read behind the other: a sector that was refused is not there and those behind it are in
\* its place, an error token and the ones after it stand for a sector, and the caller is told
\* that all is well (sdcard.c:134-142, 207-210). What the card gave is the block at the number
\* that was sent: only a card of high capacity takes it for the sector's (sdcard.c:125-128).
SectorsPacked ==
  call = "read" => dst = FlattenSeq([k \in 1 .. Count |-> Taken(given[k], First + k - 1)])

\* When every read was given a block, the buffer has the sectors that were asked for, which
\* are at 512 times their number (fat_io_lib). A card of standard capacity gives others.
SectorsWanted ==
  call = "read" /\ (\A k \in 1 .. Count : given[k] = [status |-> 0, token |-> StartToken]) =>
    dst = FlattenSeq([k \in 1 .. Count |->
                        [i \in 1 .. Bytes |-> content[(First + k - 1) * Bytes + (i - 1)]]])

\* With a card that always answers, all the sectors are read or refused: no wait of the
\* driver is for something that does not come (sdcard.c:92).
ReadEnds == <>(call = "read")
=============================================================================
