----------------------------- MODULE CardProofs -----------------------------
(***************************************************************************)
(* Proofs about what comes off the SD card.  The start of the player, for  *)
(* every length of names and of lists, and whatever fails to open: on      *)
(* cards with names as long as the README allows, where a write may leave  *)
(* an array and nowhere else, which images are found, that playlists are   *)
(* complete and what the menus get.  The driver below it, bit by bit, for  *)
(* every number of sectors and of bytes, all contents, waits, statuses and *)
(* error tokens: an answer is never taken for another one, and what the    *)
(* card gives arrives whole.                                               *)
(***************************************************************************)
EXTENDS Library, SdCard, TLAPS, WellFoundedInduction

---------------------------------------------------------------------------
(* Induction.                                                              *)

\* The order of the naturals.
Below == {p \in Nat \X Nat : p[1] < p[2]}

\* A set with 0 that has the successor of all its elements has every natural.
LEMMA Induction ==
  ASSUME NEW S, 0 \in S, \A u \in Nat : u \in S => u + 1 \in S
  PROVE  Nat \subseteq S
<1> SUFFICES ASSUME Nat \ S # {} PROVE FALSE
  OBVIOUS
<1>1. IsWellFoundedOn(Below, Nat)
  BY NatLessThanWellFounded DEF OpToRel, Below
<1>2. PICK m \in Nat \ S : \A u \in Nat \ S : <<u, m>> \notin Below
  BY <1>1, WFMin
<1>3. m # 0 /\ m - 1 \in Nat
  BY <1>2
<1>4. m - 1 \in S
  <2>1. <<m - 1, m>> \in Nat \X Nat
    BY <1>2, <1>3
  <2>2. <<m - 1, m>>[1] < <<m - 1, m>>[2] => <<m - 1, m>> \in Below
    BY <2>1, Zenon DEF Below
  <2>3. <<m - 1, m>> \in Below
    BY <1>2, <2>2
  <2> QED
    BY <1>2, <1>3, <2>3
<1> QED
  BY <1>2, <1>3, <1>4

---------------------------------------------------------------------------
(* Sequences one behind the other.                                         *)

\* Sequences up to each of them can be joined.
LEMMA Joining ==
  ASSUME NEW x
  PROVE  \A m \in Nat : \E f : f = [k \in 0 .. m |-> IF k = 0 THEN <<>> ELSE f[k - 1] \o x[k]]
<1> DEFINE S == {m \in Nat : \E f : f = [k \in 0 .. m |-> IF k = 0 THEN <<>> ELSE f[k - 1] \o x[k]]}
<1>1. 0 \in S
  <2> DEFINE g == [k \in 0 .. 0 |-> <<>>]
  <2>1. g = [k \in 0 .. 0 |-> IF k = 0 THEN <<>> ELSE g[k - 1] \o x[k]]
    OBVIOUS
  <2> HIDE DEF g
  <2> QED
    BY <2>1
<1>2. ASSUME NEW m \in Nat, m \in S PROVE m + 1 \in S
  <2>1. PICK f : f = [k \in 0 .. m |-> IF k = 0 THEN <<>> ELSE f[k - 1] \o x[k]]
    BY <1>2
  <2>2. \A k \in 0 .. m : f[k] = IF k = 0 THEN <<>> ELSE f[k - 1] \o x[k]
    BY <2>1
  <2> DEFINE g == [k \in 0 .. m + 1 |-> IF k = m + 1 THEN f[m] \o x[m + 1] ELSE f[k]]
  <2>3. ASSUME NEW k \in 0 .. m + 1
        PROVE  g[k] = IF k = 0 THEN <<>> ELSE g[k - 1] \o x[k]
    <3>1. CASE k = m + 1
      <4>1. k # 0 /\ k - 1 \in 0 .. m /\ k - 1 # m + 1 /\ k - 1 = m
        BY <3>1
      <4>2. g[k] = f[m] \o x[k] /\ g[k - 1] = f[m]
        BY <3>1, <4>1
      <4> HIDE DEF g
      <4> QED
        BY <4>1, <4>2
    <3>2. CASE k # m + 1
      <4>1. k \in 0 .. m /\ g[k] = f[k]
        BY <3>2
      <4>2. k # 0 => g[k - 1] = f[k - 1]
        BY <3>2
      <4> HIDE DEF g
      <4> QED
        BY <2>2, <4>1, <4>2
    <3> QED
      BY <3>1, <3>2
  <2>4. g = [k \in 0 .. m + 1 |-> IF k = 0 THEN <<>> ELSE g[k - 1] \o x[k]]
    BY <2>3
  <2> HIDE DEF g
  <2>5. \E h : h = [k \in 0 .. m + 1 |-> IF k = 0 THEN <<>> ELSE h[k - 1] \o x[k]]
    BY <2>4, Zenon
  <2> QED
    BY <2>5
<1> HIDE DEF S
<1>3. Nat \subseteq S
  BY <1>1, <1>2, Induction
<1> QED
  BY <1>3 DEF S

\* What Joined gives: nothing, and then one more sequence each time.
LEMMA JoinedIs ==
  ASSUME NEW x, Len(x) \in Nat
  PROVE  \A k \in 0 .. Len(x) : Joined(x)[k] = IF k = 0 THEN <<>> ELSE Joined(x)[k - 1] \o x[k]
<1>1. \E f : f = [k \in 0 .. Len(x) |-> IF k = 0 THEN <<>> ELSE f[k - 1] \o x[k]]
  BY Joining
<1>2. Joined(x) = [k \in 0 .. Len(x) |-> IF k = 0 THEN <<>> ELSE Joined(x)[k - 1] \o x[k]]
  BY <1>1 DEF Joined
<1> QED
  BY <1>2

\* s is a sequence.
IsSeq(s) == \E T : s \in Seq(T)

\* One that is longer is a sequence too.
LEMMA Longer ==
  ASSUME NEW s, IsSeq(s), NEW e
  PROVE  /\ IsSeq(Append(s, e)) /\ Len(Append(s, e)) = Len(s) + 1 /\ Len(s) \in Nat
         /\ Append(s, e) = s \o <<e>>
         /\ s \o <<>> = s
<1>1. PICK T : s \in Seq(T)
  BY DEF IsSeq
<1>2. s \in Seq(T \cup {e}) /\ e \in T \cup {e}
  BY <1>1
<1>3. Append(s, e) \in Seq(T \cup {e}) /\ Len(Append(s, e)) = Len(s) + 1
      /\ Len(s) \in Nat /\ Append(s, e) = s \o <<e>> /\ s \o <<>> = s
  <2>1. PICK U : s \in Seq(U) /\ e \in U
    BY <1>2
  <2> QED
    BY <1>2, <2>1
<1> QED
  BY <1>3 DEF IsSeq

\* A sequence behind one element.
LEMMA Headed ==
  ASSUME NEW s, IsSeq(s), NEW a, NEW e
  PROVE  /\ IsSeq(<<a>> \o s) /\ Tail(<<a>> \o s) = s /\ <<a>> \o <<>> = <<a>> /\ Len(<<a>>) = 1
         /\ Append(<<a>> \o s, e) = <<a>> \o Append(s, e)
<1>1. PICK T : s \in Seq(T)
  BY DEF IsSeq
<1>2. PICK U : s \in Seq(U) /\ a \in U /\ e \in U
  <2>1. s \in Seq(T \cup {a, e})
    BY <1>1
  <2> QED
    BY <2>1
<1>3. <<a>> \in Seq(U) /\ <<a>> \o s \in Seq(U) /\ Append(s, e) \in Seq(U) /\ Len(<<a>>) = 1
  BY <1>2
<1>4. <<a>> \o <<>> = <<a>> /\ Tail(<<a>> \o s) = s
  BY <1>2
<1>5. Append(<<a>> \o s, e) = <<a>> \o Append(s, e)
  BY <1>2
<1> QED
  BY <1>3, <1>4, <1>5 DEF IsSeq

\* The empty sequence.
LEMMA Empty == ASSUME NEW T PROVE <<>> \in Seq(T) /\ Len(<<>>) = 0 /\ DOMAIN <<>> = {}
  OBVIOUS

\* What is read when nothing has been read.
LEMMA Zero ==
  ASSUME NEW p, NEW c, p = 0, c = 0
  PROVE  p - c = 0 /\ c <= p /\ 0 + 1 .. p = {} /\ 1 .. c = {} /\ \A u \in Nat : p <= u
  OBVIOUS

\* The length of a sequence.
LEMMA Counted == ASSUME NEW T, NEW s \in Seq(T) PROVE Len(s) \in Nat
  OBVIOUS

\* An element of a sequence.
LEMMA Item == ASSUME NEW T, NEW s \in Seq(T), NEW k \in 1 .. Len(s) PROVE s[k] \in T
  OBVIOUS

\* A sequence with one more element.
LEMMA Grown ==
  ASSUME NEW T, NEW s \in Seq(T), NEW e \in T
  PROVE  /\ Append(s, e) \in Seq(T) /\ Len(Append(s, e)) = Len(s) + 1
         /\ Len(s) \in Nat /\ DOMAIN Append(s, e) = 1 .. Len(s) + 1 /\ DOMAIN s = 1 .. Len(s)
         /\ Append(s, e)[Len(s) + 1] = e /\ \A k \in 1 .. Len(s) : Append(s, e)[k] = s[k]
  OBVIOUS

---------------------------------------------------------------------------
(* Names and lines.                                                        *)

\* The part of a file name that makes a name: the whole of it when it is short enough.
LEMMA NamedIs ==
  ASSUME NEW file \in Seq(Chars)
  PROVE  Named(file) \in Seq(Chars) /\ Len(Named(file)) \in Nat /\ Len(Named(file)) <= NameLen
<1> DEFINE c == Min({Len(file), NameLen})
<1>1. Len(file) \in Nat /\ NameLen \in Nat
  BY LibraryAssumption
<1>2. c \in Nat /\ c <= Len(file) /\ c <= NameLen
  <2>1. \E y \in {Len(file), NameLen} : \A z \in {Len(file), NameLen} : y =< z
    BY <1>1
  <2>2. c \in {Len(file), NameLen} /\ \A z \in {Len(file), NameLen} : c =< z
    BY <2>1 DEF Min
  <2> HIDE DEF c
  <2> QED
    BY <1>1, <2>2
<1> HIDE DEF c
<1>3. SubSeq(file, 1, c) \in Seq(Chars) /\ Len(SubSeq(file, 1, c)) = c
  BY <1>1, <1>2
<1> QED
  BY <1>1, <1>2, <1>3 DEF Named, c

\* The last newline is the one after which there is none.
LEMMA LastEndIs ==
  ASSUME NEW text, NEW k \in Nat, NEW e \in 0 .. k, e = 0 \/ text[e] = NL,
         \A j \in e + 1 .. k : text[j] # NL
  PROVE  LastEnd(text, k) = e
<1> DEFINE S == {j \in 1 .. k : text[j] = NL} \cup {0}
<1>1. e \in S /\ \A y \in S : e >= y
  OBVIOUS
<1>2. \A y \in S : y \in Nat
  OBVIOUS
<1> HIDE DEF S
<1>3. Max(S) \in S /\ \A y \in S : Max(S) >= y
  BY <1>1 DEF Max
<1>4. Max(S) \in Nat /\ Max(S) >= e /\ e >= Max(S)
  BY <1>1, <1>2, <1>3
<1>5. Max(S) = e
  BY <1>4
<1> QED
  BY <1>5 DEF LastEnd, S

\* Cells that hold a word and a NUL are equal to that word and to no other.
LEMMA Compared ==
  ASSUME NEW cells, NEW at \in Nat, NEW w \in Seq(Chars), NEW name \in Seq(Chars),
         \A k \in 1 .. Len(w) : at + k - 1 \in DOMAIN cells /\ cells[at + k - 1] = w[k],
         at + Len(w) \in DOMAIN cells, cells[at + Len(w)] = NUL
  PROVE  strequ(name, cells, at) <=> name = w
<1> DEFINE C(k) == IF at + k - 1 \in DOMAIN cells THEN cells[at + k - 1] ELSE Unset
<1>1. Len(w) \in Nat /\ Len(name) \in Nat
  OBVIOUS
<1>2. \A k \in 1 .. Len(w) : C(k) = w[k]
  OBVIOUS
<1>3. C(Len(w) + 1) = NUL
  BY <1>1
<1> HIDE DEF C
<1>4. strequ(name, cells, at) <=> C(Len(name) + 1) = NUL /\ \A k \in 1 .. Len(name) : C(k) = name[k]
  BY DEF strequ, C
<1>5. \A char \in Chars : char # NUL
  BY LibraryAssumption
<1>6. CASE Len(name) > Len(w)
  <2>1. Len(w) + 1 \in 1 .. Len(name)
    BY <1>1, <1>6
  <2>2. name[Len(w) + 1] \in Chars
    BY <2>1
  <2> QED
    BY <1>1, <1>3, <1>4, <1>5, <1>6, <2>1, <2>2
<1>7. CASE Len(name) < Len(w)
  <2>1. Len(name) + 1 \in 1 .. Len(w)
    BY <1>1, <1>7
  <2>2. w[Len(name) + 1] \in Chars
    BY <2>1
  <2> QED
    BY <1>1, <1>2, <1>4, <1>5, <1>7, <2>1, <2>2
<1>8. CASE Len(name) = Len(w)
  <2>1. strequ(name, cells, at) <=> \A k \in 1 .. Len(w) : w[k] = name[k]
    BY <1>2, <1>3, <1>4, <1>8
  <2>2. (\A k \in 1 .. Len(w) : w[k] = name[k]) => w = name
    BY <1>8
  <2> QED
    BY <2>1, <2>2
<1> QED
  BY <1>1, <1>6, <1>7, <1>8

\* A word without its terminator is equal to no name that is not longer.
LEMMA Unended ==
  ASSUME NEW cells, NEW at \in Nat, NEW w \in Seq(Chars), NEW name \in Seq(Chars), Len(name) <= Len(w),
         \A k \in 1 .. Len(w) : at + k - 1 \in DOMAIN cells /\ cells[at + k - 1] = w[k],
         at + Len(w) \in DOMAIN cells, cells[at + Len(w)] \in Chars
  PROVE  ~strequ(name, cells, at)
<1> DEFINE C(k) == IF at + k - 1 \in DOMAIN cells THEN cells[at + k - 1] ELSE Unset
<1>1. Len(w) \in Nat /\ Len(name) \in Nat
  OBVIOUS
<1>2. \A k \in 1 .. Len(w) : C(k) = w[k]
  OBVIOUS
<1>3. C(Len(w) + 1) \in Chars
  BY <1>1
<1> HIDE DEF C
<1>4. strequ(name, cells, at) => C(Len(name) + 1) = NUL
  BY DEF strequ, C
<1>5. NUL \notin Chars
  BY LibraryAssumption
<1>6. CASE Len(name) < Len(w)
  <2>1. Len(name) + 1 \in 1 .. Len(w)
    BY <1>1, <1>6
  <2>2. w[Len(name) + 1] \in Chars
    BY <2>1
  <2> QED
    BY <1>2, <1>4, <1>5, <2>1, <2>2
<1>7. CASE Len(name) = Len(w)
  BY <1>3, <1>4, <1>5, <1>7
<1> QED
  BY <1>1, <1>6, <1>7

\* The rows of img_names, one after the other.
LEMMA Rows ==
  ASSUME NEW j \in Nat, NEW k \in Nat, j < k
  PROVE  Row(j) \in Nat /\ Row(k) \in Nat /\ Row(j) + NameLen <= Row(k)
<1>1. NameLen \in Nat
  BY LibraryAssumption
<1>2. PICK d \in Nat : k = j + 1 + d
  <2>1. k - j - 1 \in Nat /\ k = j + 1 + (k - j - 1)
    OBVIOUS
  <2> QED
    BY <2>1
<1>3. j * NameLen \in Nat /\ d * NameLen \in Nat /\ k * NameLen \in Nat
  BY <1>1
<1>4. k * NameLen = j * NameLen + NameLen + d * NameLen
  BY <1>1, <1>2
<1> QED
  BY <1>1, <1>3, <1>4 DEF Row

\* A text lists nothing at its start, and more at the end of a line.
LEMMA ListedIs ==
  ASSUME NEW c, NEW text, Len(text) \in Nat
  PROVE  /\ Listed(c, text)[0] = <<>>
         /\ \A k \in 1 .. Len(text) :
              Listed(c, text)[k] = Listed(c, text)[k - 1] \o IF text[k] = NL THEN Line(c, text, k) ELSE <<>>
<1> DEFINE x == [k \in 1 .. Len(text) |-> IF text[k] = NL THEN Line(c, text, k) ELSE <<>>]
<1>1. Len(x) = Len(text)
  OBVIOUS
<1>2. \A k \in 1 .. Len(text) : x[k] = IF text[k] = NL THEN Line(c, text, k) ELSE <<>>
  OBVIOUS
<1>3. Listed(c, text) = Joined(x)
  BY DEF Listed
<1> HIDE DEF x
<1>4. \A k \in 0 .. Len(text) : Joined(x)[k] = IF k = 0 THEN <<>> ELSE Joined(x)[k - 1] \o x[k]
  BY <1>1, JoinedIs
<1>5. ASSUME NEW k \in 1 .. Len(text)
      PROVE  Joined(x)[k] = Joined(x)[k - 1] \o IF text[k] = NL THEN Line(c, text, k) ELSE <<>>
  <2>1. k \in 0 .. Len(text) /\ k # 0
    OBVIOUS
  <2>2. Joined(x)[k] = Joined(x)[k - 1] \o x[k]
    BY <1>4, <2>1
  <2>3. x[k] = IF text[k] = NL THEN Line(c, text, k) ELSE <<>>
    BY <1>2
  <2> QED
    BY <2>2, <2>3, Zenon
<1>6. Joined(x)[0] = <<>>
  BY <1>4
<1> QED
  BY <1>3, <1>5, <1>6

\* A file gives one playlist or none.
LEMMA OneOrNone ==
  ASSUME NEW c, NEW lost, NEW p
  PROVE  Offered(c, lost, p) = <<>> \/ \E e : Offered(c, lost, p) = <<e>>
  BY DEF Offered

\* The playlists of the card are none at first, and one more for every file that is kept.
LEMMA ExpectedIs ==
  ASSUME NEW c, NEW lost, Len(c.playlists) \in Nat
  PROVE  /\ Expected(c, lost)[0] = <<>>
         /\ \A p \in 1 .. Len(c.playlists) :
              Expected(c, lost)[p] = Expected(c, lost)[p - 1] \o Offered(c, lost, p)
         /\ \A p \in 0 .. Len(c.playlists) : IsSeq(Expected(c, lost)[p])
<1> DEFINE x == [p \in 1 .. Len(c.playlists) |-> Offered(c, lost, p)]
           E == Joined(x)
           N == Len(c.playlists)
<1>1. Len(x) = N /\ N \in Nat
  OBVIOUS
<1>2. \A p \in 1 .. N : x[p] = Offered(c, lost, p)
  OBVIOUS
<1>3. Expected(c, lost) = E
  BY DEF Expected
<1> HIDE DEF x, N
<1>4. \A p \in 0 .. N : E[p] = IF p = 0 THEN <<>> ELSE E[p - 1] \o x[p]
  BY <1>1, JoinedIs DEF N
<1> HIDE DEF E
<1>5. E[0] = <<>>
  BY <1>1, <1>4
<1>6. ASSUME NEW p \in 1 .. N
      PROVE  E[p] = E[p - 1] \o Offered(c, lost, p)
  <2>1. p \in 0 .. N /\ p # 0
    BY <1>1
  <2>2. E[p] = E[p - 1] \o x[p]
    BY <1>4, <2>1
  <2>3. x[p] = Offered(c, lost, p)
    BY <1>2
  <2> QED
    BY <2>2, <2>3, Zenon
<1> DEFINE S == {p \in Nat : p <= N => IsSeq(E[p])}
<1>7. 0 \in S
  <2>1. <<>> \in Seq({})
    OBVIOUS
  <2>2. IsSeq(<<>>)
    BY <2>1 DEF IsSeq
  <2> QED
    BY <1>5, <2>2
<1>8. ASSUME NEW q \in 1 .. N, NEW s, s = E[q - 1], IsSeq(s) PROVE IsSeq(E[q])
  <2>1. E[q] = s \o Offered(c, lost, q)
    BY <1>6, <1>8
  <2>2. ASSUME NEW e, Offered(c, lost, q) = <<e>> PROVE IsSeq(E[q])
    <3>1. E[q] = Append(s, e)
      BY <1>8, <2>1, <2>2, Longer
    <3> QED
      BY <1>8, <3>1, Longer
  <2>3. CASE Offered(c, lost, q) = <<>>
    BY <1>8, <2>1, <2>3, Longer
  <2> QED
    BY <2>2, <2>3, OneOrNone
<1>9. ASSUME NEW p \in Nat, p \in S PROVE p + 1 \in S
  <2> SUFFICES ASSUME p + 1 <= N PROVE IsSeq(E[p + 1])
    OBVIOUS
  <2>1. p + 1 \in 1 .. N /\ p + 1 - 1 = p /\ IsSeq(E[p])
    BY <1>1, <1>9
  <2>2. E[p] = E[p + 1 - 1]
    BY <2>1
  <2> QED
    BY <1>8, <2>1, <2>2
<1> HIDE DEF S
<1>10. Nat \subseteq S
  BY <1>7, <1>9, Induction
<1>11. \A p \in 0 .. N : IsSeq(E[p])
  BY <1>1, <1>10 DEF S
<1> QED
  BY <1>3, <1>5, <1>6, <1>11 DEF N

\* A file that does not open changes nothing to the playlists of the files before it.
LEMMA ExpectedBefore ==
  ASSUME NEW c, NEW lost, Len(c.playlists) \in Nat, NEW d \in 1 .. Len(c.playlists)
  PROVE  Expected(c, lost \cup {d})[d - 1] = Expected(c, lost)[d - 1]
<1> DEFINE N == Len(c.playlists)
           E == Expected(c, lost)
           F == Expected(c, lost \cup {d})
           S == {p \in Nat : p < d => F[p] = E[p]}
<1>1. /\ E[0] = <<>> /\ F[0] = <<>>
      /\ \A p \in 1 .. N : E[p] = E[p - 1] \o Offered(c, lost, p)
      /\ \A p \in 1 .. N : F[p] = F[p - 1] \o Offered(c, lost \cup {d}, p)
  BY ExpectedIs
<1>2. \A p : p # d => Offered(c, lost \cup {d}, p) = Offered(c, lost, p)
  BY DEF Offered
<1> HIDE DEF N, E, F
<1>3. N \in Nat /\ d \in 1 .. N
  BY DEF N
<1>4. 0 \in S
  BY <1>1
<1>5. ASSUME NEW p \in Nat, p \in S PROVE p + 1 \in S
  <2> SUFFICES ASSUME p + 1 < d PROVE F[p + 1] = E[p + 1]
    OBVIOUS
  <2>1. PICK q : q = p + 1
    OBVIOUS
  <2>2. q \in 1 .. N /\ q - 1 = p /\ q # d /\ p < d
    BY <1>3, <2>1
  <2>3. F[p] = E[p]
    BY <1>5, <2>2
  <2>4. E[q] = E[q - 1] \o Offered(c, lost, q) /\ F[q] = F[q - 1] \o Offered(c, lost \cup {d}, q)
    BY <1>1, <2>2
  <2>5. Offered(c, lost \cup {d}, q) = Offered(c, lost, q)
    BY <1>2, <2>2
  <2>6. E[q - 1] = E[p] /\ F[q - 1] = F[p]
    BY <2>2
  <2> QED
    BY <2>1, <2>3, <2>4, <2>5, <2>6, Zenon
<1> HIDE DEF S
<1>6. Nat \subseteq S
  BY <1>4, <1>5, Induction
<1>7. d - 1 \in S /\ d - 1 < d
  BY <1>3, <1>6
<1> QED
  BY <1>7 DEF S, E, F

---------------------------------------------------------------------------
(* The invariant.                                                          *)

\* Every card has names no longer than the README allows, and fits the arrays.
Fit == \A c \in Cards : Fitting(c)

\* The musics could be read.
Known == "musics" \notin failed

Phases == {"open musics", "list musics", "open images", "list images", "all musics",
           "open playlists", "list playlists", "read playlist",
           "menu", "No music found", "SD card error"}

\* The directory of the playlists has been opened, or has failed to.
InPlaylists == {"list playlists", "read playlist", "menu"}

Base ==
  /\ card \in Cards /\ phase \in Phases
  /\ dir \in Nat /\ pos \in Nat /\ cursor \in Nat
  /\ DOMAIN img_names = 0 .. MaxMusics * NameLen - 1
  /\ DOMAIN buffer = 0 .. NameLen - 1
  /\ phase \in {"open musics", "open images", "open playlists"} => dir = 0
  /\ phase # "menu" => "playlists" \notin failed
  /\ phase \notin InPlaylists => unopened = {}

\* The musics found so far are the first files of their directory.
MusicsFound ==
  /\ phase = "open musics" => musics = <<>> /\ failed = {}
  /\ phase = "list musics" => Known /\ dir <= Len(card.musics) /\ Len(musics) = dir
  /\ phase \notin {"open musics", "list musics"} =>
       IF Known THEN n_musics = Len(card.musics) /\ Len(musics) = n_musics
                ELSE musics = <<>> /\ n_musics = Failed
  /\ phase \in InPlaylists \cup {"open playlists"} => Known /\ n_musics > 0
  /\ musics \in Seq([name : Seq(Chars), has_img : BOOLEAN])
  /\ Len(musics) <= Len(card.musics)
  /\ \A m \in DOMAIN musics : musics[m].name = Named(card.musics[m])

\* The name of image j + 1.
Image(j) == Named(card.images[j + 1])

\* A row of img_names has the name of an image.
HoldsImage(j) ==
  /\ \A k \in 1 .. Len(Image(j)) : img_names[Row(j) + k - 1] = Image(j)[k]
  /\ Row(j) + Len(Image(j)) \in DOMAIN img_names

\* After d images the terminator of row j has not been written over.
EndHeld(j, d) == Len(Image(j)) < NameLen \/ j + 1 = d \/ Image(j + 1) = <<>>

HoldsEnd(j) == img_names[Row(j) + Len(Image(j))] = NUL

RowsWritten ==
  phase = "list images" =>
    /\ dir <= Len(card.images)
    /\ \A j \in 0 .. dir - 1 : HoldsImage(j) /\ (EndHeld(j, dir) => HoldsEnd(j))

\* Images have been looked for.
Imaged ==
  phase \in {"all musics", "open playlists", "list playlists", "read playlist", "menu"}
    /\ "images" \notin failed =>
    \A m \in DOMAIN musics :
      musics[m].has_img <=>
        \E j \in DOMAIN card.images : Named(card.images[j]) = musics[m].name /\ Ended(j)

\* The first playlist.
All == [name |-> <<"All musics", NUL>>, musics |-> [m \in 1 .. n_musics |-> m]]

\* The playlists so far are those of the first files.
ListsMade ==
  LET N == Len(card.playlists)
      E == Expected(card, unopened)
  IN
  /\ phase = "open playlists" => playlists = <<All>>
  /\ phase \in {"list playlists", "read playlist"} =>
       dir <= N /\ IsSeq(playlists) /\ unopened \subseteq 1 .. dir
  /\ phase = "list playlists" => Len(playlists) <= dir + 1 /\ playlists = <<All>> \o E[dir]
  /\ phase = "read playlist" =>
       dir > 0 /\ Len(playlists) <= dir /\ dir \notin unopened /\ playlists = <<All>> \o E[dir - 1]
  /\ phase = "menu" =>
       IF "playlists" \in failed
       THEN n_playlists = Failed + 1 /\ playlists = <<All>>
       ELSE n_playlists = Len(playlists) /\ playlists = <<All>> \o E[N]

\* Only a file that did not open gives a playlist without musics.
ListsFilled ==
  phase \in InPlaylists \cup {"open playlists"} =>
    \A p \in DOMAIN playlists :
      playlists[p].musics = <<>> =>
        \E q \in unopened : playlists[p].name = Copied(card.playlists[q].name)

\* The buffer has the line so far, and the open playlist what the lines before it name.
LineRead ==
  phase = "read playlist" =>
    LET file == card.playlists[dir]
        from == pos - cursor
    IN
    /\ cursor <= pos /\ pos <= Len(file.text) /\ Len(file.name) # BugLen
    /\ from = 0 \/ file.text[from] = NL
    /\ \A j \in from + 1 .. pos : file.text[j] # NL
    /\ \A k \in 1 .. cursor : buffer[k - 1] = file.text[from + k]
    /\ open = [name |-> Copied(file.name), musics |-> open.musics]
    /\ open.musics = Listed(card, file.text)[pos]

\* The invariant, until a write goes out of an array.
Inv == Base /\ MusicsFound /\ RowsWritten /\ Imaged /\ ListsMade /\ ListsFilled /\ LineRead

Safe == NoStray /\ (~stray => Inv)

\* What Fitting says.
LEMMA CardIs ==
  ASSUME Fit, Base
  PROVE  /\ card.musics \in Seq(Seq(Chars)) /\ Len(card.musics) \in Nat /\ Len(card.musics) <= MaxMusics
         /\ card.images \in Seq(Seq(Chars)) /\ Len(card.images) \in Nat /\ Len(card.images) <= MaxMusics
         /\ \A j \in 1 .. Len(card.images) : card.images[j] \in Seq(Chars)
         /\ Len(card.playlists) \in Nat /\ Len(card.playlists) < MaxFiles
         /\ \A p \in 1 .. Len(card.playlists) :
              /\ card.playlists[p].name \in Seq(Chars) /\ card.playlists[p].text \in Seq(Chars \cup {NL})
              /\ LET text == card.playlists[p].text IN
                 /\ \A k \in 1 .. Len(text) - NameLen : \E j \in k .. k + NameLen : text[j] = NL
                 /\ \A k \in 0 .. Len(text) : Len(Listed(card, text)[k]) <= MaxMusics
<1>1. Fitting(card)
  BY DEF Fit, Base
<1>2. card.musics \in Seq(Seq(Chars)) /\ Len(card.musics) \in Nat /\ Len(card.musics) <= MaxMusics
  BY <1>1 DEF Fitting
<1>3. card.images \in Seq(Seq(Chars)) /\ Len(card.images) \in Nat /\ Len(card.images) <= MaxMusics
  BY <1>1 DEF Fitting
<1>4. \A j \in 1 .. Len(card.images) : card.images[j] \in Seq(Chars)
  BY <1>3, Item
<1>5. /\ card.playlists \in Seq([name : Seq(Chars), text : Seq(Chars \cup {NL})])
      /\ Len(card.playlists) \in Nat /\ Len(card.playlists) < MaxFiles
  BY <1>1 DEF Fitting
<1>6. ASSUME NEW p \in 1 .. Len(card.playlists)
      PROVE  /\ card.playlists[p].name \in Seq(Chars) /\ card.playlists[p].text \in Seq(Chars \cup {NL})
             /\ LET text == card.playlists[p].text IN
                /\ \A k \in 1 .. Len(text) - NameLen : \E j \in k .. k + NameLen : text[j] = NL
                /\ \A k \in 0 .. Len(text) : Len(Listed(card, text)[k]) <= MaxMusics
  <2>1. card.playlists[p] \in [name : Seq(Chars), text : Seq(Chars \cup {NL})] /\ p \in DOMAIN card.playlists
    <3> DEFINE T == [name : Seq(Chars), text : Seq(Chars \cup {NL})]
               list == card.playlists
    <3>1. list \in Seq(T) /\ p \in 1 .. Len(list)
      BY <1>5
    <3> HIDE DEF T, list
    <3>2. list[p] \in T /\ p \in DOMAIN list
      BY <3>1
    <3> QED
      BY <3>2 DEF T, list
  <2>2. LET text == card.playlists[p].text IN
        /\ \A k \in 1 .. Len(text) - NameLen : \E j \in k .. k + NameLen : text[j] = NL
        /\ \A k \in 0 .. Len(text) : Len(Listed(card, text)[k]) <= MaxMusics
    BY <1>1, <2>1 DEF Fitting
  <2> QED
    BY <2>1, <2>2
<1> QED
  BY <1>2, <1>3, <1>4, <1>5, <1>6

---------------------------------------------------------------------------
(* The steps.                                                              *)

\* The player starts with nothing found.
LEMMA InitInv == Fit /\ Init => Safe
<1> SUFFICES ASSUME Fit, Init PROVE Safe
  OBVIOUS
<1>1. Base
  BY DEF Init, Base, Phases, InPlaylists
<1>2. MusicsFound
  <2>1. Len(card.musics) \in Nat
    BY <1>1, CardIs
  <2>2. musics = <<>> /\ failed = {} /\ phase = "open musics"
    BY DEF Init
  <2> DEFINE T == [name : Seq(Chars), has_img : BOOLEAN]
  <2> HIDE DEF T
  <2>3. musics \in Seq(T) /\ Len(musics) = 0 /\ DOMAIN musics = {}
    BY <2>2, Empty, Zenon
  <2>4. Len(musics) <= Len(card.musics)
    BY <2>1, <2>3
  <2>5. \A m \in DOMAIN musics : musics[m].name = Named(card.musics[m])
    BY <2>3
  <2>6. phase \notin InPlaylists \cup {"open playlists"}
    BY <2>2 DEF InPlaylists
  <2> QED
    BY <2>2, <2>3, <2>4, <2>5, <2>6, Zenon DEF MusicsFound, T
<1> QED
  BY <1>1, <1>2 DEF Init, Inv, Safe, RowsWritten, Imaged, ListsMade, ListsFilled, LineRead, NoStray, InPlaylists

\* Until the playlists are opened, a step that keeps the cells and what it found keeps the rest.
LEMMA Early ==
  ASSUME phase' \in Phases, phase' \notin InPlaylists \cup {"open playlists"}, ~stray',
         Base', MusicsFound', RowsWritten', Imaged'
  PROVE  Safe'
<1>1. ListsMade' /\ ListsFilled' /\ LineRead'
  BY DEF ListsMade, ListsFilled, LineRead, InPlaylists
<1>2. NoStray'
  BY DEF NoStray
<1> QED
  BY <1>1, <1>2 DEF Safe, Inv

\* The directory of the musics opens or not.
LEMMA OpenMusicsStep == Fit /\ Inv /\ OpenMusics => Safe'
<1> SUFFICES ASSUME Fit, Inv, OpenMusics PROVE Safe'
  OBVIOUS
<1>1. Base'
  BY DEF Inv, Base, OpenMusics, At, Phases, InPlaylists, disk, lists, Fails
<1>2. /\ phase = "open musics" /\ phase' \in {"list musics", "open images"}
      /\ musics' = <<>> /\ card' = card /\ dir' = 0 /\ ~stray' /\ failed = {}
  BY DEF Inv, Base, MusicsFound, OpenMusics, At, disk
<1>3. phase' = "list musics" => failed' = {}
  BY <1>2 DEF OpenMusics
<1>4. phase' = "open images" => failed' = {"musics"} /\ n_musics' = Failed
  BY <1>2 DEF OpenMusics, Fails
<1>5. phase' \in Phases /\ phase' \notin InPlaylists \cup {"open playlists"}
  BY <1>2 DEF Phases, InPlaylists
<1>6. MusicsFound'
  BY <1>2, <1>3, <1>4, <1>1, <1>5, CardIs DEF Inv, Base, MusicsFound, Known
<1> QED
  BY <1>1, <1>2, <1>5, <1>6, Early DEF RowsWritten, Imaged

\* One more music.
LEMMA ListMusicStep == Fit /\ Inv /\ ListMusic => Safe'
<1> SUFFICES ASSUME Fit, Inv, ListMusic PROVE Safe'
  OBVIOUS
<1> DEFINE e == [name |-> Named(card.musics[dir + 1]), has_img |-> FALSE]
           T == [name : Seq(Chars), has_img : BOOLEAN]
<1>1. /\ phase = "list musics" /\ phase' = phase /\ card' = card /\ failed' = failed
      /\ dir' = dir + 1 /\ dir < Len(card.musics) /\ musics' = Append(musics, e)
      /\ pos' = pos /\ cursor' = cursor /\ img_names' = img_names /\ buffer' = buffer
      /\ unopened' = unopened
  BY DEF ListMusic, At, lists
<1>2. /\ Known /\ Len(musics) = dir /\ dir \in Nat /\ musics \in Seq(T)
      /\ \A m \in DOMAIN musics : musics[m].name = Named(card.musics[m])
  BY <1>1 DEF Inv, Base, MusicsFound
<1>3. /\ card.musics \in Seq(Seq(Chars)) /\ Len(card.musics) \in Nat /\ Len(card.musics) <= MaxMusics
      /\ MaxMusics \in Nat
  BY CardIs, LibraryAssumption DEF Inv
<1>4. Base'
  <2>1. dir + 1 \in Nat
    BY <1>2
  <2> QED
    BY <1>1, <2>1 DEF Inv, Base
<1>5. e \in T /\ e.name = Named(card.musics[dir + 1])
  <2>1. dir + 1 \in 1 .. Len(card.musics)
    <3>1. dir < Len(card.musics) /\ dir \in Nat /\ Len(card.musics) \in Nat
      BY <1>1, <1>2, <1>3
    <3> QED
      BY <3>1
  <2>2. card.musics[dir + 1] \in Seq(Chars)
    BY <1>3, <2>1, Item
  <2> QED
    BY <2>2, NamedIs
<1> HIDE DEF e, T
<1>6. /\ musics' \in Seq(T) /\ Len(musics') = dir + 1 /\ DOMAIN musics' = 1 .. dir + 1 /\ DOMAIN musics = 1 .. dir
      /\ musics'[dir + 1] = e /\ \A m \in 1 .. dir : musics'[m] = musics[m]
  <2>1. musics' = Append(musics, e) /\ Len(musics) = dir /\ musics \in Seq(T) /\ e \in T
    BY <1>1, <1>2, <1>5
  <2> QED
    BY <2>1, Grown
<1>7. ASSUME NEW m \in DOMAIN musics' PROVE musics'[m].name = Named(card.musics[m])
  <2>1. CASE m = dir + 1
    BY <1>5, <1>6, <2>1
  <2>2. CASE m # dir + 1
    <3>1. m \in 1 .. dir
      BY <1>2, <1>6, <2>2
    <3> QED
      BY <1>2, <1>6, <3>1
  <2> QED
    BY <2>1, <2>2
<1>8. dir + 1 <= Len(card.musics)
  <2>1. dir < Len(card.musics) /\ dir \in Nat /\ Len(card.musics) \in Nat
    BY <1>1, <1>2, <1>3
  <2> QED
    BY <2>1
<1>9. MusicsFound'
  BY <1>1, <1>2, <1>6, <1>7, <1>8 DEF MusicsFound, Known, T, InPlaylists
<1>10. ~stray'
  <2>1. stray' <=> Len(musics') > MaxMusics
    BY DEF ListMusic
  <2> QED
    BY <1>3, <1>6, <1>8, <2>1
<1>11. phase' \in Phases /\ phase' \notin InPlaylists \cup {"open playlists"}
  BY <1>1 DEF Phases, InPlaylists
<1> QED
  BY <1>1, <1>4, <1>9, <1>10, <1>11, Early DEF RowsWritten, Imaged

\* All the musics are listed.
LEMMA MusicsListedStep == Fit /\ Inv /\ MusicsListed => Safe'
<1> SUFFICES ASSUME Fit, Inv, MusicsListed PROVE Safe'
  OBVIOUS
<1>1. Base'
  BY DEF Inv, Base, MusicsListed, At, Phases, InPlaylists, lists
<1>2. /\ phase = "list musics" /\ phase' = "open images" /\ card' = card /\ failed' = failed
      /\ dir = Len(card.musics) /\ musics' = musics /\ n_musics' = Len(musics) /\ ~stray'
  BY DEF MusicsListed, At
<1>3. MusicsFound'
  BY <1>2 DEF Inv, MusicsFound, Known, InPlaylists
<1>4. phase' \in Phases /\ phase' \notin InPlaylists \cup {"open playlists"}
  BY <1>2 DEF Phases, InPlaylists
<1> QED
  BY <1>1, <1>2, <1>3, <1>4, Early DEF RowsWritten, Imaged

\* The directory of the images opens or not.
LEMMA OpenImagesStep == Fit /\ Inv /\ OpenImages => Safe'
<1> SUFFICES ASSUME Fit, Inv, OpenImages PROVE Safe'
  OBVIOUS
<1>1. Base'
  BY DEF Inv, Base, OpenImages, At, Phases, InPlaylists, disk, lists, Fails
<1>2. /\ phase = "open images" /\ card' = card /\ dir' = 0 /\ musics' = musics /\ n_musics' = n_musics
      /\ ~stray' /\ phase' \in {"list images", "all musics"}
      /\ ("musics" \in failed' <=> "musics" \in failed)
      /\ (phase' = "all musics" => "images" \in failed')
  BY DEF Inv, Base, OpenImages, At, disk, Fails
<1>3. MusicsFound'
  BY <1>2 DEF Inv, MusicsFound, Known, InPlaylists
<1>4. RowsWritten'
  <2>1. Len(card'.images) \in Nat
    BY <1>2, CardIs DEF Inv
  <2>2. dir' = 0
    BY <1>2
  <2>3. 0 .. dir' - 1 = {}
    BY <2>2
  <2>4. dir' <= Len(card'.images)
    BY <2>1, <2>2
  <2> QED
    BY <2>3, <2>4 DEF RowsWritten
<1>5. phase' \in Phases /\ phase' \notin InPlaylists \cup {"open playlists"}
  BY <1>2 DEF Phases, InPlaylists
<1> QED
  BY <1>1, <1>2, <1>3, <1>4, <1>5, Early DEF Imaged

\* One more image: its row is written, and no other but for the terminator of a full one.
LEMMA ListImageStep == Fit /\ Inv /\ ListImage => Safe'
<1> SUFFICES ASSUME Fit, Inv, ListImage PROVE Safe'
  OBVIOUS
<1> DEFINE name == Image(dir)
           Cell(c) == Row(dir) <= c /\ c < Row(dir) + Len(name)
           written == [c \in DOMAIN img_names |->
                         IF Cell(c) THEN name[c - Row(dir) + 1]
                         ELSE IF c = Row(dir) + Len(name) THEN NUL ELSE img_names[c]]
<1>1. /\ phase = "list images" /\ phase' = phase /\ card' = card /\ failed' = failed
      /\ dir' = dir + 1 /\ dir < Len(card.images) /\ musics' = musics /\ n_musics' = n_musics
      /\ pos' = pos /\ cursor' = cursor /\ buffer' = buffer /\ unopened' = unopened
  BY DEF ListImage, At, lists
<1>2. img_names' = written
  BY DEF ListImage, Image
<1>3. stray' <=> Row(dir) + Len(name) \notin DOMAIN img_names
  BY DEF ListImage, Image
<1>4. /\ dir \in Nat /\ Len(card.images) \in Nat /\ Len(card.images) <= MaxMusics /\ MaxMusics \in Nat
      /\ NameLen \in Nat /\ NameLen > 0
  BY CardIs, LibraryAssumption DEF Inv, Base
<1>5. dir < Len(card.images) /\ dir + 1 \in 1 .. Len(card.images) /\ dir < MaxMusics /\ dir + 1 <= MaxMusics
  <2>1. dir < Len(card.images)
    BY <1>1
  <2> QED
    BY <1>4, <2>1
<1>6. \A j \in 0 .. dir : Len(Image(j)) \in Nat /\ Len(Image(j)) <= NameLen
  <2>1. ASSUME NEW j \in 0 .. dir PROVE Len(Image(j)) \in Nat /\ Len(Image(j)) <= NameLen
    <3>1. j + 1 \in 1 .. Len(card.images)
      BY <1>4, <1>5
    <3>2. card.images[j + 1] \in Seq(Chars)
      BY <3>1, CardIs DEF Inv
    <3> QED
      BY <3>2, NamedIs DEF Image
  <2> QED
    BY <2>1
<1>7. Len(name) \in Nat /\ Len(name) <= NameLen
  BY <1>4, <1>6
<1> HIDE DEF name
<1>8. Row(dir) \in Nat /\ Row(dir) + NameLen <= MaxMusics * NameLen /\ MaxMusics * NameLen \in Nat
  <2>1. Row(dir) \in Nat /\ Row(MaxMusics) \in Nat /\ Row(dir) + NameLen <= Row(MaxMusics)
    BY <1>4, <1>5, Rows
  <2> QED
    BY <2>1 DEF Row
<1>9. DOMAIN img_names = 0 .. MaxMusics * NameLen - 1 /\ DOMAIN img_names' = DOMAIN img_names
  BY <1>2 DEF Inv, Base
<1>10. Base'
  <2>1. dir + 1 \in Nat
    BY <1>4
  <2>2. phase' # "open playlists" /\ phase' # "open images" /\ phase' # "open musics"
    BY <1>1
  <2> QED
    BY <1>1, <1>9, <2>1, <2>2 DEF Inv, Base
<1>11. MusicsFound'
  BY <1>1 DEF Inv, MusicsFound, Known
<1>12. phase' \in Phases /\ phase' \notin InPlaylists \cup {"open playlists"}
  BY <1>1 DEF Phases, InPlaylists
<1>13. CASE stray'
  <2>1. Row(dir) + Len(name) \notin 0 .. MaxMusics * NameLen - 1
    BY <1>3, <1>9, <1>13
  <2>2. Len(name) = NameLen /\ Row(dir) + NameLen = MaxMusics * NameLen
    <3> HIDE DEF Row
    <3> PICK b : b = MaxMusics * NameLen
      OBVIOUS
    <3> QED
      BY <1>4, <1>7, <1>8, <2>1
  <2>3. dir + 1 = MaxMusics
    <3> SUFFICES ASSUME dir + 1 < MaxMusics PROVE FALSE
      BY <1>4, <1>5
    <3>1. Row(dir) + NameLen <= Row(dir + 1) /\ Row(dir + 1) + NameLen <= Row(MaxMusics) /\ Row(dir + 1) \in Nat
      BY <1>4, Rows
    <3>2. Row(MaxMusics) = MaxMusics * NameLen
      BY DEF Row
    <3> QED
      BY <1>4, <1>8, <2>2, <3>1, <3>2
  <2>4. Len(Named(card.images[dir + 1])) = NameLen
    BY <2>2 DEF name, Image
  <2>5. phase' = "list images" /\ dir' = MaxMusics /\ Len(Named(card'.images[dir'])) = NameLen
    BY <1>1, <2>3, <2>4
  <2> QED
    BY <1>13, <2>5 DEF Safe, NoStray
<1>14. CASE ~stray'
  <2>1. Row(dir) + Len(name) \in DOMAIN img_names
    BY <1>3, <1>14
  <2>2. \A d \in Nat : d <= Len(name) => Row(dir) + d \in DOMAIN img_names
    BY <1>7, <1>8, <1>9, <2>1
  <2>3. ASSUME NEW k \in 1 .. Len(name) PROVE img_names'[Row(dir) + k - 1] = name[k]
    <3>1. /\ k - 1 \in Nat /\ k - 1 <= Len(name) /\ Row(dir) + (k - 1) = Row(dir) + k - 1
          /\ Row(dir) <= Row(dir) + k - 1 /\ Row(dir) + k - 1 < Row(dir) + Len(name)
      BY <1>7, <1>8
    <3>2. Row(dir) + k - 1 \in DOMAIN img_names /\ Cell(Row(dir) + k - 1)
      BY <2>2, <3>1
    <3>3. PICK c : c = Row(dir) + k - 1
      OBVIOUS
    <3> HIDE DEF Cell
    <3>4. c - Row(dir) + 1 = k
      BY <1>8, <3>3
    <3>5. c \in DOMAIN img_names /\ Cell(c)
      BY <3>2, <3>3
    <3>6. img_names'[c] = name[c - Row(dir) + 1]
      BY <1>2, <3>5
    <3> QED
      BY <3>3, <3>4, <3>6
  <2>4. img_names'[Row(dir) + Len(name)] = NUL
    <3>1. ~Cell(Row(dir) + Len(name))
      BY <1>7, <1>8
    <3> HIDE DEF Cell
    <3> QED
      BY <1>2, <2>1, <3>1
  <2>5. ASSUME NEW c \in Nat, c < Row(dir) PROVE img_names'[c] = img_names[c]
    <3>1. c \in DOMAIN img_names /\ ~Cell(c) /\ c # Row(dir) + Len(name)
      BY <1>4, <1>7, <1>8, <1>9, <2>5
    <3> HIDE DEF Cell
    <3> QED
      BY <1>2, <3>1
  <2>6. \A j : Image(j)' = Image(j) /\ Row(j)' = Row(j) /\ \A d : EndHeld(j, d)' = EndHeld(j, d)
    BY <1>1 DEF Image, Row, EndHeld
  <2>7. ASSUME NEW j \in 0 .. dir
        PROVE  HoldsImage(j)' /\ (EndHeld(j, dir + 1) => HoldsEnd(j)')
    <3>1. CASE j = dir
      <4>1. /\ \A k \in 1 .. Len(Image(j)) : img_names'[Row(j) + k - 1] = Image(j)[k]
            /\ Row(j) + Len(Image(j)) \in DOMAIN img_names'
            /\ img_names'[Row(j) + Len(Image(j))] = NUL
        BY <1>9, <2>1, <2>3, <2>4, <3>1 DEF name
      <4> QED
        BY <2>6, <4>1 DEF HoldsImage, HoldsEnd
    <3>2. CASE j # dir
      <4> DEFINE w == Image(j)
      <4>1. j \in Nat /\ j < dir /\ j \in 0 .. dir - 1
        BY <1>4, <3>2
      <4>2. HoldsImage(j) /\ (EndHeld(j, dir) => HoldsEnd(j))
        BY <1>1, <4>1 DEF Inv, RowsWritten
      <4>3. Row(j) \in Nat /\ Row(j) + NameLen <= Row(dir)
        BY <1>4, <4>1, Rows
      <4>4. Len(w) \in Nat /\ Len(w) <= NameLen
        BY <1>6
      <4>5. /\ \A k \in 1 .. Len(w) : img_names[Row(j) + k - 1] = w[k]
            /\ Row(j) + Len(w) \in DOMAIN img_names
        BY <4>2 DEF HoldsImage
      <4> HIDE DEF w
      <4>6. ASSUME NEW k \in 1 .. Len(w) PROVE img_names'[Row(j) + k - 1] = w[k]
        <5>1. Row(j) + k - 1 \in Nat /\ Row(j) + k - 1 < Row(dir)
          BY <1>4, <1>8, <4>3, <4>4
        <5> QED
          BY <2>5, <4>5, <5>1
      <4>7. HoldsImage(j)'
        <5>1. /\ \A k \in 1 .. Len(w) : img_names'[Row(j) + k - 1] = w[k]
              /\ Row(j) + Len(w) \in DOMAIN img_names'
          BY <1>9, <4>5, <4>6
        <5> QED
          BY <2>6, <5>1 DEF HoldsImage, w
      <4>8. ASSUME EndHeld(j, dir + 1) PROVE img_names'[Row(j) + Len(w)] = NUL
        <5>1. CASE Len(w) < NameLen \/ j + 1 < dir
          <6>1. EndHeld(j, dir)
            BY <1>4, <4>1, <4>8, <5>1 DEF EndHeld, w
          <6>2. img_names[Row(j) + Len(w)] = NUL
            BY <4>2, <6>1 DEF HoldsEnd, w
          <6>3. Row(j) + Len(w) \in Nat /\ Row(j) + Len(w) < Row(dir)
            <7>1. CASE Len(w) < NameLen
              BY <1>4, <1>8, <4>3, <4>4, <7>1
            <7>2. CASE j + 1 < dir
              <8>1. Row(j) + NameLen <= Row(j + 1) /\ Row(j + 1) + NameLen <= Row(dir) /\ Row(j + 1) \in Nat
                BY <1>4, <4>1, <7>2, Rows
              <8> QED
                BY <1>4, <1>8, <4>3, <4>4, <8>1
            <7> QED
              BY <5>1, <7>1, <7>2
          <6> QED
            BY <2>5, <6>2, <6>3
        <5>2. CASE Len(w) = NameLen /\ j + 1 = dir
          <6>1. name = <<>>
            <7>1. j + 1 # dir + 1
              BY <1>4, <5>2
            <7>2. Image(j + 1) = <<>>
              BY <1>4, <4>4, <4>8, <5>2, <7>1 DEF EndHeld, w
            <7> QED
              BY <5>2, <7>2 DEF name
          <6>2. Row(j) + Len(w) = Row(dir) + Len(name)
            <7>1. Len(name) = 0
              BY <6>1
            <7>2. Row(dir) = Row(j) + NameLen
              BY <1>4, <4>1, <5>2 DEF Row
            <7> QED
              BY <1>8, <5>2, <7>1, <7>2
          <6> QED
            BY <2>4, <6>2
        <5> QED
          BY <1>4, <4>1, <4>4, <5>1, <5>2
      <4>9. EndHeld(j, dir + 1) => HoldsEnd(j)'
        BY <2>6, <4>8 DEF HoldsEnd, w
      <4> QED
        BY <4>7, <4>9
    <3> QED
      BY <3>1, <3>2
  <2>8. RowsWritten'
    <3>1. dir' <= Len(card'.images)
      <4>1. dir + 1 <= Len(card.images)
        BY <1>4, <1>5
      <4> QED
        BY <1>1, <4>1
    <3>2. dir' = dir + 1 /\ \A j \in 0 .. dir' - 1 : j \in 0 .. dir
      <4>1. dir' = dir + 1
        BY <1>1
      <4>2. dir' - 1 = dir
        BY <1>4, <4>1
      <4> QED
        BY <4>1, <4>2
    <3>3. ASSUME NEW j \in 0 .. dir' - 1 PROVE HoldsImage(j)' /\ (EndHeld(j, dir)' => HoldsEnd(j)')
      <4>1. HoldsImage(j)' /\ (EndHeld(j, dir + 1) => HoldsEnd(j)')
        BY <2>7, <3>2
      <4>2. EndHeld(j, dir)' <=> EndHeld(j, dir + 1)
        BY <1>1, <2>6 DEF EndHeld
      <4> QED
        BY <4>1, <4>2
    <3> QED
      BY <3>1, <3>3 DEF RowsWritten
  <2> QED
    BY <1>1, <1>10, <1>11, <1>12, <1>14, <2>8, Early DEF Imaged
<1> QED
  BY <1>13, <1>14

\* A music has an image when there is one of its name.
LEMMA CheckImagesStep == Fit /\ Inv /\ CheckImages => Safe'
<1> SUFFICES ASSUME Fit, Inv, CheckImages PROVE Safe'
  OBVIOUS
<1>1. /\ phase = "list images" /\ phase' = "all musics" /\ card' = card /\ failed' = failed
      /\ dir = Len(card.images) /\ dir' = dir /\ pos' = pos /\ cursor' = cursor
      /\ img_names' = img_names /\ buffer' = buffer /\ n_musics' = n_musics /\ unopened' = unopened
  BY DEF CheckImages, At, disk, lists
<1>2. ~stray'
  BY DEF CheckImages, At
<1>3. musics' = [m \in DOMAIN musics |->
        [musics[m] EXCEPT !.has_img = \E j \in 0 .. dir - 1 : strequ(musics[m].name, img_names, Row(j))]]
  BY DEF CheckImages
<1> DEFINE T == [name : Seq(Chars), has_img : BOOLEAN]
<1>4. /\ musics \in Seq(T) /\ Len(musics) <= Len(card.musics)
      /\ \A m \in DOMAIN musics : musics[m].name = Named(card.musics[m])
  BY DEF Inv, MusicsFound
<1>5. /\ musics' \in Seq(T) /\ Len(musics') = Len(musics) /\ DOMAIN musics' = DOMAIN musics
      /\ DOMAIN musics = 1 .. Len(musics)
      /\ \A m \in DOMAIN musics :
           /\ musics[m].name \in Seq(Chars) /\ musics'[m].name = musics[m].name
           /\ musics'[m].has_img <=> \E j \in 0 .. dir - 1 : strequ(musics[m].name, img_names, Row(j))
  <2> DEFINE H(m) == \E j \in 0 .. dir - 1 : strequ(musics[m].name, img_names, Row(j))
  <2>1. \A m \in DOMAIN musics : H(m) \in BOOLEAN
    BY Zenon
  <2>2. musics' = [m \in DOMAIN musics |-> [musics[m] EXCEPT !.has_img = H(m)]]
    BY <1>3
  <2>3. DOMAIN musics = 1 .. Len(musics) /\ Len(musics) \in Nat
    BY <1>4
  <2>4. \A m \in DOMAIN musics : musics[m] \in T
    BY <1>4, <2>3, Item
  <2> HIDE DEF H
  <2>5. ASSUME NEW m \in DOMAIN musics
        PROVE  /\ musics[m].name \in Seq(Chars) /\ musics'[m] \in T
               /\ musics'[m].name = musics[m].name
    <3>1. musics'[m] = [musics[m] EXCEPT !.has_img = H(m)] /\ musics[m] \in T /\ H(m) \in BOOLEAN
      BY <2>1, <2>2, <2>4
    <3> QED
      BY <3>1
  <2>6. ASSUME NEW m \in DOMAIN musics PROVE musics'[m].has_img <=> H(m)
    <3>1. musics'[m] = [musics[m] EXCEPT !.has_img = H(m)] /\ musics[m] \in T
      BY <2>2, <2>4
    <3> QED
      BY <3>1
  <2>7. DOMAIN musics' = 1 .. Len(musics)
    BY <2>2, <2>3
  <2> HIDE DEF T
  <2>8. musics' = [m \in 1 .. Len(musics) |-> musics'[m]] /\ \A m \in 1 .. Len(musics) : musics'[m] \in T
    BY <2>2, <2>3, <2>5, <2>7
  <2>9. musics' \in Seq(T) /\ Len(musics') = Len(musics)
    BY <2>3, <2>7, <2>8
  <2> QED
    BY <2>3, <2>5, <2>6, <2>7, <2>9 DEF H
<1>6. Base'
  BY <1>1 DEF Inv, Base, Phases, InPlaylists
<1>7. MusicsFound'
  <2>1. \A m \in DOMAIN musics' : musics'[m].name = Named(card'.musics[m])
    BY <1>1, <1>4, <1>5
  <2>2. /\ failed' = failed /\ phase \notin {"open musics", "list musics"} /\ n_musics' = n_musics
        /\ (musics = <<>> => musics' = <<>>)
    <3>1. musics = <<>> => musics' = <<>>
      BY <1>5
    <3> QED
      BY <1>1, <3>1
  <2>3. IF Known THEN n_musics = Len(card.musics) /\ Len(musics) = n_musics
                 ELSE musics = <<>> /\ n_musics = Failed
    BY <2>2 DEF Inv, MusicsFound
  <2> HIDE DEF T
  <2>4. Known' <=> Known
    BY <1>1 DEF Known
  <2>5. IF Known' THEN n_musics' = Len(card'.musics) /\ Len(musics') = n_musics'
                  ELSE musics' = <<>> /\ n_musics' = Failed
    BY <1>1, <1>5, <2>2, <2>3, <2>4, Zenon
  <2>6. phase' \notin {"open musics", "list musics"}
    BY <1>1
  <2>7. musics' \in Seq(T) /\ Len(musics') <= Len(card'.musics)
    BY <1>1, <1>4, <1>5, Zenon
  <2>8. phase' # "open musics" /\ phase' # "list musics" /\ phase' \notin InPlaylists \cup {"open playlists"}
    BY <1>1 DEF InPlaylists
  <2> QED
    BY <2>1, <2>5, <2>7, <2>8, Zenon DEF MusicsFound, T
<1>8. Imaged'
  <2>1. /\ card.images \in Seq(Seq(Chars)) /\ Len(card.images) \in Nat /\ Len(card.images) <= MaxMusics
        /\ NameLen \in Nat /\ MaxMusics \in Nat
        /\ \A j \in 1 .. Len(card.images) : card.images[j] \in Seq(Chars)
    BY CardIs, LibraryAssumption DEF Inv
  <2>6. dir = Len(card.images)
    BY <1>1
  <2>7. dir \in Nat /\ dir <= MaxMusics /\ MaxMusics \in Nat
    BY <2>1, <2>6, Zenon
  <2>8. \A j \in 0 .. dir - 1 : Image(j) \in Seq(Chars) /\ Len(Image(j)) \in Nat /\ Len(Image(j)) <= NameLen
    <3>1. ASSUME NEW j \in 0 .. dir - 1
          PROVE  Image(j) \in Seq(Chars) /\ Len(Image(j)) \in Nat /\ Len(Image(j)) <= NameLen
      <4>1. j + 1 \in 1 .. dir
        BY <2>7
      <4>2. card.images[j + 1] \in Seq(Chars)
        BY <2>1, <2>6, <4>1, Zenon
      <4> QED
        BY <4>2, NamedIs DEF Image
    <3> QED
      BY <3>1
  <2>2. ASSUME NEW name \in Seq(Chars), Len(name) <= NameLen, NEW j \in 0 .. dir - 1
        PROVE  strequ(name, img_names, Row(j)) <=> Image(j) = name /\ EndHeld(j, dir)
    <3> DEFINE w == Image(j)
    <3>1. HoldsImage(j) /\ (EndHeld(j, dir) => HoldsEnd(j))
      BY <1>1 DEF Inv, RowsWritten
    <3>2. w \in Seq(Chars) /\ Len(w) \in Nat /\ Len(w) <= NameLen
      BY <2>8
    <3>3. /\ \A k \in 1 .. Len(w) : img_names[Row(j) + k - 1] = w[k]
          /\ Row(j) + Len(w) \in DOMAIN img_names
      BY <3>1 DEF HoldsImage
    <3>4. Row(j) \in Nat /\ MaxMusics * NameLen \in Nat
      <4>1. j \in Nat /\ j < MaxMusics
        BY <2>7
      <4>2. Row(j) \in Nat /\ Row(MaxMusics) \in Nat
        BY <2>1, <4>1, Rows
      <4> QED
        BY <4>2 DEF Row
    <3>5. DOMAIN img_names = 0 .. MaxMusics * NameLen - 1
      BY DEF Inv, Base
    <3>6. ASSUME NEW k \in 1 .. Len(w) PROVE Row(j) + k - 1 \in DOMAIN img_names
      <4> HIDE DEF w
      <4> QED
        BY <3>2, <3>3, <3>4, <3>5
    <3>7. CASE EndHeld(j, dir)
      <4>1. img_names[Row(j) + Len(w)] = NUL
        BY <3>1, <3>7 DEF HoldsEnd
      <4> HIDE DEF w
      <4>2. strequ(name, img_names, Row(j)) <=> name = w
        BY <3>2, <3>3, <3>4, <3>6, <4>1, Compared
      <4> QED
        BY <3>7, <4>2 DEF w
    <3>8. CASE ~EndHeld(j, dir)
      <4> DEFINE v == Image(j + 1)
      <4>1. Len(w) = NameLen /\ j + 1 # dir /\ v # <<>>
        BY <2>1, <3>2, <3>8 DEF EndHeld
      <4>2. j + 1 \in 0 .. dir - 1
        BY <2>7, <4>1
      <4>3. v \in Seq(Chars) /\ Len(v) \in Nat
        BY <2>8, <4>2
      <4>4. HoldsImage(j + 1)
        BY <1>1, <4>2 DEF Inv, RowsWritten
      <4>5. \A k \in 1 .. Len(v) : img_names[Row(j + 1) + k - 1] = v[k]
        BY <4>4 DEF HoldsImage
      <4> HIDE DEF v, w
      <4>6. 1 \in 1 .. Len(v) /\ v[1] \in Chars
        BY <4>1, <4>3
      <4>7. Row(j + 1) + 1 - 1 = Row(j) + Len(w)
        BY <2>1, <2>7, <4>1 DEF Row
      <4>8. img_names[Row(j) + Len(w)] \in Chars
        BY <4>5, <4>6, <4>7
      <4>9. ~strequ(name, img_names, Row(j))
        BY <2>2, <3>2, <3>3, <3>4, <3>6, <4>1, <4>8, Unended
      <4> QED
        BY <3>8, <4>9
    <3> QED
      BY <3>7, <3>8
  <2>9. \A j \in 0 .. dir - 1 : EndHeld(j, dir) <=> Ended(j + 1)
    <3>1. ASSUME NEW j \in 0 .. dir - 1 PROVE EndHeld(j, dir) <=> Ended(j + 1)
      BY <2>6 DEF EndHeld, Ended, Image
    <3> QED
      BY <3>1
  <2>3. ASSUME NEW m \in DOMAIN musics
        PROVE  musics'[m].has_img <=>
                 \E j \in DOMAIN card.images : Named(card.images[j]) = musics[m].name /\ Ended(j)
    <3> DEFINE name == musics[m].name
    <3>1. name \in Seq(Chars) /\ Len(name) <= NameLen
      <4>1. name = Named(card.musics[m]) /\ card.musics \in Seq(Seq(Chars)) /\ m \in 1 .. Len(card.musics)
        <5>1. card.musics \in Seq(Seq(Chars)) /\ Len(card.musics) \in Nat
          BY CardIs DEF Inv
        <5>2. Len(musics) \in Nat /\ Len(musics) <= Len(card.musics) /\ m \in 1 .. Len(musics)
          BY <1>4, <1>5
        <5> QED
          BY <1>4, <5>1, <5>2
      <4>2. card.musics[m] \in Seq(Chars)
        BY <4>1, Item, Zenon
      <4> QED
        BY <4>1, <4>2, NamedIs
    <3>2. musics'[m].has_img <=> \E j \in 0 .. dir - 1 : strequ(name, img_names, Row(j))
      BY <1>5
    <3> HIDE DEF name
    <3>3. \A j \in 0 .. dir - 1 :
            strequ(name, img_names, Row(j)) <=> Named(card.images[j + 1]) = name /\ Ended(j + 1)
      BY <2>2, <2>9, <3>1 DEF Image
    <3>4. (\E j \in 0 .. dir - 1 : Named(card.images[j + 1]) = name /\ Ended(j + 1))
          <=> \E j \in 1 .. dir : Named(card.images[j]) = name /\ Ended(j)
      <4>1. dir \in Nat
        BY <2>7
      <4>2. ASSUME NEW j \in 1 .. dir, Named(card.images[j]) = name /\ Ended(j)
            PROVE  \E i \in 0 .. dir - 1 : Named(card.images[i + 1]) = name /\ Ended(i + 1)
        <5>1. j - 1 \in 0 .. dir - 1 /\ j - 1 + 1 = j
          BY <4>1
        <5>2. Named(card.images[j - 1 + 1]) = name /\ Ended(j - 1 + 1)
          BY <4>2, <5>1
        <5> QED
          BY <5>1, <5>2
      <4>3. \A j \in 0 .. dir - 1 : j + 1 \in 1 .. dir
        BY <4>1
      <4> QED
        BY <4>2, <4>3
    <3>5. DOMAIN card.images = 1 .. dir
      BY <2>1, <2>6
    <3>6. (\E j \in 0 .. dir - 1 : strequ(name, img_names, Row(j)))
          <=> \E j \in DOMAIN card.images : Named(card.images[j]) = name /\ Ended(j)
      BY <3>3, <3>4, <3>5
    <3> QED
      BY <3>2, <3>6, Zenon DEF name
  <2>4. /\ DOMAIN musics' = DOMAIN musics /\ card' = card
        /\ \A m \in DOMAIN musics : musics'[m].name = musics[m].name
    BY <1>1, <1>5
  <2>10. \A j : Ended(j)' <=> Ended(j)
    BY <2>4 DEF Ended
  <2>5. ASSUME NEW m \in DOMAIN musics'
        PROVE  musics'[m].has_img <=>
                 \E j \in DOMAIN card'.images : Named(card'.images[j]) = musics'[m].name /\ Ended(j)'
    <3>1. m \in DOMAIN musics /\ musics'[m].name = musics[m].name
      BY <2>4
    <3>2. musics'[m].has_img <=>
            \E j \in DOMAIN card'.images : Named(card'.images[j]) = musics'[m].name /\ Ended(j)
      BY <2>3, <2>4, <3>1, Zenon
    <3> QED
      BY <2>10, <3>2
  <2> QED
    BY <2>5, Zenon DEF Imaged
<1>9. phase' \in Phases /\ phase' \notin InPlaylists \cup {"open playlists"}
  BY <1>1 DEF Phases, InPlaylists
<1> QED
  BY <1>1, <1>2, <1>6, <1>7, <1>8, <1>9, Early DEF RowsWritten

\* Once the images are known, a step that keeps the musics keeps where they have an image.
LEMMA Late ==
  ASSUME Inv, phase \in InPlaylists \cup {"all musics", "open playlists"}, phase' # "list images",
         card' = card, musics' = musics, "images" \in failed' <=> "images" \in failed,
         ~stray', Base', MusicsFound', ListsMade', ListsFilled', LineRead'
  PROVE  Safe'
<1>1. Imaged'
  BY DEF Inv, Imaged, InPlaylists, Ended
<1>2. RowsWritten' /\ NoStray'
  BY DEF RowsWritten, NoStray
<1> QED
  BY <1>1, <1>2 DEF Safe, Inv

\* The playlist of all the musics, which are not more than fit when they could be read.
LEMMA AllMusicsStep == Fit /\ Inv /\ AllMusics => Safe'
<1> SUFFICES ASSUME Fit, Inv, AllMusics PROVE Safe'
  OBVIOUS
<1>1. /\ phase = "all musics" /\ card' = card /\ failed' = failed /\ dir' = 0 /\ pos' = pos
      /\ cursor' = cursor /\ img_names' = img_names /\ buffer' = buffer /\ n_musics' = n_musics
      /\ musics' = musics /\ phase' \in {"No music found", "SD card error", "open playlists"}
      /\ (phase' = "open playlists" => n_musics # 0) /\ playlists' = <<All>> /\ unopened' = unopened
  BY DEF AllMusics, At, All
<1>2. stray' <=> n_musics > MaxMusics
  BY DEF AllMusics
<1>3. IF Known THEN n_musics = Len(card.musics) /\ Len(musics) = n_musics
               ELSE musics = <<>> /\ n_musics = Failed
  BY <1>1 DEF Inv, MusicsFound
<1>4. /\ Len(card.musics) \in Nat /\ Len(card.musics) <= MaxMusics /\ MaxMusics \in Nat
      /\ MaxMusics < Failed /\ Failed \in Nat
  BY CardIs, LibraryAssumption DEF Inv, Failed
<1>5. CASE stray'
  <2>1. ~Known
    BY <1>2, <1>3, <1>4, <1>5
  <2> QED
    BY <1>1, <1>5, <2>1 DEF Safe, NoStray, Known
<1>6. CASE ~stray'
  <2>1. Known
    BY <1>2, <1>3, <1>4, <1>6
  <2>2. Base'
    BY <1>1 DEF Inv, Base, Phases, InPlaylists
  <2>9. n_musics \in Nat
    BY <1>3, <1>4, <2>1
  <2>3. phase' = "open playlists" => n_musics > 0
    <3>1. \A k \in Nat : k # 0 => k > 0
      OBVIOUS
    <3>2. phase' = "open playlists" => n_musics # 0
      BY <1>1
    <3> QED
      BY <2>9, <3>1, <3>2, Zenon
  <2>4. MusicsFound'
    BY <1>1, <2>1, <2>3 DEF Inv, MusicsFound, Known, InPlaylists
  <2>5. ListsMade'
    BY <1>1 DEF ListsMade, All
  <2>6. ListsFilled'
    <3> SUFFICES ASSUME n_musics > 0 PROVE \A p \in DOMAIN <<All>> : <<All>>[p].musics # <<>>
      BY <1>1, <2>3 DEF ListsFilled, InPlaylists
    <3>1. All.musics # <<>>
      <4>1. 1 \in 1 .. n_musics
        BY <1>3, <1>4, <2>1
      <4>2. 1 \in DOMAIN All.musics
        BY <4>1 DEF All
      <4> QED
        BY <4>2, Empty
    <3> HIDE DEF All
    <3>2. <<All>> = [p \in 1 .. 1 |-> All]
      OBVIOUS
    <3> QED
      BY <3>1, <3>2
  <2>7. LineRead'
    BY <1>1 DEF LineRead
  <2>8. phase' # "list images" /\ phase \in InPlaylists \cup {"all musics", "open playlists"}
    BY <1>1
  <2> QED
    BY <1>1, <1>6, <2>2, <2>4, <2>5, <2>6, <2>7, <2>8, Late
<1> QED
  BY <1>5, <1>6

\* The directory of the playlists opens or not.
LEMMA OpenPlaylistsStep == Fit /\ Inv /\ OpenPlaylists => Safe'
<1> SUFFICES ASSUME Fit, Inv, OpenPlaylists PROVE Safe'
  OBVIOUS
<1>1. /\ phase = "open playlists" /\ card' = card /\ dir = 0 /\ dir' = 0 /\ pos' = pos
      /\ cursor' = cursor /\ img_names' = img_names /\ buffer' = buffer /\ n_musics' = n_musics
      /\ musics' = musics /\ phase' \in {"list playlists", "menu"} /\ playlists' = playlists
      /\ ("musics" \in failed' <=> "musics" \in failed)
      /\ ("images" \in failed' <=> "images" \in failed)
      /\ (phase' = "list playlists" => failed' = failed)
      /\ (phase' = "menu" => "playlists" \in failed' /\ n_playlists' = Failed + 1)
      /\ unopened' = unopened /\ unopened = {} /\ ~stray'
  BY DEF OpenPlaylists, At, disk, Inv, Base, InPlaylists, Fails
<1>2. Base'
  BY <1>1 DEF Inv, Base, Phases, InPlaylists
<1>3. MusicsFound'
  BY <1>1 DEF Inv, MusicsFound, Known, InPlaylists
<1>4. playlists = <<All>> /\ All' = All
  BY <1>1 DEF Inv, ListsMade, All
<1>5. ListsMade'
  <2> DEFINE E == Expected(card, unopened)
             N == Len(card.playlists)
  <2>1. N \in Nat /\ E[0] = <<>> /\ IsSeq(<<>>)
    <3>1. N \in Nat
      BY CardIs DEF Inv
    <3>2. E[0] = <<>> /\ \A p \in 0 .. N : IsSeq(E[p])
      BY <3>1, ExpectedIs, Zenon
    <3> HIDE DEF N, E
    <3>3. 0 \in 0 .. N
      BY <3>1
    <3> QED
      BY <3>1, <3>2, <3>3
  <2> HIDE DEF All, E
  <2>2. /\ IsSeq(<<All>> \o <<>>) /\ <<All>> \o <<>> = <<All>> /\ Len(<<All>>) = 1
    BY <2>1, Headed
  <2>3. IsSeq(playlists') /\ playlists' = <<All'>> \o E[dir'] /\ Len(playlists') = 1
    BY <1>1, <1>4, <2>1, <2>2
  <2>4. dir' <= Len(card'.playlists) /\ Len(playlists') <= dir' + 1
    <3>1. card' = card /\ dir' = 0
      BY <1>1
    <3>2. dir' <= Len(card'.playlists)
      BY <2>1, <3>1
    <3>3. Len(playlists') = 1
      BY <2>3
    <3>4. Len(playlists') <= dir' + 1
      BY <3>1, <3>3
    <3> QED
      BY <3>2, <3>4
  <2>5. phase' # "open playlists" /\ phase' # "read playlist" /\ unopened' \subseteq 1 .. dir'
    BY <1>1
  <2>6. E = Expected(card', unopened')
    BY <1>1 DEF E
  <2>7. playlists' = <<All'>>
    BY <1>1, <1>4
  <2> QED
    BY <1>1, <2>3, <2>4, <2>5, <2>6, <2>7, Zenon DEF ListsMade
<1>6. ListsFilled'
  BY <1>1 DEF Inv, ListsFilled
<1>7. LineRead'
  BY <1>1 DEF LineRead
<1>8. phase' # "list images" /\ phase \in InPlaylists \cup {"all musics", "open playlists"}
  BY <1>1
<1> QED
  BY <1>1, <1>2, <1>3, <1>5, <1>6, <1>7, <1>8, Late

\* The elements of a longer sequence.
LEMMA Appended ==
  ASSUME NEW s, IsSeq(s), NEW e
  PROVE  /\ Len(s) \in Nat /\ DOMAIN s = 1 .. Len(s) /\ DOMAIN Append(s, e) = 1 .. Len(s) + 1
         /\ \A k \in 1 .. Len(s) + 1 :
              \/ k = Len(s) + 1 /\ Append(s, e)[k] = e
              \/ k \in 1 .. Len(s) /\ Append(s, e)[k] = s[k]
<1>1. PICK T : s \in Seq(T) /\ e \in T
  <2>1. PICK T : s \in Seq(T)
    BY DEF IsSeq
  <2>2. s \in Seq(T \cup {e}) /\ e \in T \cup {e}
    BY <2>1
  <2> QED
    BY <2>2
<1> QED
  BY <1>1

\* The next file gives a playlist to read, one that did not open, or none.
LEMMA CreatePlaylistStep == Fit /\ Inv /\ CreatePlaylist => Safe'
<1> SUFFICES ASSUME Fit, Inv, CreatePlaylist PROVE Safe'
  OBVIOUS
<1> DEFINE file == card.playlists[dir + 1]
           new == [name |-> Copied(file.name), musics |-> <<>>]
           N == Len(card.playlists)
           E == Expected(card, unopened)
           Passed == Len(file.name) = BugLen /\ phase' = phase /\ playlists' = playlists
                     /\ pos' = pos /\ cursor' = cursor /\ unopened' = unopened
           Unread == /\ Len(file.name) # BugLen /\ phase' = phase /\ playlists' = Append(playlists, new)
                     /\ pos' = pos /\ cursor' = cursor /\ unopened' = unopened \cup {dir + 1}
           Begun == /\ Len(file.name) # BugLen /\ phase' = "read playlist" /\ playlists' = playlists
                    /\ open' = new /\ pos' = 0 /\ cursor' = 0 /\ unopened' = unopened
<1>1. /\ phase = "list playlists" /\ card' = card /\ dir' = dir + 1 /\ dir < N /\ failed' = failed
      /\ img_names' = img_names /\ buffer' = buffer /\ n_musics' = n_musics /\ musics' = musics
  BY DEF CreatePlaylist, At
<1>2. stray' => Len(playlists) = MaxFiles
  BY DEF CreatePlaylist
<1>3. Passed \/ Unread \/ Begun
  BY DEF CreatePlaylist
<1>4. N \in Nat /\ N < MaxFiles /\ MaxFiles \in Nat /\ dir \in Nat
  BY CardIs, LibraryAssumption DEF Inv, Base
<1>5. /\ dir + 1 \in 1 .. N /\ dir + 1 - 1 = dir /\ dir \in 0 .. N /\ dir + 1 \in Nat /\ dir + 1 <= N
      /\ dir + 1 > 0 /\ dir + 1 \notin 1 .. dir /\ 1 .. dir \subseteq 1 .. dir + 1
      /\ dir + 1 \in 1 .. dir + 1
  <2>1. dir < N
    BY <1>1
  <2> HIDE DEF N
  <2> QED
    BY <1>4, <2>1
<1>6. IsSeq(playlists) /\ Len(playlists) <= dir + 1 /\ playlists = <<All>> \o E[dir] /\ unopened \subseteq 1 .. dir
  BY <1>1 DEF Inv, ListsMade
<1>7. \A lost :
        /\ Expected(card, lost)[dir + 1] = Expected(card, lost)[dir] \o Offered(card, lost, dir + 1)
        /\ IsSeq(Expected(card, lost)[dir])
  <2> SUFFICES ASSUME NEW lost
               PROVE  /\ Expected(card, lost)[dir + 1] = Expected(card, lost)[dir] \o Offered(card, lost, dir + 1)
                      /\ IsSeq(Expected(card, lost)[dir])
    OBVIOUS
  <2> DEFINE F == Expected(card, lost)
  <2>1. /\ \A p \in 1 .. N : F[p] = F[p - 1] \o Offered(card, lost, p)
        /\ \A p \in 0 .. N : IsSeq(F[p])
    BY <1>4, ExpectedIs
  <2> HIDE DEF N, F
  <2>4. PICK p \in 1 .. N : p = dir + 1 /\ p - 1 = dir
    BY <1>5
  <2>5. F[p] = F[p - 1] \o Offered(card, lost, p)
    BY <2>1
  <2>2. F[dir + 1] = F[dir] \o Offered(card, lost, dir + 1)
    BY <2>4, <2>5, Zenon
  <2> QED
    BY <1>5, <2>1, <2>2, Zenon DEF F
<1>8. phase' \in {"list playlists", "read playlist"}
  BY <1>1, <1>3
<1>9. Base'
  <2>1. pos' \in Nat /\ cursor' \in Nat
    <3>1. pos \in Nat /\ cursor \in Nat
      BY DEF Inv, Base
    <3>2. (pos' = pos /\ cursor' = cursor) \/ (pos' = 0 /\ cursor' = 0)
      BY <1>3, Zenon
    <3> QED
      BY <3>1, <3>2
  <2>2. dir' \in Nat
    BY <1>1, <1>5
  <2> QED
    BY <1>1, <1>8, <2>1, <2>2 DEF Inv, Base, Phases, InPlaylists
<1>10. MusicsFound'
  BY <1>1, <1>8 DEF Inv, MusicsFound, Known, InPlaylists
<1>11. Len(playlists) \in Nat
  BY <1>6 DEF IsSeq
<1>12. ~stray'
  <2>1. Len(playlists) < MaxFiles
    BY <1>4, <1>5, <1>6, <1>11
  <2> QED
    BY <1>2, <1>4, <1>11, <2>1
<1>13. ListsMade'
  <2> HIDE DEF N, file, new
  <2>1. dir' <= Len(card'.playlists) /\ dir' > 0
    <3>1. dir' <= N /\ dir' > 0
      BY <1>1, <1>5
    <3> QED
      BY <1>1, <3>1 DEF N
  <2>2. All' = All
    BY <1>1 DEF All
  <2> HIDE DEF All
  <2>3. CASE Passed
    <3>1. Offered(card, unopened, dir + 1) = <<>>
      BY <2>3 DEF Offered, file
    <3>2. E[dir + 1] = E[dir]
      <4> PICK s : s = E[dir]
        OBVIOUS
      <4>1. IsSeq(s) /\ E[dir + 1] = s \o <<>>
        BY <1>7, <3>1
      <4> QED
        BY <4>1, Longer
    <3>3. playlists' = <<All'>> \o Expected(card', unopened')[dir']
      BY <1>1, <1>6, <2>2, <2>3, <3>2
    <3>4. IsSeq(playlists') /\ unopened' \subseteq 1 .. dir'
      BY <1>1, <1>5, <1>6, <2>3
    <3>5. Len(playlists') <= dir' + 1
      <4>1. Len(playlists) <= dir + 1 + 1
        BY <1>4, <1>6, <1>11
      <4> QED
        BY <1>1, <2>3, <4>1, Zenon
    <3>6. phase' = "list playlists"
      BY <1>1, <2>3
    <3> QED
      BY <2>1, <3>3, <3>4, <3>5, <3>6 DEF ListsMade
  <2>4. CASE Unread
    <3> DEFINE F == Expected(card, unopened')
    <3>1. F[dir] = E[dir]
      <4>1. F[dir + 1 - 1] = E[dir + 1 - 1]
        BY <1>4, <1>5, <2>4, ExpectedBefore DEF N
      <4> QED
        BY <1>5, <4>1
    <3>2. IsSeq(playlists') /\ Len(playlists') = Len(playlists) + 1
      BY <1>6, <2>4, Longer
    <3>3. Len(playlists') <= dir' + 1
      <4>1. Len(playlists) + 1 <= dir + 1 + 1
        BY <1>4, <1>6, <1>11
      <4> QED
        BY <1>1, <3>2, <4>1, Zenon
    <3>4. phase' = "list playlists"
      BY <1>1, <2>4
    <3>5. Offered(card, unopened', dir + 1) = <<new>>
      BY <2>4 DEF Offered, new, file
    <3>6. PICK s : s = E[dir]
      OBVIOUS
    <3>7. IsSeq(s) /\ F[dir + 1] = s \o <<new>> /\ playlists = <<All>> \o s
      <4>1. F[dir + 1] = F[dir] \o <<new>>
        BY <1>7, <3>5
      <4> QED
        BY <1>6, <1>7, <3>1, <3>6, <4>1
    <3> HIDE DEF F
    <3>8. playlists' = <<All>> \o F[dir + 1]
      <4>1. Append(<<All>> \o s, new) = <<All>> \o Append(s, new)
        BY <3>7, Headed, Zenon
      <4>2. Append(s, new) = s \o <<new>>
        BY <3>7, Longer, Zenon
      <4> QED
        BY <2>4, <3>7, <4>1, <4>2, Zenon
    <3>9. playlists' = <<All'>> \o Expected(card', unopened')[dir']
      BY <1>1, <2>2, <3>8 DEF F
    <3>10. unopened' \subseteq 1 .. dir'
      BY <1>1, <1>5, <1>6, <2>4
    <3> QED
      BY <2>1, <3>2, <3>3, <3>4, <3>9, <3>10 DEF ListsMade
  <2>5. CASE Begun
    <3>1. dir' - 1 = dir
      <4>1. dir' = dir + 1
        BY <1>1
      <4> QED
        BY <1>4, <4>1
    <3>2. playlists' = <<All'>> \o Expected(card', unopened')[dir' - 1]
      BY <1>1, <1>6, <2>2, <2>5, <3>1
    <3>3. IsSeq(playlists') /\ unopened' \subseteq 1 .. dir' /\ dir' \notin unopened'
      BY <1>1, <1>5, <1>6, <2>5
    <3>4. Len(playlists') <= dir'
      BY <1>1, <1>6, <2>5, Zenon
    <3>5. phase' = "read playlist"
      BY <2>5
    <3> QED
      BY <2>1, <3>2, <3>3, <3>4, <3>5 DEF ListsMade
  <2> QED
    BY <1>3, <2>3, <2>4, <2>5
<1>14. LineRead'
  <2> SUFFICES ASSUME phase' = "read playlist" PROVE LineRead'
    BY DEF LineRead
  <2>1. Begun
    BY <1>1, <1>3
  <2> DEFINE text == file.text
  <2>2. Len(text) \in Nat /\ Listed(card, text)[0] = <<>>
    <3>1. text \in Seq(Chars \cup {NL})
      BY <1>5, CardIs DEF Inv
    <3> HIDE DEF text, file
    <3>2. Len(text) \in Nat
      BY <3>1, Counted, Zenon
    <3> QED
      BY <3>2, ListedIs
  <2>4. card'.playlists[dir'] = file
    BY <1>1
  <2> HIDE DEF file
  <2>3. pos' = 0 /\ cursor' = 0 /\ Len(file.name) # BugLen
    BY <2>1
  <2>5. pos' = 0 /\ cursor' = 0 /\ pos' - cursor' = 0 /\ Len(file.name) # BugLen
    <3>1. pos' = 0 /\ cursor' = 0
      BY <2>3
    <3>2. pos' - cursor' = 0
      BY <3>1, Zero, Zenon
    <3> QED
      BY <2>3, <3>2
  <2>6. open'.musics = <<>> /\ open' = [name |-> Copied(file.name), musics |-> open'.musics]
    BY <2>1
  <2>7. open'.musics = Listed(card', text)[pos']
    BY <1>1, <2>2, <2>5, <2>6
  <2>8. cursor' <= pos' /\ pos' <= Len(text)
    <3>1. pos' = 0 /\ cursor' = 0 /\ Len(text) \in Nat
      BY <2>2, <2>3
    <3> QED
      BY <3>1, Zero, Zenon
  <2>9. 0 + 1 .. pos' = {} /\ 1 .. cursor' = {}
    <3>1. pos' = 0 /\ cursor' = 0
      BY <2>3
    <3> QED
      BY <3>1, Zero, Zenon
  <2> QED
    BY <2>4, <2>5, <2>6, <2>7, <2>8, <2>9 DEF LineRead
<1>15. ListsFilled'
  <2>1. \A p \in DOMAIN playlists :
          playlists[p].musics = <<>> =>
            \E q \in unopened : playlists[p].name = Copied(card.playlists[q].name)
    BY <1>1 DEF Inv, ListsFilled, InPlaylists
  <2>2. CASE playlists' = playlists /\ unopened' = unopened
    BY <1>1, <2>1, <2>2 DEF ListsFilled
  <2>3. CASE Unread
    <3> SUFFICES ASSUME NEW p \in DOMAIN playlists', playlists'[p].musics = <<>>
                 PROVE  \E q \in unopened' : playlists'[p].name = Copied(card.playlists[q].name)
      BY <1>1 DEF ListsFilled
    <3> HIDE DEF new
    <3>1. \/ playlists'[p] = new
          \/ p \in DOMAIN playlists /\ playlists'[p] = playlists[p]
      BY <1>6, <2>3, Appended
    <3>2. CASE playlists'[p] = new
      <4>1. dir + 1 \in unopened' /\ playlists'[p].name = Copied(card.playlists[dir + 1].name)
        BY <2>3, <3>2 DEF new
      <4> QED
        BY <4>1
    <3>3. CASE p \in DOMAIN playlists /\ playlists'[p] = playlists[p]
      BY <2>1, <2>3, <3>3
    <3> QED
      BY <3>1, <3>2, <3>3
  <2> QED
    BY <1>3, <2>2, <2>3
<1>16. phase' # "list images" /\ phase \in InPlaylists \cup {"all musics", "open playlists"}
  BY <1>1, <1>8 DEF InPlaylists
<1> QED
  BY <1>1, <1>9, <1>10, <1>12, <1>13, <1>14, <1>15, <1>16, Late

\* One more character: it is in the buffer, or ends a line whose musics are added.
LEMMA ReadCharStep == Fit /\ Inv /\ ReadChar => Safe'
<1> SUFFICES ASSUME Fit, Inv, ReadChar PROVE Safe'
  OBVIOUS
<1> DEFINE file == card.playlists[dir]
           text == file.text
           char == text[pos + 1]
           read == [buffer EXCEPT ![cursor] = IF char = NL THEN NUL ELSE char]
           from == pos - cursor
           N == Len(text)
           L == Listed(card, text)
           u == open.musics
           more == IF char = NL THEN Added(read) ELSE <<>>
<1>1. /\ phase = "read playlist" /\ phase' = phase /\ card' = card /\ failed' = failed
      /\ dir' = dir /\ pos < N /\ pos' = pos + 1 /\ musics' = musics /\ n_musics' = n_musics
      /\ img_names' = img_names /\ playlists' = playlists /\ unopened' = unopened /\ ~stray
  BY DEF ReadChar, At, lists
<1>2. IF cursor \in DOMAIN buffer THEN
        /\ buffer' = read /\ cursor' = AfterLine(cursor, char)
        /\ open' = [open EXCEPT !.musics = @ \o more]
        /\ (stray' <=> Len(open'.musics) > MaxMusics)
      ELSE stray' = TRUE
  BY DEF ReadChar
<1>3. /\ cursor <= pos /\ pos <= N /\ Len(file.name) # BugLen
      /\ from = 0 \/ text[from] = NL
      /\ \A j \in from + 1 .. pos : text[j] # NL
      /\ \A k \in 1 .. cursor : buffer[k - 1] = text[from + k]
      /\ open = [name |-> Copied(file.name), musics |-> u]
      /\ u = L[pos]
  BY <1>1 DEF Inv, LineRead
<1>4. /\ dir > 0 /\ dir <= Len(card.playlists)
  BY <1>1 DEF Inv, ListsMade
<1>5. /\ dir \in Nat /\ pos \in Nat /\ cursor \in Nat /\ NameLen \in Nat /\ MaxMusics \in Nat
      /\ Len(card.playlists) \in Nat
  BY CardIs, LibraryAssumption DEF Inv, Base
<1>6. /\ text \in Seq(Chars \cup {NL})
      /\ \A k \in 1 .. N - NameLen : \E j \in k .. k + NameLen : text[j] = NL
      /\ \A k \in 0 .. N : Len(L[k]) <= MaxMusics
  <2>1. dir \in 1 .. Len(card.playlists)
    BY <1>4, <1>5
  <2> QED
    BY <2>1, CardIs DEF Inv
<1>7. DOMAIN buffer = 0 .. NameLen - 1
  BY DEF Inv, Base
<1>8. L[0] = <<>> /\ \A k \in 1 .. N : L[k] = L[k - 1] \o IF text[k] = NL THEN Line(card, text, k) ELSE <<>>
  <2>1. N \in Nat
    BY <1>6, Counted
  <2> HIDE DEF file, text
  <2> QED
    BY <2>1, ListedIs, Zenon
<1> HIDE DEF file, text, read, L, u, more
<1>9. /\ N \in Nat /\ pos + 1 \in 1 .. N /\ from \in 0 .. pos /\ pos + 1 - 1 = pos
      /\ pos + 1 \in Nat /\ pos + 1 \in 0 .. N
  <2>1. pos < N
    BY <1>1
  <2>2. N \in Nat
    BY <1>6, Counted
  <2> HIDE DEF N
  <2> QED
    BY <1>3, <1>5, <2>1, <2>2
<1>22. from + cursor = pos /\ pos - from = cursor
  BY <1>3, <1>5
<1>23. cursor <= NameLen /\ (cursor = NameLen => char = NL)
  <2>1. pos < N
    BY <1>1
  <2> HIDE DEF N, char
  <2>2. ASSUME from + 1 \in 1 .. N - NameLen
        PROVE  cursor <= NameLen /\ (cursor = NameLen => text[pos + 1] = NL)
    <3>1. PICK j \in from + 1 .. from + 1 + NameLen : text[j] = NL
      BY <1>6, <2>2
    <3>2. j \notin from + 1 .. pos
      BY <1>3, <3>1
    <3> HIDE DEF from
    <3>3. j > pos /\ j <= from + 1 + NameLen
      BY <1>5, <1>9, <3>2
    <3>4. cursor <= NameLen
      BY <1>5, <1>9, <1>22, <3>3
    <3>5. cursor = NameLen => j = pos + 1
      BY <1>5, <1>9, <1>22, <3>3
    <3> QED
      BY <3>1, <3>4, <3>5
  <2>3. CASE cursor < NameLen
    BY <1>5, <2>3
  <2>4. CASE cursor >= NameLen
    <3>1. from + 1 \in 1 .. N - NameLen
      BY <1>3, <1>5, <1>9, <2>1, <2>4
    <3> QED
      BY <2>2, <3>1 DEF char
  <2> QED
    BY <1>5, <2>3, <2>4
<1>24. CASE cursor = NameLen
  <2>1. stray'
    <3>1. cursor \notin DOMAIN buffer
      BY <1>5, <1>7, <1>24
    <3> QED
      BY <1>2, <3>1
  <2>2. LastEnd(text, pos) = from
    BY <1>3, <1>5, <1>9, LastEndIs
  <2>3. text[pos'] = NL /\ pos' - 1 - LastEnd(text, pos' - 1) = NameLen
    <3>1. pos' = pos + 1 /\ pos' - 1 = pos
      <4>1. pos' = pos + 1
        BY <1>1
      <4>2. pos \in Nat
        BY <1>5
      <4>3. \A a \in Nat : \A b : b = a + 1 => b - 1 = a
        OBVIOUS
      <4> QED
        BY <4>1, <4>2, <4>3, Zenon
    <3> HIDE DEF from, char
    <3>2. text[pos'] = NL
      BY <1>23, <1>24, <3>1, Zenon DEF char
    <3>3. pos - from = NameLen
      BY <1>22, <1>24
    <3>4. pos' - 1 - LastEnd(text, pos' - 1) = pos - from
      BY <2>2, <3>1
    <3> QED
      BY <3>2, <3>3, <3>4
  <2>4. NoStray'
    BY <1>1, <2>3 DEF NoStray, text, file
  <2> QED
    BY <2>1, <2>4 DEF Safe
<1> SUFFICES ASSUME cursor # NameLen PROVE Safe'
  BY <1>24
<1>10. cursor < NameLen
  BY <1>5, <1>23
<1>11. cursor \in DOMAIN buffer
  BY <1>5, <1>7, <1>10
<1>12. DOMAIN read = DOMAIN buffer
  BY DEF read
<1>13. /\ buffer' = read /\ cursor' = AfterLine(cursor, char)
       /\ open' = [open EXCEPT !.musics = @ \o more]
  BY <1>2, <1>11
<1>14. stray' <=> Len(open'.musics) > MaxMusics
  BY <1>2, <1>11
<1>15. Base'
  <2>1. cursor' \in Nat
    <3>1. cursor' = 0 \/ cursor' = cursor + 1
      BY <1>13 DEF AfterLine
    <3> QED
      BY <1>5, <3>1
  <2>2. pos' \in Nat
    BY <1>1, <1>9
  <2>3. DOMAIN buffer' = DOMAIN buffer
    BY <1>12, <1>13
  <2> QED
    BY <1>1, <2>1, <2>2, <2>3 DEF Inv, Base
<1>16. MusicsFound'
  BY <1>1 DEF Inv, MusicsFound, Known
<1>17. ListsMade' /\ ListsFilled'
  BY <1>1 DEF Inv, ListsMade, ListsFilled, All
<1>18. open' = [name |-> Copied(file.name), musics |-> u \o more]
  <2>1. open = [name |-> Copied(file.name), musics |-> u] /\ open' = [open EXCEPT !.musics = @ \o more]
    BY <1>3, <1>13
  <2> HIDE DEF char
  <2> QED
    BY <2>1
<1>19. u \o more = L[pos + 1]
  <2>6. Known
    BY <1>1 DEF Inv, MusicsFound, InPlaylists
  <2>1. PICK k \in 1 .. N : k = pos + 1 /\ k - 1 = pos
    <3>1. pos + 1 \in 1 .. N /\ pos + 1 - 1 = pos
      BY <1>9
    <3> HIDE DEF N
    <3>2. \E k \in 1 .. N : k = pos + 1
      BY <3>1, Zenon
    <3>3. pos \in Nat
      BY <1>5
    <3>4. \A k \in 1 .. N : k = pos + 1 => k - 1 = pos
      BY <3>3
    <3> QED
      BY <3>2, <3>4, Zenon
  <2>2. L[k] = L[pos] \o IF char = NL THEN Line(card, text, k) ELSE <<>>
    <3>1. L[k] = L[k - 1] \o IF text[k] = NL THEN Line(card, text, k) ELSE <<>>
      BY <1>8
    <3> QED
      BY <2>1, <3>1, Zenon
  <2>3. u = L[pos]
    BY <1>3
  <2>4. CASE char = NL
    <3> DEFINE w == SubSeq(text, from + 1, pos)
    <3>1. w \in Seq(Chars) /\ Len(w) = cursor /\ \A i \in 1 .. cursor : w[i] = text[from + i]
      <4> DEFINE W == [i \in 1 .. cursor |-> text[from + i]]
      <4>1. ASSUME NEW i \in 1 .. cursor PROVE text[from + i] \in Chars
        <5>1. from + i \in 1 .. N /\ from + i \in from + 1 .. pos
          <6>1. cursor <= pos /\ N \in Nat /\ pos + 1 \in 1 .. N
            BY <1>3, <1>9
          <6> HIDE DEF N
          <6> QED
            BY <1>5, <6>1
        <5>2. text[from + i] \in Chars \cup {NL}
          BY <1>6, <5>1, Item, Zenon
        <5>3. text[from + i] # NL
          BY <1>3, <5>1
        <5> QED
          BY <5>2, <5>3
      <4>2. W \in Seq(Chars) /\ Len(W) = cursor
        BY <1>5, <4>1
      <4>3. w = W
        <5>1. Len(w) = cursor /\ DOMAIN w = 1 .. cursor /\ w \in Seq(Chars \cup {NL})
          BY <1>3, <1>5, <1>6, <1>9
        <5>2. \A i \in 1 .. cursor : w[i] = text[from + i]
          BY <1>3, <1>5, <1>6, <1>9
        <5> HIDE DEF w
        <5>3. w = [i \in 1 .. cursor |-> w[i]]
          BY <5>1
        <5> QED
          BY <5>2, <5>3
      <4> HIDE DEF w, W
      <4>4. \A i \in 1 .. cursor : w[i] = text[from + i]
        BY <4>3 DEF W
      <4> QED
        BY <4>2, <4>3, <4>4
    <3>2. LastEnd(text, pos) = from
      BY <1>3, <1>5, <1>9, LastEndIs
    <3> HIDE DEF w
    <3>3. \A i \in 1 .. cursor : 0 + i - 1 \in DOMAIN read /\ read[0 + i - 1] = w[i]
      <4>1. ASSUME NEW i \in 1 .. cursor PROVE 0 + i - 1 \in DOMAIN read /\ read[0 + i - 1] = w[i]
        <5>1. 0 + i - 1 = i - 1 /\ i - 1 \in 0 .. NameLen - 1 /\ i - 1 # cursor
          BY <1>5, <1>10
        <5>2. i - 1 \in DOMAIN buffer /\ i - 1 # cursor
          BY <1>7, <5>1
        <5>3. read[i - 1] = buffer[i - 1]
          BY <5>2 DEF read
        <5> QED
          BY <1>3, <1>12, <3>1, <5>1, <5>2, <5>3, Zenon
      <4> QED
        BY <4>1
    <3>4. 0 + cursor \in DOMAIN read /\ read[0 + cursor] = NUL
      <4>1. 0 + cursor = cursor
        BY <1>5
      <4> QED
        BY <1>11, <2>4, <4>1 DEF read
    <3>5. ASSUME NEW name \in Seq(Chars) PROVE strequ(name, read, 0) <=> name = w
      <4>1. Len(w) = cursor /\ 0 \in Nat /\ w \in Seq(Chars)
        BY <3>1
      <4> QED
        BY <3>3, <3>4, <4>1, Compared, Zenon
    <3>6. /\ DOMAIN musics = DOMAIN card.musics
          /\ \A m \in DOMAIN musics : musics[m].name \in Seq(Chars) /\ musics[m].name = Named(card.musics[m])
      <4> DEFINE T == [name : Seq(Chars), has_img : BOOLEAN]
      <4>1. /\ musics \in Seq(T) /\ Len(musics) = Len(card.musics)
            /\ \A m \in DOMAIN musics : musics[m].name = Named(card.musics[m])
        BY <1>1, <2>6 DEF Inv, MusicsFound
      <4>2. card.musics \in Seq(Seq(Chars))
        BY CardIs DEF Inv
      <4>3. DOMAIN musics = 1 .. Len(musics) /\ DOMAIN card.musics = 1 .. Len(musics)
        BY <4>1, <4>2
      <4>4. \A m \in DOMAIN musics : musics[m] \in T
        BY <4>1, <4>3, Item, Zenon
      <4>5. \A m \in DOMAIN musics : musics[m].name \in Seq(Chars)
        BY <4>4
      <4> QED
        BY <4>1, <4>3, <4>5
    <3>7. Found(read) = {m \in DOMAIN card.musics : Named(card.musics[m]) = SubSeq(text, LastEnd(text, k - 1) + 1, k - 1)}
      <4>1. w = SubSeq(text, LastEnd(text, k - 1) + 1, k - 1)
        BY <2>1, <3>2, Zenon DEF w
      <4>2. \A m \in DOMAIN musics : strequ(musics[m].name, read, 0) <=> Named(card.musics[m]) = w
        BY <3>5, <3>6, Zenon
      <4>3. Found(read) = {m \in DOMAIN card.musics : Named(card.musics[m]) = w}
        BY <3>6, <4>2 DEF Found
      <4> QED
        BY <4>1, <4>3, Zenon
    <3>8. Added(read) = Line(card, text, k)
      BY <3>7, Zenon DEF Added, Line
    <3>9. more = Line(card, text, k)
      BY <2>4, <3>8, Zenon DEF more
    <3> QED
      BY <2>1, <2>2, <2>3, <2>4, <3>9, Zenon
  <2>5. CASE char # NL
    BY <2>1, <2>2, <2>3, <2>5, Zenon DEF more
  <2> QED
    BY <2>4, <2>5
<1>20. ~stray'
  <2>1. open'.musics = L[pos + 1]
    BY <1>18, <1>19
  <2>2. Len(L[pos + 1]) <= MaxMusics
    BY <1>6, <1>9
  <2>3. Len(open'.musics) \in Nat \/ ~(Len(open'.musics) > MaxMusics)
    BY <1>5, <2>1, <2>2
  <2> QED
    BY <1>5, <1>14, <2>1, <2>2, <2>3
<1>21. LineRead'
  <2> DEFINE from2 == pos' - cursor'
  <2>1. /\ cursor' <= pos' /\ pos' <= N
        /\ from2 = 0 \/ text[from2] = NL
        /\ \A j \in from2 + 1 .. pos' : text[j] # NL
        /\ \A k \in 1 .. cursor' : buffer'[k - 1] = text[from2 + k]
    <3>1. CASE char = NL
      <4>1. cursor' = 0 /\ pos' = pos + 1
        BY <1>1, <1>13, <3>1 DEF AfterLine
      <4>2. from2 = pos + 1 /\ from2 + 1 .. pos' = {} /\ 1 .. cursor' = {} /\ cursor' <= pos' /\ pos' <= N
        BY <1>9, <4>1
      <4> HIDE DEF from2
      <4> QED
        BY <3>1, <4>2
    <3>2. CASE char # NL
      <4>1. cursor' = cursor + 1 /\ pos' = pos + 1
        BY <1>1, <1>13, <3>2 DEF AfterLine
      <4>2. from2 = from /\ cursor' <= pos' /\ pos' <= N
        BY <1>3, <1>5, <1>9, <4>1
      <4>3. ASSUME NEW j \in from2 + 1 .. pos' PROVE text[j] # NL
        <5>1. j = pos + 1 \/ j \in from + 1 .. pos
          BY <1>5, <1>9, <4>1, <4>2
        <5> QED
          BY <1>3, <3>2, <5>1
      <4>4. ASSUME NEW k \in 1 .. cursor' PROVE buffer'[k - 1] = text[from2 + k]
        <5>1. CASE k = cursor + 1
          <6>1. k - 1 = cursor /\ from + k = pos + 1
            BY <1>5, <5>1
          <6>2. read[cursor] = char
            BY <1>11, <3>2 DEF read
          <6> QED
            BY <1>13, <4>2, <6>1, <6>2, Zenon
        <5>2. CASE k # cursor + 1
          <6>1. k \in 1 .. cursor /\ k - 1 \in 0 .. NameLen - 1 /\ k - 1 # cursor
            BY <1>5, <1>10, <4>1, <5>2
          <6>2. read[k - 1] = buffer[k - 1]
            BY <1>7, <6>1 DEF read
          <6> QED
            BY <1>3, <1>13, <4>2, <6>1, <6>2, Zenon
        <5> QED
          BY <5>1, <5>2
      <4>5. from2 = 0 \/ text[from2] = NL
        BY <1>3, <4>2
      <4> QED
        BY <4>2, <4>3, <4>4, <4>5
    <3> QED
      BY <3>1, <3>2
  <2>2. open'.musics = u \o more
    BY <1>18
  <2>3. open'.musics = L[pos']
    BY <1>1, <1>19, <2>2, Zenon
  <2>5. card'.playlists[dir'] = file
    BY <1>1 DEF file
  <2>6. Len(file.name) # BugLen /\ open' = [name |-> Copied(file.name), musics |-> open'.musics]
    BY <1>3, <1>18, <2>2, Zenon
  <2>7. open'.musics = Listed(card', file.text)[pos']
    BY <1>1, <2>3, Zenon DEF L, text
  <2> HIDE DEF from2
  <2>8. /\ cursor' <= pos' /\ pos' <= Len(file.text)
        /\ from2 = 0 \/ file.text[from2] = NL
        /\ \A j \in from2 + 1 .. pos' : file.text[j] # NL
        /\ \A k \in 1 .. cursor' : buffer'[k - 1] = file.text[from2 + k]
    BY <2>1 DEF text
  <2> QED
    BY <2>5, <2>6, <2>7, <2>8 DEF LineRead, from2
<1>25. phase' # "list images" /\ phase \in InPlaylists \cup {"all musics", "open playlists"}
  BY <1>1 DEF InPlaylists
<1> QED
  BY <1>1, <1>15, <1>16, <1>17, <1>20, <1>21, <1>25, Late

\* A playlist has been read: it is kept if its file names a music.
LEMMA PlaylistReadStep == Fit /\ Inv /\ PlaylistRead => Safe'
<1> SUFFICES ASSUME Fit, Inv, PlaylistRead PROVE Safe'
  OBVIOUS
<1> DEFINE file == card.playlists[dir]
           N == Len(card.playlists)
           E == Expected(card, unopened)
<1>1. /\ phase = "read playlist" /\ phase' = "list playlists" /\ card' = card /\ failed' = failed
      /\ dir' = dir /\ pos' = pos /\ cursor' = cursor /\ musics' = musics /\ n_musics' = n_musics
      /\ img_names' = img_names /\ buffer' = buffer /\ pos = Len(file.text) /\ unopened' = unopened
      /\ playlists' = IF Keeps(open) THEN Append(playlists, open) ELSE playlists
  BY DEF PlaylistRead, At, disk
<1>2. ~stray'
  BY DEF PlaylistRead, At
<1>3. /\ Len(file.name) # BugLen
      /\ open = [name |-> Copied(file.name), musics |-> open.musics]
      /\ open.musics = Listed(card, file.text)[pos]
  BY <1>1 DEF Inv, LineRead
<1>4. /\ dir > 0 /\ dir <= N /\ IsSeq(playlists) /\ Len(playlists) <= dir
      /\ playlists = <<All>> \o E[dir - 1] /\ dir \notin unopened /\ unopened \subseteq 1 .. dir
  BY <1>1 DEF Inv, ListsMade
<1>5. dir \in Nat /\ N \in Nat
  BY CardIs DEF Inv, Base
<1>6. dir \in 1 .. N /\ dir - 1 \in 0 .. N
  <2> HIDE DEF N
  <2> QED
    BY <1>4, <1>5
<1>7. E[dir] = E[dir - 1] \o Offered(card, unopened, dir) /\ IsSeq(E[dir - 1])
  <2>1. /\ \A p \in 1 .. N : E[p] = E[p - 1] \o Offered(card, unopened, p)
        /\ \A p \in 0 .. N : IsSeq(E[p])
    BY <1>5, ExpectedIs
  <2> HIDE DEF N, E
  <2> QED
    BY <1>6, <2>1, Zenon
<1>8. Offered(card, unopened, dir) = IF Keeps(open) THEN <<open>> ELSE <<>>
  <2> DEFINE heard == Listed(card, file.text)[Len(file.text)]
  <2>1. Offered(card, unopened, dir) =
          IF heard = <<>> THEN <<>> ELSE <<[name |-> Copied(file.name), musics |-> heard]>>
    BY <1>3, <1>4 DEF Offered
  <2>2. heard = open.musics
    BY <1>1, <1>3, Zenon
  <2> HIDE DEF heard, file
  <2>3. open = [name |-> Copied(file.name), musics |-> heard]
    BY <1>3, <2>2, Zenon
  <2> QED
    BY <2>1, <2>2, <2>3, Zenon DEF Keeps
<1>9. Base'
  BY <1>1 DEF Inv, Base, Phases, InPlaylists
<1>10. MusicsFound'
  BY <1>1 DEF Inv, MusicsFound, Known, InPlaylists
<1>11. ListsMade'
  <2> HIDE DEF file, N, E
  <2>1. IsSeq(playlists') /\ Len(playlists') <= dir' + 1
    <3>1. Len(playlists) \in Nat /\ IsSeq(Append(playlists, open)) /\ Len(Append(playlists, open)) = Len(playlists) + 1
      BY <1>4, Longer
    <3>2. Len(playlists) <= dir + 1 /\ Len(playlists) + 1 <= dir + 1
      BY <1>4, <1>5, <3>1
    <3>3. playlists' = Append(playlists, open) \/ playlists' = playlists
      BY <1>1
    <3> QED
      BY <1>1, <1>4, <3>1, <3>2, <3>3, Zenon
  <2>2. All' = All
    BY <1>1 DEF All
  <2>3. playlists' = <<All>> \o E[dir]
    <3> PICK s : s = E[dir - 1]
      OBVIOUS
    <3>2. IsSeq(s) /\ playlists = <<All>> \o s
      BY <1>4, <1>7
    <3>3. CASE Keeps(open)
      <4>1. E[dir] = s \o <<open>>
        BY <1>7, <1>8, <3>3
      <4>2. playlists' = Append(<<All>> \o s, open)
        BY <1>1, <3>2, <3>3
      <4> HIDE DEF All
      <4>3. Append(<<All>> \o s, open) = <<All>> \o Append(s, open)
        BY <3>2, Headed, Zenon
      <4>4. Append(s, open) = s \o <<open>>
        BY <3>2, Longer, Zenon
      <4> QED
        BY <4>1, <4>2, <4>3, <4>4, Zenon
    <3>4. CASE ~Keeps(open)
      <4>1. E[dir] = s \o <<>>
        BY <1>7, <1>8, <3>4
      <4>2. s \o <<>> = s
        BY <3>2, Longer
      <4> QED
        BY <1>1, <3>2, <3>4, <4>1, <4>2
    <3> QED
      BY <3>3, <3>4
  <2>4. playlists' = <<All'>> \o Expected(card', unopened')[dir']
    BY <1>1, <2>2, <2>3 DEF E
  <2>5. dir' <= Len(card'.playlists) /\ unopened' \subseteq 1 .. dir'
    <3>1. dir <= N
      BY <1>4
    <3> QED
      BY <1>1, <1>4, <3>1, Zenon DEF N
  <2> QED
    BY <1>1, <2>1, <2>4, <2>5 DEF ListsMade
<1>12. ListsFilled'
  <2> SUFFICES ASSUME NEW p \in DOMAIN playlists', playlists'[p].musics = <<>>
               PROVE  \E q \in unopened : playlists'[p].name = Copied(card.playlists[q].name)
    BY <1>1 DEF ListsFilled
  <2>1. \A q \in DOMAIN playlists :
          playlists[q].musics = <<>> =>
            \E o \in unopened : playlists[q].name = Copied(card.playlists[o].name)
    BY <1>1 DEF Inv, ListsFilled, InPlaylists
  <2>2. \/ p \in DOMAIN playlists /\ playlists'[p] = playlists[p]
        \/ playlists'[p] = open /\ open.musics # <<>>
    <3>1. CASE Keeps(open)
      <4>1. playlists' = Append(playlists, open) /\ open.musics # <<>>
        BY <1>1, <3>1 DEF Keeps
      <4> QED
        BY <1>4, <4>1, Appended
    <3>2. CASE ~Keeps(open)
      BY <1>1, <3>2
    <3> QED
      BY <3>1, <3>2
  <2> QED
    BY <2>1, <2>2
<1>13. LineRead'
  BY <1>1 DEF LineRead
<1>14. phase' # "list images" /\ phase \in InPlaylists \cup {"all musics", "open playlists"}
  BY <1>1 DEF InPlaylists
<1> QED
  BY <1>1, <1>2, <1>9, <1>10, <1>11, <1>12, <1>13, <1>14, Late

\* All the playlists are listed.
LEMMA PlaylistsListedStep == Fit /\ Inv /\ PlaylistsListed => Safe'
<1> SUFFICES ASSUME Fit, Inv, PlaylistsListed PROVE Safe'
  OBVIOUS
<1>1. /\ phase = "list playlists" /\ phase' = "menu" /\ card' = card /\ failed' = failed
      /\ dir = Len(card.playlists) /\ dir' = dir /\ pos' = pos /\ cursor' = cursor
      /\ musics' = musics /\ n_musics' = n_musics /\ img_names' = img_names /\ buffer' = buffer
      /\ playlists' = playlists /\ unopened' = unopened /\ n_playlists' = Len(playlists)
  BY DEF PlaylistsListed, At, disk
<1>2. ~stray'
  BY DEF PlaylistsListed, At
<1>3. Base'
  BY <1>1 DEF Inv, Base, Phases, InPlaylists
<1>4. MusicsFound'
  BY <1>1 DEF Inv, MusicsFound, Known, InPlaylists
<1>5. ListsMade'
  <2>1. playlists = <<All>> \o Expected(card, unopened)[Len(card.playlists)] /\ "playlists" \notin failed
    BY <1>1 DEF Inv, Base, ListsMade
  <2> QED
    BY <1>1, <2>1 DEF ListsMade, All
<1>6. ListsFilled' /\ LineRead'
  BY <1>1 DEF Inv, ListsFilled, InPlaylists, LineRead
<1>7. phase' # "list images" /\ phase \in InPlaylists \cup {"all musics", "open playlists"}
  BY <1>1 DEF InPlaylists
<1> QED
  BY <1>1, <1>2, <1>3, <1>4, <1>5, <1>6, <1>7, Late

\* Every step keeps the invariant until a write goes out of an array, and what is said of it.
LEMMA StepInv == Fit /\ Safe /\ [Next]_vars => Safe'
<1> SUFFICES ASSUME Fit, Safe, [Next]_vars PROVE Safe'
  OBVIOUS
<1>1. ASSUME UNCHANGED vars PROVE Safe'
  <2>1. /\ card' = card /\ phase' = phase /\ dir' = dir /\ pos' = pos /\ musics' = musics /\ n_musics' = n_musics
        /\ img_names' = img_names /\ buffer' = buffer /\ cursor' = cursor /\ playlists' = playlists
        /\ n_playlists' = n_playlists /\ open' = open /\ (stray' <=> stray) /\ failed' = failed
        /\ unopened' = unopened
    BY <1>1 DEF vars
  <2>2. NoStray'
    BY <2>1 DEF Safe, NoStray
  <2>3. Inv => Base' /\ MusicsFound' /\ RowsWritten' /\ Imaged'
    BY <2>1 DEF Inv, Base, MusicsFound, Known, RowsWritten, HoldsImage, HoldsEnd, EndHeld, Image, Imaged, Ended
  <2>4. Inv => ListsMade' /\ ListsFilled' /\ LineRead'
    BY <2>1 DEF Inv, ListsMade, All, ListsFilled, LineRead
  <2> QED
    BY <2>1, <2>2, <2>3, <2>4 DEF Safe, Inv
<1>2. CASE Over
  BY <1>1, <1>2 DEF Over
<1>3. CASE Next /\ ~Over
  <2>1. Inv
    <3>1. ~stray
      BY <1>3 DEF Next, At, OpenMusics, ListMusic, MusicsListed, OpenImages, ListImage, CheckImages, AllMusics,
                  OpenPlaylists, CreatePlaylist, ReadChar, PlaylistRead, PlaylistsListed
    <3> QED
      BY <3>1 DEF Safe
  <2> QED
    BY <1>3, <2>1, OpenMusicsStep, ListMusicStep, MusicsListedStep, OpenImagesStep, ListImageStep,
       CheckImagesStep, AllMusicsStep, OpenPlaylistsStep, CreatePlaylistStep, ReadCharStep,
       PlaylistReadStep, PlaylistsListedStep DEF Next
<1> QED
  BY <1>1, <1>2, <1>3

\* On cards whose lists fit the arrays, this always holds.
LEMMA AlwaysSafe == Fit => (Spec => []Safe)
<1>1. Fit /\ Init => Safe
  BY InitInv
<1>2. Fit /\ Safe /\ [Next]_vars => Safe'
  BY StepInv
<1> SUFFICES ASSUME Fit PROVE Spec => []Safe
  OBVIOUS
<1>3. Init => Safe
  BY <1>1
<1>4. Safe /\ [Next]_vars => Safe'
  BY <1>2
<1> QED
  BY <1>3, <1>4, PTL DEF Spec

---------------------------------------------------------------------------
(* The theorems.                                                           *)

\* On cards whose names have up to MAX_MUSIC_NAME_LENGTH characters and whose lists fit the
\* arrays, whatever fails to open, a write goes out of an array only when the musics cannot be
\* read, at the end of a line of MAX_MUSIC_NAME_LENGTH characters or behind such a name in the
\* last row of img_names: never elsewhere in musics, img_names, buffer or the playlists
\* (music.c, and the start of main).
THEOREM WritesStayInside == Fit => (Spec => []NoStray)
<1>1. Safe => NoStray
  BY DEF Safe
<1> QED
  BY <1>1, AlwaysSafe, PTL

\* A music has an image exactly when the card has an image file of its name whose terminator
\* the row of the next one has not written over (check_image).
THEOREM EveryImageFound == Fit => (Spec => []ImagesFound)
<1>1. Safe => ImagesFound
  BY DEF Safe, Inv, Imaged, ImagesFound
<1> QED
  BY <1>1, AlwaysSafe, PTL

\* The menu has the playlists of the card, each with the musics its file names, in their
\* order, and without musics those that did not open (list_playlist, create_playlist).
THEOREM EveryPlaylistListed == Fit => (Spec => []PlaylistsComplete)
<1>1. Fit /\ Safe => PlaylistsComplete
  <2> SUFFICES ASSUME Fit, Inv, phase = "menu"
               PROVE  Tail(playlists) = IF "playlists" \in failed THEN <<>>
                                        ELSE Expected(card, unopened)[Len(card.playlists)]
    BY DEF PlaylistsComplete, Safe
  <2> DEFINE N == Len(card.playlists)
             s == Expected(card, unopened)[N]
             u == <<>>
  <2>1. playlists = IF "playlists" \in failed THEN <<All>> ELSE <<All>> \o s
    BY DEF Inv, ListsMade
  <2>2. IsSeq(s)
    <3>1. N \in Nat
      BY CardIs DEF Inv
    <3>2. \A p \in 0 .. N : IsSeq(Expected(card, unopened)[p])
      BY <3>1, ExpectedIs
    <3> HIDE DEF N
    <3>3. N \in 0 .. N
      BY <3>1
    <3> QED
      BY <3>2, <3>3
  <2> HIDE DEF s, All
  <2>3. Tail(<<All>> \o s) = s
    BY <2>2, Headed
  <2>4. Tail(<<All>>) = <<>>
    OBVIOUS
  <2> QED
    BY <2>1, <2>3, <2>4 DEF s
<1>2. Fit => (Safe => PlaylistsComplete)
  BY <1>1
<1> SUFFICES ASSUME Fit PROVE Spec => []PlaylistsComplete
  OBVIOUS
<1>3. Safe => PlaylistsComplete
  BY <1>2
<1> QED
  BY <1>3, AlwaysSafe, PTL

\* The menus get as many playlists as were made, or 256 of which one was made when the
\* directory of the playlists did not open, and none of them is without musics unless its file
\* did not open (the start of main, music.c:97, 131).
THEOREM MenuGetsPlaylists == Fit => (Spec => []MenuReady)
<1>1. Safe => MenuReady
  <2> SUFFICES ASSUME Inv, phase = "menu" PROVE MenuReady
    BY DEF MenuReady, Safe
  <2>1. IF "playlists" \in failed THEN n_playlists = Failed + 1 ELSE n_playlists = Len(playlists)
    BY DEF Inv, ListsMade
  <2>2. \A p \in DOMAIN playlists :
          playlists[p].musics = <<>> =>
            \E q \in unopened : playlists[p].name = Copied(card.playlists[q].name)
    BY DEF Inv, ListsFilled, InPlaylists
  <2> QED
    BY <2>1, <2>2 DEF MenuReady
<1> QED
  BY <1>1, AlwaysSafe, PTL

---------------------------------------------------------------------------
(* Powers of two and the bits of a byte.                                   *)

\* One can double as often as one likes.
LEMMA Doubling ==
  \A m \in Nat : \E f : f = [k \in 0 .. m |-> IF k = 0 THEN 1 ELSE 2 * f[k - 1]]
<1> DEFINE S == {m \in Nat : \E f : f = [k \in 0 .. m |-> IF k = 0 THEN 1 ELSE 2 * f[k - 1]]}
<1>1. 0 \in S
  <2> DEFINE g == [k \in 0 .. 0 |-> 1]
  <2>1. g = [k \in 0 .. 0 |-> IF k = 0 THEN 1 ELSE 2 * g[k - 1]]
    OBVIOUS
  <2> HIDE DEF g
  <2> QED
    BY <2>1
<1>2. ASSUME NEW m \in Nat, m \in S PROVE m + 1 \in S
  <2>1. PICK f : f = [k \in 0 .. m |-> IF k = 0 THEN 1 ELSE 2 * f[k - 1]]
    BY <1>2
  <2>2. \A k \in 0 .. m : f[k] = IF k = 0 THEN 1 ELSE 2 * f[k - 1]
    BY <2>1
  <2> DEFINE g == [k \in 0 .. m + 1 |-> IF k = m + 1 THEN 2 * f[m] ELSE f[k]]
  <2>3. ASSUME NEW k \in 0 .. m + 1
        PROVE  g[k] = IF k = 0 THEN 1 ELSE 2 * g[k - 1]
    <3>1. CASE k = m + 1
      <4>1. k # 0 /\ k - 1 \in 0 .. m /\ k - 1 # m + 1 /\ k - 1 = m
        BY <3>1
      <4>2. g[k] = 2 * f[m] /\ g[k - 1] = f[m]
        BY <3>1, <4>1
      <4> HIDE DEF g
      <4> QED
        BY <4>1, <4>2
    <3>2. CASE k # m + 1
      <4>1. k \in 0 .. m /\ g[k] = f[k]
        BY <3>2
      <4>2. k # 0 => g[k - 1] = f[k - 1]
        BY <3>2
      <4> HIDE DEF g
      <4> QED
        BY <2>2, <4>1, <4>2
    <3> QED
      BY <3>1, <3>2
  <2>4. g = [k \in 0 .. m + 1 |-> IF k = 0 THEN 1 ELSE 2 * g[k - 1]]
    BY <2>3
  <2> HIDE DEF g
  <2>5. \E h : h = [k \in 0 .. m + 1 |-> IF k = 0 THEN 1 ELSE 2 * h[k - 1]]
    BY <2>4, Zenon
  <2>6. m + 1 \in Nat
    OBVIOUS
  <2> QED
    BY <2>5, <2>6, Zenon
<1> HIDE DEF S
<1>3. Nat \subseteq S
  BY <1>1, <1>2, Induction
<1> USE DEF S
<1>4. \A m \in S : \E f : f = [k \in 0 .. m |-> IF k = 0 THEN 1 ELSE 2 * f[k - 1]]
  BY Zenon
<1> HIDE DEF S
<1> QED
  BY <1>3, <1>4, Zenon

\* The powers of two that the driver and the card use.
LEMMA Powers ==
  /\ Pow2[0] = 1 /\ Pow2[1] = 2 /\ Pow2[2] = 4 /\ Pow2[3] = 8 /\ Pow2[4] = 16
  /\ Pow2[5] = 32 /\ Pow2[6] = 64 /\ Pow2[7] = 128 /\ Pow2[8] = 256 /\ Pow2[15] = 32768
<1>1. \E f : f = [k \in 0 .. 31 |-> IF k = 0 THEN 1 ELSE 2 * f[k - 1]]
  BY Doubling
<1>2. Pow2 = [k \in 0 .. 31 |-> IF k = 0 THEN 1 ELSE 2 * Pow2[k - 1]]
  BY <1>1, Zenon DEF Pow2
<1>3. Pow2[0] = 1 /\ \A k \in 1 .. 31 : Pow2[k] = 2 * Pow2[k - 1]
  BY <1>2
<1>4. /\ Pow2[1] = 2 * Pow2[0] /\ Pow2[2] = 2 * Pow2[1] /\ Pow2[3] = 2 * Pow2[2]
      /\ Pow2[4] = 2 * Pow2[3] /\ Pow2[5] = 2 * Pow2[4] /\ Pow2[6] = 2 * Pow2[5]
      /\ Pow2[7] = 2 * Pow2[6] /\ Pow2[8] = 2 * Pow2[7] /\ Pow2[9] = 2 * Pow2[8]
      /\ Pow2[10] = 2 * Pow2[9] /\ Pow2[11] = 2 * Pow2[10] /\ Pow2[12] = 2 * Pow2[11]
      /\ Pow2[13] = 2 * Pow2[12] /\ Pow2[14] = 2 * Pow2[13] /\ Pow2[15] = 2 * Pow2[14]
  BY <1>3
<1> QED
  BY <1>3, <1>4

\* The bits of a byte.
LEMMA BitsOf ==
  ASSUME NEW v \in 0 .. 255
  PROVE  /\ Bits(v) \in Seq({0, 1}) /\ Len(Bits(v)) = 8
         /\ Bits(v)[1] = (v \div 128) % 2 /\ Bits(v)[2] = (v \div 64) % 2
         /\ Bits(v)[3] = (v \div 32) % 2 /\ Bits(v)[4] = (v \div 16) % 2
         /\ Bits(v)[5] = (v \div 8) % 2 /\ Bits(v)[6] = (v \div 4) % 2
         /\ Bits(v)[7] = (v \div 2) % 2 /\ Bits(v)[8] = v % 2
<1>1. /\ Bit(v, 7) = (v \div 128) % 2 /\ Bit(v, 6) = (v \div 64) % 2
      /\ Bit(v, 5) = (v \div 32) % 2 /\ Bit(v, 4) = (v \div 16) % 2
      /\ Bit(v, 3) = (v \div 8) % 2 /\ Bit(v, 2) = (v \div 4) % 2
      /\ Bit(v, 1) = (v \div 2) % 2 /\ Bit(v, 0) = v % 2
  BY Powers DEF Bit
<1>2. \A j \in 1 .. 8 : Bit(v, 8 - j) \in {0, 1}
  <2> SUFFICES ASSUME NEW j \in 1 .. 8 PROVE Bit(v, 8 - j) \in {0, 1}
    OBVIOUS
  <2>1. j \in {1, 2, 3, 4, 5, 6, 7, 8}
    OBVIOUS
  <2>2. /\ 8 - 1 = 7 /\ 8 - 2 = 6 /\ 8 - 3 = 5 /\ 8 - 4 = 4
        /\ 8 - 5 = 3 /\ 8 - 6 = 2 /\ 8 - 7 = 1 /\ 8 - 8 = 0
    OBVIOUS
  <2>3. \A a \in {7, 6, 5, 4, 3, 2, 1, 0} : Bit(v, a) \in {0, 1}
    BY <1>1
  <2> QED
    BY <2>1, <2>2, <2>3
<1>3. Bits(v) = [j \in 1 .. 8 |-> Bit(v, 8 - j)]
  BY DEF Bits
<1>4. Bits(v) \in Seq({0, 1}) /\ Len(Bits(v)) = 8
  BY <1>2, <1>3
<1>5. /\ Bits(v)[1] = Bit(v, 7) /\ Bits(v)[2] = Bit(v, 6) /\ Bits(v)[3] = Bit(v, 5)
      /\ Bits(v)[4] = Bit(v, 4) /\ Bits(v)[5] = Bit(v, 3) /\ Bits(v)[6] = Bit(v, 2)
      /\ Bits(v)[7] = Bit(v, 1) /\ Bits(v)[8] = Bit(v, 0)
  BY <1>3
<1> QED
  BY <1>1, <1>4, <1>5

\* What a division gives, and that nothing else does.
LEMMA Division ==
  ASSUME NEW z \in Int, NEW d \in Nat \ {0}
  PROVE  /\ z \div d \in Int /\ z % d \in 0 .. d - 1
         /\ z = d * (z \div d) + (z % d)
  OBVIOUS

\* Quotient and remainder are the only ones that give back the number.
LEMMA Quotient ==
  ASSUME NEW d \in Nat \ {0}, NEW q \in Int, NEW r \in 0 .. d - 1
  PROVE  (d * q + r) \div d = q /\ (d * q + r) % d = r
<1> DEFINE z == d * q + r
           p == z \div d
           s == z % d
<1>1. z \in Int /\ p \in Int /\ s \in 0 .. d - 1 /\ z = d * p + s
  <2>1. z \in Int
    OBVIOUS
  <2> QED
    BY <2>1, Division
<1>2. d * (p - q) = r - s
  BY <1>1
<1>3. p = q
  <2>1. CASE p > q
    <3>1. d * (p - q) >= d
      BY <1>1, <2>1
    <3> QED
      BY <1>1, <1>2, <3>1
  <2>2. CASE p < q
    <3>1. d * (p - q) <= -d
      BY <1>1, <2>2
    <3> QED
      BY <1>1, <1>2, <3>1
  <2> QED
    BY <1>1, <2>1, <2>2
<1> QED
  BY <1>1, <1>2, <1>3

\* Two divisions are one, by the product.
LEMMA NestedQuotient ==
  ASSUME NEW z \in Int, NEW c \in Nat \ {0}, NEW d \in Nat \ {0}
  PROVE  (z \div c) \div d = z \div (c * d)
<1> DEFINE q == z \div c
           r == z % c
           p == q \div d
           s == q % d
<1>1. q \in Int /\ r \in 0 .. c - 1 /\ z = c * q + r
  BY Division
<1>2. p \in Int /\ s \in 0 .. d - 1 /\ q = d * p + s
  BY <1>1, Division
<1> HIDE DEF q, r, p, s
<1>3. z = (c * d) * p + (c * s + r)
  BY <1>1, <1>2
<1>4. c * d \in Nat \ {0}
  OBVIOUS
<1>5. c * s + r \in 0 .. (c * d) - 1
  <2>1. c * s \in Nat /\ c * s <= c * (d - 1)
    BY <1>2
  <2>2. c * (d - 1) = (c * d) - c
    OBVIOUS
  <2> QED
    BY <2>1, <2>2, <1>1
<1>6. z \div (c * d) = p
  BY <1>2, <1>3, <1>4, <1>5, Quotient
<1> QED
  BY <1>6 DEF p, q
\* The same, the product being named.
LEMMA TwoQuotients ==
  ASSUME NEW z \in Int, NEW c \in Nat \ {0}, NEW d \in Nat \ {0}, NEW e, e = c * d
  PROVE  (z \div c) \div d = z \div e
BY NestedQuotient, Zenon

\* A number is made of its rest by 2^k and its upper bits.
LEMMA Halves ==
  ASSUME NEW v \in Nat
  PROVE  \A c \in Nat \ {0} : /\ v \div c \in Nat /\ (v \div c) % 2 \in {0, 1}
                             /\ v \div c = 2 * (v \div (2 * c)) + ((v \div c) % 2)
<1> SUFFICES ASSUME NEW c \in Nat \ {0}
             PROVE  /\ v \div c \in Nat /\ (v \div c) % 2 \in {0, 1}
                    /\ v \div c = 2 * (v \div (2 * c)) + ((v \div c) % 2)
  OBVIOUS
<1>1. v \div c \in Nat
  OBVIOUS
<1>2. (v \div c) \div 2 = v \div (c * 2)
  <2>1. v \in Int /\ 2 \in Nat \ {0}
    OBVIOUS
  <2> QED
    BY <2>1, NestedQuotient, Zenon
<1>3. c * 2 = 2 * c
  OBVIOUS
<1> DEFINE q == v \div c
<1>4. q % 2 \in {0, 1} /\ q = 2 * (q \div 2) + (q % 2)
  <2>1. q \in Int
    BY <1>1
  <2> HIDE DEF q
  <2>2. q % 2 \in 0 .. 1 /\ q = 2 * (q \div 2) + (q % 2)
    BY <2>1, Division
  <2> QED
    BY <2>2
<1> QED
  BY <1>1, <1>2, <1>3, <1>4, Zenon DEF q

\* The upper bits of a byte, each time with one bit more.
LEMMA UpperBits ==
  ASSUME NEW v \in 0 .. 255,
         NEW a, a = (v \div 128) % 2, NEW b, b = (v \div 64) % 2, NEW c, c = (v \div 32) % 2,
         NEW d, d = (v \div 16) % 2, NEW e, e = (v \div 8) % 2, NEW f, f = (v \div 4) % 2,
         NEW g, g = (v \div 2) % 2, NEW h, h = v % 2
  PROVE  /\ v \div 128 = a /\ v \div 64 = 2 * a + b /\ v \div 32 = 4 * a + 2 * b + c
         /\ v \div 16 = 8 * a + 4 * b + 2 * c + d
         /\ v \div 8 = 16 * a + 8 * b + 4 * c + 2 * d + e
         /\ v \div 4 = 32 * a + 16 * b + 8 * c + 4 * d + 2 * e + f
         /\ v \div 2 = 64 * a + 32 * b + 16 * c + 8 * d + 4 * e + 2 * f + g
         /\ v = 128 * a + 64 * b + 32 * c + 16 * d + 8 * e + 4 * f + 2 * g + h
         /\ {a, b, c, d, e, f, g, h} \subseteq {0, 1}
<1> DEFINE H(x) == v \div x
           B(x) == (v \div x) % 2
<1>1. \A x \in Nat \ {0} : H(x) \in Nat /\ B(x) \in {0, 1} /\ H(x) = 2 * H(2 * x) + B(x)
  <2>1. v \in Nat
    OBVIOUS
  <2> QED
    BY <2>1, Halves, Zenon
<1>2. H(1) = v /\ B(1) = h /\ H(256) = 0
  OBVIOUS
<1>3. /\ a = B(128) /\ b = B(64) /\ c = B(32) /\ d = B(16) /\ e = B(8) /\ f = B(4) /\ g = B(2)
  OBVIOUS
<1> HIDE DEF H, B
<1>4. /\ H(128) = 2 * H(256) + B(128) /\ H(64) = 2 * H(128) + B(64)
      /\ H(32) = 2 * H(64) + B(32) /\ H(16) = 2 * H(32) + B(16)
      /\ H(8) = 2 * H(16) + B(8) /\ H(4) = 2 * H(8) + B(4)
      /\ H(2) = 2 * H(4) + B(2) /\ H(1) = 2 * H(2) + B(1)
  <2>1. /\ H(128) = 2 * H(2 * 128) + B(128) /\ H(64) = 2 * H(2 * 64) + B(64)
        /\ H(32) = 2 * H(2 * 32) + B(32) /\ H(16) = 2 * H(2 * 16) + B(16)
        /\ H(8) = 2 * H(2 * 8) + B(8) /\ H(4) = 2 * H(2 * 4) + B(4)
        /\ H(2) = 2 * H(2 * 2) + B(2) /\ H(1) = 2 * H(2 * 1) + B(1)
    BY <1>1
  <2>2. /\ 2 * 128 = 256 /\ 2 * 64 = 128 /\ 2 * 32 = 64 /\ 2 * 16 = 32 /\ 2 * 8 = 16
        /\ 2 * 4 = 8 /\ 2 * 2 = 4 /\ 2 * 1 = 2
    OBVIOUS
  <2> QED
    BY <2>1, <2>2, Zenon
<1>5. /\ a \in {0, 1} /\ b \in {0, 1} /\ c \in {0, 1} /\ d \in {0, 1}
      /\ e \in {0, 1} /\ f \in {0, 1} /\ g \in {0, 1} /\ h \in {0, 1}
  <2>1. /\ B(1) \in {0, 1} /\ B(2) \in {0, 1} /\ B(4) \in {0, 1} /\ B(8) \in {0, 1}
        /\ B(16) \in {0, 1} /\ B(32) \in {0, 1} /\ B(64) \in {0, 1} /\ B(128) \in {0, 1}
    BY <1>1
  <2> QED
    BY <2>1, <1>2, <1>3, Zenon
<1>6. H(128) = a
  BY <1>2, <1>3, <1>4, <1>5
<1>7. H(64) = 2 * a + b
  BY <1>3, <1>4, <1>6, Zenon
<1>8. H(32) = 4 * a + 2 * b + c
  <2>1. H(32) = 2 * (2 * a + b) + c
    BY <1>3, <1>4, <1>7, Zenon
  <2> QED
    BY <2>1, <1>5
<1>9. H(16) = 8 * a + 4 * b + 2 * c + d
  <2>1. H(16) = 2 * (4 * a + 2 * b + c) + d
    BY <1>3, <1>4, <1>8, Zenon
  <2> QED
    BY <2>1, <1>5
<1>10. H(8) = 16 * a + 8 * b + 4 * c + 2 * d + e
  <2>1. H(8) = 2 * (8 * a + 4 * b + 2 * c + d) + e
    BY <1>3, <1>4, <1>9, Zenon
  <2> QED
    BY <2>1, <1>5
<1>11. H(4) = 32 * a + 16 * b + 8 * c + 4 * d + 2 * e + f
  <2>1. H(4) = 2 * (16 * a + 8 * b + 4 * c + 2 * d + e) + f
    BY <1>3, <1>4, <1>10, Zenon
  <2> QED
    BY <2>1, <1>5
<1>12. H(2) = 64 * a + 32 * b + 16 * c + 8 * d + 4 * e + 2 * f + g
  <2>1. H(2) = 2 * (32 * a + 16 * b + 8 * c + 4 * d + 2 * e + f) + g
    BY <1>3, <1>4, <1>11, Zenon
  <2> QED
    BY <2>1, <1>5
<1>13. v = 128 * a + 64 * b + 32 * c + 16 * d + 8 * e + 4 * f + 2 * g + h
  <2>1. v = 2 * (64 * a + 32 * b + 16 * c + 8 * d + 4 * e + 2 * f + g) + h
    BY <1>2, <1>4, <1>12, Zenon
  <2> QED
    BY <2>1, <1>5
<1>14. {a, b, c, d, e, f, g, h} \subseteq {0, 1}
  BY <1>5
<1> QED
  BY <1>6, <1>7, <1>8, <1>9, <1>10, <1>11, <1>12, <1>13, <1>14, Zenon DEF H

\* A byte is made of its bits.
LEMMA ByteOfBits == \A v \in 0 .. 255 : Byte(Bits(v)) = v
<1> SUFFICES ASSUME NEW v \in 0 .. 255 PROVE Byte(Bits(v)) = v
  OBVIOUS
<1>1. Byte(Bits(v)) =
        128 * ((v \div 128) % 2) + 64 * ((v \div 64) % 2) + 32 * ((v \div 32) % 2)
        + 16 * ((v \div 16) % 2) + 8 * ((v \div 8) % 2) + 4 * ((v \div 4) % 2)
        + 2 * ((v \div 2) % 2) + (v % 2)
  BY BitsOf, Zenon DEF Byte
<1> QED
  BY <1>1, UpperBits

\* The low byte of answer when k bits of r have come, after ones.
Low(r, k) == 256 - Pow2[k] + r \div Pow2[8 - k]

\* It starts with ones and ends with the byte; before that, the bit that ends a wait is set.
LEMMA LowEnds ==
  ASSUME NEW r \in 0 .. 255
  PROVE  /\ Low(r, 0) = 255 /\ Low(r, 8) = r
         /\ \A k \in 0 .. 8 : Low(r, k) \in 0 .. 255
         /\ \A k \in 0 .. 7 : Low(r, k) >= 128
<1>1. /\ Low(r, 0) = 255 /\ Low(r, 1) = 254 + (r \div 128) /\ Low(r, 2) = 252 + (r \div 64)
      /\ Low(r, 3) = 248 + (r \div 32) /\ Low(r, 4) = 240 + (r \div 16) /\ Low(r, 5) = 224 + (r \div 8)
      /\ Low(r, 6) = 192 + (r \div 4) /\ Low(r, 7) = 128 + (r \div 2) /\ Low(r, 8) = r
  BY Powers DEF Low
<1>2. \A k \in 0 .. 8 : k \in {0, 1, 2, 3, 4, 5, 6, 7, 8}
  OBVIOUS
<1>3. \A k \in {0, 1, 2, 3, 4, 5, 6, 7, 8} : Low(r, k) \in 0 .. 255 /\ (k # 8 => Low(r, k) >= 128)
  BY <1>1
<1>4. \A k \in 0 .. 8 : Low(r, k) \in 0 .. 255 /\ (k # 8 => Low(r, k) >= 128)
  BY <1>2, <1>3
<1>5. \A k \in 0 .. 7 : k \in 0 .. 8 /\ k # 8
  OBVIOUS
<1>6. \A k \in 0 .. 7 : Low(r, k) >= 128
  BY <1>4, <1>5, Zenon
<1> QED
  BY <1>1, <1>4, <1>6, Zenon

\* Until the byte is there.
LEMMA LowStill ==
  ASSUME NEW r \in 0 .. 255, NEW k \in 0 .. 7
  PROVE  Low(r, k) >= 128
<1>1. \A j \in 0 .. 7 : Low(r, j) >= 128
  BY LowEnds, Zenon
<1> QED
  BY <1>1, Zenon

\* One more bit of r.
LEMMA LowNext ==
  ASSUME NEW r \in 0 .. 255, NEW k \in 0 .. 7
  PROVE  (2 * Low(r, k) + Bits(r)[k + 1]) % 256 = Low(r, k + 1)
<1> DEFINE L(j) == Low(r, j)
           B(j) == Bits(r)[j]
<1>1. /\ L(0) = 255 /\ L(1) = 254 + (r \div 128) /\ L(2) = 252 + (r \div 64)
      /\ L(3) = 248 + (r \div 32) /\ L(4) = 240 + (r \div 16) /\ L(5) = 224 + (r \div 8)
      /\ L(6) = 192 + (r \div 4) /\ L(7) = 128 + (r \div 2) /\ L(8) = r
  BY Powers DEF Low
<1>2. /\ B(1) = (r \div 128) % 2 /\ B(2) = (r \div 64) % 2 /\ B(3) = (r \div 32) % 2
      /\ B(4) = (r \div 16) % 2 /\ B(5) = (r \div 8) % 2 /\ B(6) = (r \div 4) % 2
      /\ B(7) = (r \div 2) % 2 /\ B(8) = r % 2
  BY BitsOf
<1> HIDE DEF L, B
<1> DEFINE a == (r \div 128) % 2
           b == (r \div 64) % 2
           c == (r \div 32) % 2
           d == (r \div 16) % 2
           e == (r \div 8) % 2
           f == (r \div 4) % 2
           g == (r \div 2) % 2
           h == r % 2
<1>3. /\ r \div 128 = a /\ r \div 64 = 2 * a + b /\ r \div 32 = 4 * a + 2 * b + c
      /\ r \div 16 = 8 * a + 4 * b + 2 * c + d
      /\ r \div 8 = 16 * a + 8 * b + 4 * c + 2 * d + e
      /\ r \div 4 = 32 * a + 16 * b + 8 * c + 4 * d + 2 * e + f
      /\ r \div 2 = 64 * a + 32 * b + 16 * c + 8 * d + 4 * e + 2 * f + g
      /\ r = 128 * a + 64 * b + 32 * c + 16 * d + 8 * e + 4 * f + 2 * g + h
      /\ {a, b, c, d, e, f, g, h} \subseteq {0, 1}
  <2> HIDE DEF a, b, c, d, e, f, g, h
  <2> QED
    BY UpperBits DEF a, b, c, d, e, f, g, h
<1>4. /\ L(0) = 255 /\ L(1) = 254 + a /\ L(2) = 252 + (2 * a + b)
      /\ L(3) = 248 + (4 * a + 2 * b + c) /\ L(4) = 240 + (8 * a + 4 * b + 2 * c + d)
      /\ L(5) = 224 + (16 * a + 8 * b + 4 * c + 2 * d + e)
      /\ L(6) = 192 + (32 * a + 16 * b + 8 * c + 4 * d + 2 * e + f)
      /\ L(7) = 128 + (64 * a + 32 * b + 16 * c + 8 * d + 4 * e + 2 * f + g)
      /\ L(8) = 128 * a + 64 * b + 32 * c + 16 * d + 8 * e + 4 * f + 2 * g + h
      /\ B(1) = a /\ B(2) = b /\ B(3) = c /\ B(4) = d /\ B(5) = e /\ B(6) = f /\ B(7) = g
      /\ B(8) = h
  <2> HIDE DEF a, b, c, d, e, f, g, h
  <2>1. /\ B(1) = a /\ B(2) = b /\ B(3) = c /\ B(4) = d /\ B(5) = e /\ B(6) = f /\ B(7) = g
        /\ B(8) = h
    BY <1>2, Zenon DEF a, b, c, d, e, f, g, h
  <2>2. /\ L(0) = 255 /\ L(1) = 254 + a /\ L(2) = 252 + (2 * a + b)
        /\ L(3) = 248 + (4 * a + 2 * b + c) /\ L(4) = 240 + (8 * a + 4 * b + 2 * c + d)
    BY <1>1, <1>3
  <2>3. /\ L(5) = 224 + (16 * a + 8 * b + 4 * c + 2 * d + e)
        /\ L(6) = 192 + (32 * a + 16 * b + 8 * c + 4 * d + 2 * e + f)
    BY <1>1, <1>3
  <2>4. L(7) = 128 + (64 * a + 32 * b + 16 * c + 8 * d + 4 * e + 2 * f + g)
    BY <1>1, <1>3
  <2>5. L(8) = 128 * a + 64 * b + 32 * c + 16 * d + 8 * e + 4 * f + 2 * g + h
    BY <1>1, <1>3
  <2> QED
    BY <2>1, <2>2, <2>3, <2>4, <2>5
<1> HIDE DEF a, b, c, d, e, f, g, h
<1>5. /\ 2 * L(0) + B(1) = 256 * 1 + L(1) /\ 2 * L(1) + B(2) = 256 * 1 + L(2)
      /\ 2 * L(2) + B(3) = 256 * 1 + L(3) /\ 2 * L(3) + B(4) = 256 * 1 + L(4)
      /\ 2 * L(4) + B(5) = 256 * 1 + L(5) /\ 2 * L(5) + B(6) = 256 * 1 + L(6)
      /\ 2 * L(6) + B(7) = 256 * 1 + L(7) /\ 2 * L(7) + B(8) = 256 * 1 + L(8)
  <2>7. {a, b, c, d, e, f, g, h} \subseteq {0, 1}
    BY <1>3, Zenon
  <2>0. /\ a \in Int /\ b \in Int /\ c \in Int /\ d \in Int
        /\ e \in Int /\ f \in Int /\ g \in Int /\ h \in Int
    BY <2>7
  <2>1. 2 * L(0) + B(1) = 256 * 1 + L(1) /\ 2 * L(1) + B(2) = 256 * 1 + L(2)
    BY <1>4, <2>0
  <2>2. 2 * L(2) + B(3) = 256 * 1 + L(3) /\ 2 * L(3) + B(4) = 256 * 1 + L(4)
    BY <1>4, <2>0
  <2>3. 2 * L(4) + B(5) = 256 * 1 + L(5)
    BY <1>4, <2>0
  <2>4. 2 * L(5) + B(6) = 256 * 1 + L(6)
    BY <1>4, <2>0
  <2>5. 2 * L(6) + B(7) = 256 * 1 + L(7)
    BY <1>4, <2>0
  <2>6. 2 * L(7) + B(8) = 256 * 1 + L(8)
    BY <1>4, <2>0
  <2> QED
    BY <2>1, <2>2, <2>3, <2>4, <2>5, <2>6
<1>6. k \in {0, 1, 2, 3, 4, 5, 6, 7}
  OBVIOUS
<1>7. 2 * L(k) + B(k + 1) = 256 * 1 + L(k + 1)
  <2>1. /\ 0 + 1 = 1 /\ 1 + 1 = 2 /\ 2 + 1 = 3 /\ 3 + 1 = 4 /\ 4 + 1 = 5 /\ 5 + 1 = 6
        /\ 6 + 1 = 7 /\ 7 + 1 = 8
    OBVIOUS
  <2>2. \A j \in {0, 1, 2, 3, 4, 5, 6, 7} : 2 * L(j) + B(j + 1) = 256 * 1 + L(j + 1)
    BY <1>5, <2>1
  <2> QED
    BY <1>6, <2>2, Zenon
<1>8. L(k + 1) \in 0 .. 255
  <2>1. k + 1 \in 0 .. 8
    OBVIOUS
  <2> QED
    BY <2>1, LowEnds, Zenon DEF L
<1>9. (256 * 1 + L(k + 1)) % 256 = L(k + 1)
  <2>1. \A x \in 0 .. 255 : (256 * 1 + x) % 256 = x
    OBVIOUS
  <2> QED
    BY <1>8, <2>1, Zenon
<1> QED
  BY <1>7, <1>9, Zenon DEF L, B

---------------------------------------------------------------------------
(* What is sent to the card.                                               *)

\* A shift to the left undone by a longer one to the right.
LEMMA ScaledBack ==
  ASSUME NEW v \in Nat, NEW p \in Nat \ {0}, NEW q \in Nat \ {0}
  PROVE  (v * p) \div (p * q) = v \div q
<1>1. v * p \in Int /\ v * p = p * v + 0 /\ 0 \in 0 .. p - 1
  OBVIOUS
<1>2. (p * v + 0) \div p = v
  BY Quotient
<1>3. ((v * p) \div p) \div q = (v * p) \div (p * q)
  BY <1>1, NestedQuotient
<1> QED
  BY <1>1, <1>2, <1>3, Zenon

\* The data register of sdcard_send after each of its steps.
LEMMA Sending ==
  ASSUME NEW v \in 0 .. 255
  PROVE  \A k \in 1 .. 8 : sdcard_send(v)[2 * k][1] = Bit(v * Pow2[k - 1], 7)
<1> DEFINE P == <<1, 1, 2, 2, 4, 4, 8, 8, 16, 16, 32, 32, 64, 64, 128, 128, 256>>
           d == [i \in 0 .. 16 |-> v * P[i + 1]]
<1>1. d = [i \in 0 .. 16 |-> IF i = 0 THEN v ELSE Shifted(d[i - 1], (i - 1) % 2)]
  <2> SUFFICES ASSUME NEW i \in 0 .. 16
               PROVE  d[i] = IF i = 0 THEN v ELSE Shifted(d[i - 1], (i - 1) % 2)
    BY DEF d
  <2>1. CASE i = 0
    BY <2>1
  <2>2. CASE i # 0
    <3>1. d[i] = v * P[i + 1] /\ d[i - 1] = v * P[i] /\ (i - 1) % 2 \in {0, 1}
      BY <2>2
    <3>2. P[i] \in Nat /\ P[i + 1] = IF (i - 1) % 2 = 1 THEN 2 * P[i] ELSE P[i]
      BY <2>2
    <3> HIDE DEF d, P
    <3>3. Pow2[(i - 1) % 2] = IF (i - 1) % 2 = 1 THEN 2 ELSE 1
      BY <3>1, Powers
    <3>4. Shifted(d[i - 1], (i - 1) % 2) = (v * P[i]) * (IF (i - 1) % 2 = 1 THEN 2 ELSE 1)
      BY <3>1, <3>3, Zenon DEF Shifted
    <3>5. \A p \in Nat, c \in {0, 1} :
            (v * p) * (IF c = 1 THEN 2 ELSE 1) = v * IF c = 1 THEN 2 * p ELSE p
      OBVIOUS
    <3> QED
      BY <2>2, <3>1, <3>2, <3>4, <3>5, Zenon
  <2> QED
    BY <2>1, <2>2
<1>2. \A k \in 1 .. 8 : d[2 * k - 1] = v * P[2 * k]
  OBVIOUS
<1>3. \A k \in 1 .. 8 : P[2 * k] = Pow2[k - 1]
  <2> SUFFICES ASSUME NEW k \in 1 .. 8 PROVE P[2 * k] = Pow2[k - 1]
    OBVIOUS
  <2>1. k \in {1, 2, 3, 4, 5, 6, 7, 8}
    OBVIOUS
  <2> QED
    BY <2>1, Powers
<1> HIDE DEF d, P
<1> DEFINE D == CHOOSE f : f = [i \in 0 .. 16 |-> IF i = 0 THEN v ELSE Shifted(f[i - 1], (i - 1) % 2)]
<1>4. D = [i \in 0 .. 16 |-> IF i = 0 THEN v ELSE Shifted(D[i - 1], (i - 1) % 2)]
  BY <1>1, Zenon
<1>5. \A i \in 0 .. 16 : D[i] = IF i = 0 THEN v ELSE Shifted(D[i - 1], (i - 1) % 2)
  <2> HIDE DEF D
  <2> QED
    BY <1>4
<1>6. \A i \in 0 .. 16 : d[i] = IF i = 0 THEN v ELSE Shifted(d[i - 1], (i - 1) % 2)
  BY <1>1
<1>7. sdcard_send(v) = [i \in 1 .. 16 |-> <<Bit(D[i - 1], 7), (i - 1) % 2>>]
  BY DEF sdcard_send
<1> HIDE DEF D
<1> DEFINE S == {i \in Nat : i <= 16 => D[i] = d[i]}
<1>8. 0 \in S
  BY <1>5, <1>6
<1>9. ASSUME NEW i \in Nat, i \in S PROVE i + 1 \in S
  <2> SUFFICES ASSUME i + 1 <= 16 PROVE D[i + 1] = d[i + 1]
    OBVIOUS
  <2>1. i + 1 \in 0 .. 16 /\ i + 1 # 0 /\ (i + 1) - 1 = i /\ D[i] = d[i]
    BY <1>9
  <2>2. D[i + 1] = Shifted(D[(i + 1) - 1], ((i + 1) - 1) % 2)
    BY <1>5, <2>1, Zenon
  <2>3. d[i + 1] = Shifted(d[(i + 1) - 1], ((i + 1) - 1) % 2)
    BY <1>6, <2>1, Zenon
  <2> QED
    BY <2>1, <2>2, <2>3, Zenon
<1>10. Nat \subseteq S
  <2> HIDE DEF S
  <2> QED
    BY <1>8, <1>9, Induction
<1> SUFFICES ASSUME NEW k \in 1 .. 8
             PROVE  sdcard_send(v)[2 * k][1] = Bit(v * Pow2[k - 1], 7)
  OBVIOUS
<1>11. D[2 * k - 1] = d[2 * k - 1]
  BY <1>10
<1>12. 2 * k \in 1 .. 16
  OBVIOUS
<1>13. sdcard_send(v)[2 * k] = <<Bit(D[2 * k - 1], 7), (2 * k - 1) % 2>>
  BY <1>7, <1>12, Zenon
<1>14. sdcard_send(v)[2 * k][1] = Bit(D[2 * k - 1], 7)
  BY <1>13
<1> QED
  BY <1>2, <1>3, <1>11, <1>14, Zenon

\* The card receives the byte that was sent.
LEMMA ReceivedIs == \A v \in 0 .. 255 : Received(v) = v
<1> SUFFICES ASSUME NEW v \in 0 .. 255 PROVE Received(v) = v
  OBVIOUS
<1> DEFINE b == [k \in 1 .. 8 |-> sdcard_send(v)[2 * k][1]]
<1>1. \A k \in 1 .. 8 : b[k] = Bit(v * Pow2[k - 1], 7)
  BY Sending
<1> HIDE DEF b
<1>2. \A w : Bit(w, 7) = (w \div 128) % 2
  BY Powers DEF Bit
<1>3. /\ b[1] = Bit(v * 1, 7) /\ b[2] = Bit(v * 2, 7) /\ b[3] = Bit(v * 4, 7)
      /\ b[4] = Bit(v * 8, 7) /\ b[5] = Bit(v * 16, 7) /\ b[6] = Bit(v * 32, 7)
      /\ b[7] = Bit(v * 64, 7) /\ b[8] = Bit(v * 128, 7)
  BY <1>1, Powers
<1>4. /\ b[1] = (v \div 128) % 2 /\ b[2] = (v \div 64) % 2 /\ b[3] = (v \div 32) % 2
      /\ b[4] = (v \div 16) % 2 /\ b[5] = (v \div 8) % 2 /\ b[6] = (v \div 4) % 2
      /\ b[7] = (v \div 2) % 2 /\ b[8] = v % 2
  <2>1. /\ b[1] = ((v * 1) \div 128) % 2 /\ b[2] = ((v * 2) \div 128) % 2
        /\ b[3] = ((v * 4) \div 128) % 2 /\ b[4] = ((v * 8) \div 128) % 2
        /\ b[5] = ((v * 16) \div 128) % 2 /\ b[6] = ((v * 32) \div 128) % 2
        /\ b[7] = ((v * 64) \div 128) % 2 /\ b[8] = ((v * 128) \div 128) % 2
    BY <1>2, <1>3, Zenon
  <2>0. \A p, q \in Nat \ {0} : (v * p) \div (p * q) = v \div q
    BY ScaledBack
  <2>2. /\ (v * 1) \div 128 = v \div 128 /\ (v * 2) \div 128 = v \div 64
        /\ (v * 4) \div 128 = v \div 32 /\ (v * 8) \div 128 = v \div 16
        /\ (v * 16) \div 128 = v \div 8 /\ (v * 32) \div 128 = v \div 4
        /\ (v * 64) \div 128 = v \div 2 /\ (v * 128) \div 128 = v
    OBVIOUS
  <2> QED
    BY <2>1, <2>2, Zenon
<1>5. Byte(b) = Byte(Bits(v))
  BY <1>4, BitsOf, Zenon DEF Byte
<1>6. Byte(b) = v
  BY <1>5, ByteOfBits
<1> QED
  BY <1>6 DEF Received, b

\* The sector that is asked for is the one that is wanted.
LEMMA AddressIs == \A s \in Nat : s \div 65536 < 65536 => Address(s) = s
<1> SUFFICES ASSUME NEW s \in Nat, s \div 65536 < 65536 PROVE Address(s) = s
  OBVIOUS
<1> DEFINE q1 == s \div 256
           q2 == s \div 65536
           q3 == s \div 16777216
<1>1. q1 \in Nat /\ q2 \in Nat /\ q3 \in Nat /\ q2 < 65536
  OBVIOUS
<1>2. q1 \div 256 = q2 /\ q2 \div 256 = q3
  <2>1. /\ s \in Int /\ 256 \in Nat \ {0} /\ 65536 \in Nat \ {0} /\ 16777216 \in Nat \ {0}
        /\ 65536 = 256 * 256 /\ 16777216 = 65536 * 256
    OBVIOUS
  <2>2. (s \div 256) \div 256 = s \div 65536
    BY <2>1, TwoQuotients
  <2>3. (s \div 65536) \div 256 = s \div 16777216
    BY <2>1, TwoQuotients
  <2> QED
    BY <2>2, <2>3
<1>3. /\ s = 256 * q1 + (s % 256) /\ s % 256 \in 0 .. 255
      /\ q1 = 256 * (q1 \div 256) + (q1 % 256) /\ q1 % 256 \in 0 .. 255
      /\ q2 = 256 * (q2 \div 256) + (q2 % 256) /\ q2 % 256 \in 0 .. 255
  <2>1. q1 \in Nat /\ q2 \in Nat
    BY <1>1
  <2> HIDE DEF q2
  <2>2. s = 256 * q1 + (s % 256) /\ s % 256 \in 0 .. 255
    OBVIOUS
  <2> HIDE DEF q1
  <2>3. q1 = 256 * (q1 \div 256) + (q1 % 256) /\ q1 % 256 \in 0 .. 255
    BY <2>1
  <2>4. q2 = 256 * (q2 \div 256) + (q2 % 256) /\ q2 % 256 \in 0 .. 255
    BY <2>1
  <2> QED
    BY <2>2, <2>3, <2>4
<1> DEFINE R(x) == Received(x)
<1>4. Address(s) = 16777216 * R(q3 % 256) + 65536 * R(q2 % 256) + 256 * R(q1 % 256) + R(s % 256)
  BY DEF Address
<1> HIDE DEF q1, q2, q3
<1>5. q3 < 256
  BY <1>1, <1>2, <1>3
<1>6. q3 % 256 = q3 /\ q3 \in 0 .. 255
  BY <1>1, <1>5
<1>7. R(q3 % 256) = q3 /\ R(q2 % 256) = q2 % 256 /\ R(q1 % 256) = q1 % 256 /\ R(s % 256) = s % 256
  BY <1>3, <1>6, ReceivedIs
<1> HIDE DEF R
<1>8. Address(s) = 16777216 * q3 + 65536 * (q2 % 256) + 256 * (q1 % 256) + (s % 256)
  BY <1>4, <1>7
<1> DEFINE r0 == s % 256
           r1 == q1 % 256
           r2 == q2 % 256
<1>9. /\ s = 256 * q1 + r0 /\ q1 = 256 * q2 + r1 /\ q2 = 256 * q3 + r2
      /\ r0 \in Nat /\ r1 \in Nat /\ r2 \in Nat
  BY <1>2, <1>3
<1>10. Address(s) = 16777216 * q3 + 65536 * r2 + 256 * r1 + r0
  BY <1>8
<1> HIDE DEF r0, r1, r2
<1> QED
  BY <1>1, <1>9, <1>10

---------------------------------------------------------------------------
(* What the card has still to send.                                        *)

\* Sequences of bits.
Stream == Seq({0, 1})

\* What is left in the card is the end of s, with ones in front of it.
Ends(o, s) ==
  \A j \in 1 .. Len(o) : o[j] = IF Len(o) - j < Len(s) THEN s[Len(s) - Len(o) + j] ELSE 1

\* One sequence behind another.
LEMMA Behind ==
  ASSUME NEW s \in Stream, NEW t \in Stream
  PROVE  /\ s \o t \in Stream /\ Len(s \o t) = Len(s) + Len(t) /\ Len(s) \in Nat /\ Len(t) \in Nat
         /\ \A j \in 1 .. Len(s) : (s \o t)[j] = s[j]
         /\ \A j \in 1 .. Len(t) : (s \o t)[Len(s) + j] = t[j]
BY DEF Stream

\* Two streams are the same when their bits are.
LEMMA SameBits ==
  ASSUME NEW s \in Stream, NEW t \in Stream, Len(s) = Len(t), \A j \in 1 .. Len(s) : s[j] = t[j]
  PROVE  s = t
BY DEF Stream

\* Ones.
LEMMA OnesIs ==
  ASSUME NEW w \in Nat
  PROVE  Ones(w) \in Stream /\ Len(Ones(w)) = w /\ \A j \in 1 .. w : Ones(w)[j] = 1
<1>1. Ones(w) = [j \in 1 .. w |-> 1] /\ 1 .. w = 1 .. w
  BY DEF Ones
<1> QED
  BY <1>1 DEF Stream

\* A clock takes the first bit.
LEMMA EndsTail ==
  ASSUME NEW o \in Stream, NEW s \in Stream, o # <<>>, Ends(o, s)
  PROVE  /\ Tail(o) \in Stream /\ Len(o) \in Nat \ {0} /\ Len(Tail(o)) = Len(o) - 1
         /\ Head(o) \in {0, 1}
         /\ Head(o) = IF Len(o) <= Len(s) THEN s[Len(s) - Len(o) + 1] ELSE 1
         /\ Ends(Tail(o), s)
<1>1. /\ Tail(o) \in Stream /\ Len(o) \in Nat \ {0} /\ Len(Tail(o)) = Len(o) - 1 /\ Len(s) \in Nat
      /\ Head(o) = o[1] /\ o[1] \in {0, 1} /\ \A j \in 1 .. Len(Tail(o)) : Tail(o)[j] = o[j + 1]
  BY DEF Stream
<1>2. Head(o) = IF Len(o) <= Len(s) THEN s[Len(s) - Len(o) + 1] ELSE 1
  <2>1. 1 \in 1 .. Len(o) /\ (Len(o) - 1 < Len(s) <=> Len(o) <= Len(s))
    BY <1>1
  <2>2. o[1] = IF Len(o) - 1 < Len(s) THEN s[Len(s) - Len(o) + 1] ELSE 1
    BY <2>1 DEF Ends
  <2> QED
    BY <1>1, <2>1, <2>2
<1>3. ASSUME NEW j \in 1 .. Len(Tail(o))
      PROVE  Tail(o)[j] = IF Len(Tail(o)) - j < Len(s) THEN s[Len(s) - Len(Tail(o)) + j] ELSE 1
  <2>1. j + 1 \in 1 .. Len(o) /\ Tail(o)[j] = o[j + 1]
    BY <1>1
  <2>2. o[j + 1] = IF Len(o) - (j + 1) < Len(s) THEN s[Len(s) - Len(o) + (j + 1)] ELSE 1
    BY <2>1 DEF Ends
  <2>3. Len(o) - (j + 1) = Len(Tail(o)) - j /\ Len(s) - Len(o) + (j + 1) = Len(s) - Len(Tail(o)) + j
    BY <1>1
  <2> QED
    BY <2>1, <2>2, <2>3
<1>4. Ends(Tail(o), s)
  BY <1>3, Zenon DEF Ends
<1> QED
  BY <1>1, <1>2, <1>4

\* Ones in front of a stream.
LEMMA OnesBefore ==
  ASSUME NEW w \in Nat, NEW s \in Stream
  PROVE  /\ Ones(w) \o s \in Stream /\ Len(Ones(w) \o s) = w + Len(s) /\ Len(s) \in Nat
         /\ \A j \in 1 .. w : (Ones(w) \o s)[j] = 1
         /\ \A j \in 1 .. Len(s) : (Ones(w) \o s)[w + j] = s[j]
<1>1. Ones(w) \in Stream /\ Len(Ones(w)) = w /\ \A j \in 1 .. w : Ones(w)[j] = 1
  BY OnesIs
<1>2. /\ Ones(w) \o s \in Stream /\ Len(Ones(w) \o s) = Len(Ones(w)) + Len(s) /\ Len(s) \in Nat
      /\ \A j \in 1 .. Len(Ones(w)) : (Ones(w) \o s)[j] = Ones(w)[j]
      /\ \A j \in 1 .. Len(s) : (Ones(w) \o s)[Len(Ones(w)) + j] = s[j]
  BY <1>1, Behind, Zenon
<1> QED
  BY <1>1, <1>2, Zenon

\* A stream in front of its end.
LEMMA EndsConcat ==
  ASSUME NEW w \in Nat, NEW s \in Stream
  PROVE  /\ Ones(w) \o s \in Stream /\ Len(Ones(w) \o s) = w + Len(s) /\ Len(s) \in Nat
         /\ Ends(Ones(w) \o s, s)
<1>1. /\ Ones(w) \o s \in Stream /\ Len(Ones(w) \o s) = w + Len(s) /\ Len(s) \in Nat
      /\ \A j \in 1 .. w : (Ones(w) \o s)[j] = 1
      /\ \A j \in 1 .. Len(s) : (Ones(w) \o s)[w + j] = s[j]
  BY OnesBefore
<1> DEFINE o == Ones(w) \o s
<1> HIDE DEF o
<1>2. ASSUME NEW j \in 1 .. Len(o)
      PROVE  o[j] = IF Len(o) - j < Len(s) THEN s[Len(s) - Len(o) + j] ELSE 1
  <2>1. Len(o) = w + Len(s) /\ Len(s) \in Nat
    BY <1>1 DEF o
  <2>2. CASE j <= w
    <3>1. ~(Len(o) - j < Len(s)) /\ j \in 1 .. w
      BY <2>1, <2>2
    <3>2. o[j] = 1
      BY <1>1, <3>1 DEF o
    <3> QED
      BY <3>1, <3>2
  <2>3. CASE j > w
    <3>1. Len(o) - j < Len(s) /\ j - w \in 1 .. Len(s) /\ w + (j - w) = j /\ Len(s) - Len(o) + j = j - w
      BY <2>1, <2>3
    <3>2. o[w + (j - w)] = s[j - w]
      BY <1>1, <3>1 DEF o
    <3> QED
      BY <3>1, <3>2
  <2> QED
    BY <2>2, <2>3
<1>3. Ends(o, s)
  BY <1>2, Zenon DEF Ends
<1> QED
  BY <1>1, <1>3 DEF o

\* A command ends what the card was sending, and then comes the answer.
LEMMA EndsAnswer ==
  ASSUME NEW o \in Stream, Len(o) <= 48, NEW w \in Nat, NEW s \in Stream
  PROVE  LET q == SubSeq(o, 49, Len(o)) \o Ones(w) \o s IN
         q \in Stream /\ Len(q) = w + Len(s) /\ Len(s) \in Nat /\ Ends(q, s)
<1>1. SubSeq(o, 49, Len(o)) = <<>>
  BY DEF Stream
<1>2. <<>> \o Ones(w) = Ones(w)
  BY OnesIs DEF Stream
<1>3. SubSeq(o, 49, Len(o)) \o Ones(w) \o s = Ones(w) \o s
  BY <1>1, <1>2
<1> QED
  BY <1>3, EndsConcat

\* What has been taken of a stream is of no interest.
LEMMA EndsLater ==
  ASSUME NEW o \in Stream, NEW u \in Stream, NEW t \in Stream, Ends(o, u \o t), Len(o) <= Len(t)
  PROVE  Ends(o, t)
<1>1. /\ Len(o) \in Nat /\ Len(u) \in Nat /\ Len(t) \in Nat /\ Len(u \o t) = Len(u) + Len(t)
      /\ \A j \in 1 .. Len(t) : (u \o t)[Len(u) + j] = t[j]
  BY Behind DEF Stream
<1>2. ASSUME NEW j \in 1 .. Len(o)
      PROVE  o[j] = IF Len(o) - j < Len(t) THEN t[Len(t) - Len(o) + j] ELSE 1
  <2>1. o[j] = IF Len(o) - j < Len(u \o t) THEN (u \o t)[Len(u \o t) - Len(o) + j] ELSE 1
    BY DEF Ends
  <2>2. /\ Len(o) - j < Len(u \o t) /\ Len(o) - j < Len(t)
        /\ Len(t) - Len(o) + j \in 1 .. Len(t)
        /\ Len(u \o t) - Len(o) + j = Len(u) + (Len(t) - Len(o) + j)
    BY <1>1
  <2> QED
    BY <1>1, <2>1, <2>2
<1> QED
  BY <1>2, Zenon DEF Ends

\* Ones in front of the end make no difference.
LEMMA EndsAfterOnes ==
  ASSUME NEW o \in Stream, NEW v \in Nat, NEW t \in Stream, Ends(o, Ones(v) \o t)
  PROVE  Ends(o, t)
<1>1. /\ Len(o) \in Nat /\ Len(t) \in Nat /\ Len(Ones(v) \o t) = v + Len(t)
      /\ \A j \in 1 .. v : (Ones(v) \o t)[j] = 1
      /\ \A j \in 1 .. Len(t) : (Ones(v) \o t)[v + j] = t[j]
  <2>1. Len(o) \in Nat
    BY DEF Stream
  <2> QED
    BY <2>1, OnesBefore, Zenon
<1> DEFINE s == Ones(v) \o t
<1>2. Ends(o, s) /\ Len(s) = v + Len(t) /\ (\A j \in 1 .. v : s[j] = 1)
      /\ (\A j \in 1 .. Len(t) : s[v + j] = t[j])
  BY <1>1
<1> HIDE DEF s
<1>3. ASSUME NEW j \in 1 .. Len(o)
      PROVE  o[j] = IF Len(o) - j < Len(t) THEN t[Len(t) - Len(o) + j] ELSE 1
  <2>1. o[j] = IF Len(o) - j < Len(s) THEN s[Len(s) - Len(o) + j] ELSE 1
    BY <1>2 DEF Ends
  <2>2. CASE Len(o) - j < Len(t)
    <3>1. /\ Len(o) - j < Len(s) /\ Len(t) - Len(o) + j \in 1 .. Len(t)
          /\ Len(s) - Len(o) + j = v + (Len(t) - Len(o) + j)
      BY <1>1, <1>2, <2>2
    <3> QED
      BY <1>2, <2>1, <2>2, <3>1
  <2>3. CASE ~(Len(o) - j < Len(t)) /\ Len(o) - j < Len(s)
    <3>1. Len(s) - Len(o) + j \in 1 .. v
      BY <1>1, <1>2, <2>3
    <3> QED
      BY <1>2, <2>1, <2>3, <3>1
  <2>4. CASE ~(Len(o) - j < Len(t)) /\ ~(Len(o) - j < Len(s))
    BY <2>1, <2>4
  <2> QED
    BY <2>2, <2>3, <2>4
<1> QED
  BY <1>3, Zenon DEF Ends

\* The bits of the data of a block, and the CRC.
DataBits(data) == [j \in 1 .. 8 * Bytes |-> Bits(data[(j - 1) \div 8 + 1])[((j - 1) % 8) + 1]]
Crc == Bits(170) \o Bits(170)

\* A block from the last bit of its token on.
Started(data) == <<0>> \o (DataBits(data) \o Crc)

\* The data of a sector.
Data == [1 .. Bytes -> 0 .. 255]

\* A byte is sent in eight bits.
LEMMA ByteBits ==
  ASSUME NEW v \in 0 .. 255
  PROVE  Bits(v) \in Stream /\ Len(Bits(v)) = 8
BY BitsOf DEF Stream

\* What a stream is made of.
LEMMA InStream ==
  ASSUME NEW s \in Stream, NEW j \in 1 .. Len(s)
  PROVE  s[j] \in {0, 1}
BY DEF Stream

\* The data are sent byte by byte.
LEMMA DataBitsIs ==
  ASSUME NEW data \in Data
  PROVE  /\ DataBits(data) \in Stream /\ Len(DataBits(data)) = 8 * Bytes
         /\ \A b \in 0 .. Bytes - 1, i \in 1 .. 8 : DataBits(data)[8 * b + i] = Bits(data[b + 1])[i]
<1> DEFINE E(j) == Bits(data[(j - 1) \div 8 + 1])[((j - 1) % 8) + 1]
<1>0. Bytes \in Nat \ {0} /\ 8 * Bytes \in Nat
  BY SdCardAssumption
<1>1. ASSUME NEW b \in 0 .. Bytes - 1, NEW i \in 1 .. 8
      PROVE  /\ 8 * b + i \in 1 .. 8 * Bytes /\ E(8 * b + i) = Bits(data[b + 1])[i]
             /\ Bits(data[b + 1])[i] \in {0, 1}
  <2>1. 8 * b + i \in 1 .. 8 * Bytes /\ (8 * b + i) - 1 = 8 * b + (i - 1) /\ i - 1 \in 0 .. 7
        /\ b \in Int
    BY <1>0
  <2>2. (8 * b + (i - 1)) \div 8 = b /\ (8 * b + (i - 1)) % 8 = i - 1
    <3>1. \A r \in 0 .. 7 : (8 * b + r) \div 8 = b /\ (8 * b + r) % 8 = r
      BY <2>1
    <3> QED
      BY <2>1, <3>1, Zenon
  <2>3. E(8 * b + i) = Bits(data[b + 1])[(i - 1) + 1]
    BY <2>1, <2>2, Zenon
  <2>4. (i - 1) + 1 = i
    OBVIOUS
  <2>5. data[b + 1] \in 0 .. 255
    BY <1>0 DEF Data
  <2>6. Bits(data[b + 1]) \in Stream /\ Len(Bits(data[b + 1])) = 8
    BY <2>5, ByteBits, Zenon
  <2>7. Bits(data[b + 1])[i] \in {0, 1}
    <3> DEFINE s == Bits(data[b + 1])
    <3>1. s \in Stream /\ Len(s) = 8
      BY <2>6
    <3> HIDE DEF s
    <3>2. s[i] \in {0, 1}
      BY <3>1, InStream
    <3> QED
      BY <3>2 DEF s
  <2> QED
    BY <2>1, <2>3, <2>4, <2>7, Zenon
<1>2. \A j \in 1 .. 8 * Bytes : E(j) \in {0, 1}
  <2> SUFFICES ASSUME NEW j \in 1 .. 8 * Bytes PROVE E(j) \in {0, 1}
    OBVIOUS
  <2> DEFINE b == (j - 1) \div 8
             i == ((j - 1) % 8) + 1
  <2>1. b \in 0 .. Bytes - 1 /\ i \in 1 .. 8 /\ 8 * b + i = j
    BY <1>0
  <2> HIDE DEF b, i, E
  <2> QED
    BY <1>1, <2>1
<1>3. DataBits(data) = [j \in 1 .. 8 * Bytes |-> E(j)]
  BY DEF DataBits
<1> HIDE DEF E
<1>4. DataBits(data) \in Stream /\ Len(DataBits(data)) = 8 * Bytes
  BY <1>0, <1>2, <1>3 DEF Stream
<1>5. ASSUME NEW b \in 0 .. Bytes - 1, NEW i \in 1 .. 8
      PROVE  DataBits(data)[8 * b + i] = Bits(data[b + 1])[i]
  BY <1>1, <1>3
<1> QED
  BY <1>4, <1>5

\* What the block is made of.
LEMMA StartedIs ==
  ASSUME NEW data \in Data
  PROVE  /\ Started(data) \in Stream /\ Len(Started(data)) = 8 * Bytes + 17 /\ Bytes \in Nat \ {0}
         /\ Started(data)[1] = 0
         /\ \A b \in 0 .. Bytes - 1, i \in 1 .. 8 :
              Started(data)[8 * b + i + 1] = Bits(data[b + 1])[i]
         /\ Block(data) = Ones(7) \o Started(data)
<1>0. Bytes \in Nat \ {0}
  BY SdCardAssumption
<1> DEFINE D == DataBits(data)
           c == Bits(170)
<1>1. D \in Stream /\ Len(D) = 8 * Bytes
  BY DataBitsIs
<1>2. c \in Stream /\ Len(c) = 8
  <2>1. 170 \in 0 .. 255
    OBVIOUS
  <2> QED
    BY <2>1, ByteBits
<1>3. <<0>> \in Stream /\ Len(<<0>>) = 1 /\ <<0>>[1] = 0
  BY DEF Stream
<1>4. Ones(7) \in Stream
  BY OnesIs
<1> DEFINE z == <<0>>
           u == Ones(7)
<1>5. Block(data) = u \o z \o D \o c \o c /\ Started(data) = z \o (D \o (c \o c))
  BY DEF Block, DataBits, Started, Crc
<1>6. \A b \in 0 .. Bytes - 1, i \in 1 .. 8 : D[8 * b + i] = Bits(data[b + 1])[i]
  BY DataBitsIs
<1>7. z \in Stream /\ Len(z) = 1 /\ z[1] = 0 /\ u \in Stream
  BY <1>3, <1>4
<1> HIDE DEF D, c, z, u
<1>8. /\ c \o c \in Stream /\ Len(c \o c) = 16 /\ u \o z \in Stream
  <2>1. c \o c \in Stream /\ Len(c \o c) = Len(c) + Len(c) /\ u \o z \in Stream
    BY <1>2, <1>7, Behind, Zenon
  <2> QED
    BY <1>2, <2>1
<1>9. /\ D \o (c \o c) \in Stream /\ Len(D \o (c \o c)) = 8 * Bytes + 16
      /\ \A j \in 1 .. 8 * Bytes : (D \o (c \o c))[j] = D[j]
  <2>1. /\ D \o (c \o c) \in Stream /\ Len(D \o (c \o c)) = Len(D) + Len(c \o c)
        /\ \A j \in 1 .. Len(D) : (D \o (c \o c))[j] = D[j]
    BY <1>1, <1>8, Behind, Zenon
  <2> QED
    BY <1>1, <1>8, <2>1, Zenon
<1> DEFINE t == D \o (c \o c)
<1>10. /\ z \o t \in Stream /\ Len(z \o t) = 1 + (8 * Bytes + 16) /\ (z \o t)[1] = 0
       /\ \A j \in 1 .. 8 * Bytes + 16 : (z \o t)[1 + j] = t[j]
  <2>1. t \in Stream /\ Len(t) = 8 * Bytes + 16
    BY <1>9
  <2> HIDE DEF t
  <2>2. /\ z \o t \in Stream /\ Len(z \o t) = Len(z) + Len(t)
        /\ \A j \in 1 .. Len(z) : (z \o t)[j] = z[j]
        /\ \A j \in 1 .. Len(t) : (z \o t)[Len(z) + j] = t[j]
    BY <1>7, <2>1, Behind, Zenon
  <2>3. 1 \in 1 .. 1
    OBVIOUS
  <2> QED
    BY <1>7, <2>1, <2>2, <2>3, Zenon
<1>11. ASSUME NEW b \in 0 .. Bytes - 1, NEW i \in 1 .. 8
       PROVE  (z \o t)[8 * b + i + 1] = Bits(data[b + 1])[i]
  <2>1. /\ 8 * b + i \in 1 .. 8 * Bytes /\ 8 * b + i \in 1 .. 8 * Bytes + 16
        /\ 8 * b + i + 1 = 1 + (8 * b + i)
    BY <1>0
  <2>2. t[8 * b + i] = Bits(data[b + 1])[i]
    BY <1>6, <1>9, <2>1, Zenon
  <2> HIDE DEF t
  <2>3. (z \o t)[1 + (8 * b + i)] = t[8 * b + i]
    BY <1>10, <2>1, Zenon
  <2>4. (z \o t)[8 * b + i + 1] = (z \o t)[1 + (8 * b + i)]
    BY <2>1
  <2> QED
    BY <2>2, <2>3, <2>4, Zenon
<1>12. u \o z \o D \o c \o c = u \o (z \o t)
  <2>1. \A p, q, r \in Stream : (p \o q) \o r = p \o (q \o r)
    BY DEF Stream
  <2>2. u \o z \o D \in Stream /\ D \o c \in Stream /\ z \o D \in Stream
    BY <1>1, <1>2, <1>7, <1>8, Behind
  <2>3. u \o z \o D \o c \o c = (u \o z \o D) \o (c \o c)
    BY <1>2, <2>1, <2>2, Zenon
  <2>4. (u \o z \o D) \o (c \o c) = (u \o z) \o (D \o (c \o c))
    BY <1>1, <1>8, <2>1, Zenon
  <2>5. (u \o z) \o t = u \o (z \o t)
    BY <1>7, <1>9, <2>1, Zenon
  <2> QED
    BY <2>3, <2>4, <2>5, Zenon
<1>13. 1 + (8 * Bytes + 16) = 8 * Bytes + 17
  BY <1>0
<1> QED
  BY <1>0, <1>5, <1>10, <1>11, <1>12, <1>13, Zenon DEF u

\* The answer to a read: the status, ones, and the block from the last bit of its token on.
LEMMA ReadAnswer ==
  ASSUME NEW data \in Data, NEW w \in Nat
  PROVE  Ones(w) \o Block(data) = Ones(w + 7) \o Started(data)
<1> DEFINE t == Started(data)
<1>1. t \in Stream /\ Block(data) = Ones(7) \o t
  BY StartedIs
<1> HIDE DEF t
<1>2. /\ Ones(7) \o t \in Stream /\ Len(Ones(7) \o t) = 7 + Len(t) /\ Len(t) \in Nat
      /\ \A j \in 1 .. 7 : (Ones(7) \o t)[j] = 1
      /\ \A j \in 1 .. Len(t) : (Ones(7) \o t)[7 + j] = t[j]
  BY <1>1, OnesBefore
<1> DEFINE s == Ones(7) \o t
           a == Ones(w) \o s
           b == Ones(w + 7) \o t
<1>3. /\ s \in Stream /\ Len(s) = 7 + Len(t) /\ (\A j \in 1 .. 7 : s[j] = 1)
      /\ (\A j \in 1 .. Len(t) : s[7 + j] = t[j])
  BY <1>2
<1>4. /\ a \in Stream /\ Len(a) = w + Len(s) /\ (\A j \in 1 .. w : a[j] = 1)
      /\ (\A j \in 1 .. Len(s) : a[w + j] = s[j])
  <2> HIDE DEF s
  <2> QED
    BY <1>3, OnesBefore
<1>5. /\ b \in Stream /\ Len(b) = w + 7 + Len(t) /\ (\A j \in 1 .. w + 7 : b[j] = 1)
      /\ (\A j \in 1 .. Len(t) : b[w + 7 + j] = t[j])
  <2>1. w + 7 \in Nat
    OBVIOUS
  <2> QED
    BY <1>1, <2>1, OnesBefore
<1> HIDE DEF s, a, b
<1>6. ASSUME NEW j \in 1 .. Len(a) PROVE a[j] = b[j]
  <2>1. CASE j <= w
    BY <1>2, <1>3, <1>4, <1>5, <2>1
  <2>2. CASE j > w /\ j <= w + 7
    <3>1. j - w \in 1 .. 7 /\ j - w \in 1 .. Len(s) /\ w + (j - w) = j /\ j \in 1 .. w + 7
      BY <1>2, <1>3, <2>2
    <3>2. a[w + (j - w)] = s[j - w] /\ s[j - w] = 1 /\ b[j] = 1
      BY <1>3, <1>4, <1>5, <3>1, Zenon
    <3> QED
      BY <3>1, <3>2
  <2>3. CASE j > w + 7
    <3>1. /\ j - w \in 1 .. Len(s) /\ w + (j - w) = j /\ j - w - 7 \in 1 .. Len(t)
          /\ 7 + (j - w - 7) = j - w /\ w + 7 + (j - w - 7) = j
      BY <1>2, <1>3, <1>4, <2>3
    <3>2. /\ a[w + (j - w)] = s[j - w] /\ s[7 + (j - w - 7)] = t[j - w - 7]
          /\ b[w + 7 + (j - w - 7)] = t[j - w - 7]
      BY <1>3, <1>4, <1>5, <3>1, Zenon
    <3> QED
      BY <3>1, <3>2, Zenon
  <2> QED
    BY <2>1, <2>2, <2>3
<1>7. Len(a) = Len(b)
  BY <1>2, <1>3, <1>4, <1>5
<1>8. a = b
  BY <1>4, <1>5, <1>6, <1>7, SameBits
<1> QED
  BY <1>1, <1>8, Zenon DEF a, b, s, t

\* A stream from the last bit of the start token on, and the data that it carries.
Carries(s, data) ==
  /\ s \in Stream /\ Len(s) = 8 * Bytes + 17 /\ s[1] = 0
  /\ \A b \in 0 .. Bytes - 1, i \in 1 .. 8 : s[8 * b + i + 1] = Bits(data[b + 1])[i]

\* A block carries its data.
LEMMA BlockCarries ==
  ASSUME NEW data \in Data
  PROVE  Carries(Started(data), data)
BY StartedIs, Zenon DEF Carries

\* The bits of the byte that is made of an error token, and those of ones.
LEMMA NoiseBits ==
  ASSUME NEW t \in 0 .. 127
  PROVE  /\ Bits(t)[1] = 0 /\ Bits(2 * t + 1)[8] = 1
         /\ \A i \in 1 .. 7 : Bits(2 * t + 1)[i] = Bits(t)[i + 1]
         /\ \A i \in 1 .. 8 : Bits(255)[i] = 1
<1>1. t \in 0 .. 255 /\ 2 * t + 1 \in 0 .. 255 /\ 255 \in 0 .. 255
  OBVIOUS
<1> DEFINE z == 2 * t + 1
<1>2. /\ z \div 128 = t \div 64 /\ z \div 64 = t \div 32 /\ z \div 32 = t \div 16
      /\ z \div 16 = t \div 8 /\ z \div 8 = t \div 4 /\ z \div 4 = t \div 2 /\ z \div 2 = t
      /\ z % 2 = 1 /\ t \div 128 = 0 /\ z \in 0 .. 255
  OBVIOUS
<1> HIDE DEF z
<1>3. /\ Bits(z)[1] = (z \div 128) % 2 /\ Bits(z)[2] = (z \div 64) % 2
      /\ Bits(z)[3] = (z \div 32) % 2 /\ Bits(z)[4] = (z \div 16) % 2
      /\ Bits(z)[5] = (z \div 8) % 2 /\ Bits(z)[6] = (z \div 4) % 2
      /\ Bits(z)[7] = (z \div 2) % 2 /\ Bits(z)[8] = z % 2
  BY <1>2, BitsOf
<1>4. /\ Bits(t)[1] = (t \div 128) % 2 /\ Bits(t)[2] = (t \div 64) % 2
      /\ Bits(t)[3] = (t \div 32) % 2 /\ Bits(t)[4] = (t \div 16) % 2
      /\ Bits(t)[5] = (t \div 8) % 2 /\ Bits(t)[6] = (t \div 4) % 2
      /\ Bits(t)[7] = (t \div 2) % 2 /\ Bits(t)[8] = t % 2
  BY <1>1, BitsOf
<1>5. Bits(t)[1] = 0 /\ Bits(z)[8] = 1
  <2>1. 0 % 2 = 0
    OBVIOUS
  <2> QED
    BY <1>2, <1>3, <1>4, <2>1, Zenon
<1>6. /\ Bits(z)[1] = Bits(t)[2] /\ Bits(z)[2] = Bits(t)[3] /\ Bits(z)[3] = Bits(t)[4]
      /\ Bits(z)[4] = Bits(t)[5] /\ Bits(z)[5] = Bits(t)[6] /\ Bits(z)[6] = Bits(t)[7]
      /\ Bits(z)[7] = Bits(t)[8]
  BY <1>2, <1>3, <1>4
<1>7. ASSUME NEW i \in 1 .. 7 PROVE Bits(z)[i] = Bits(t)[i + 1]
  <2>1. i \in {1, 2, 3, 4, 5, 6, 7}
    OBVIOUS
  <2>2. 1 + 1 = 2 /\ 2 + 1 = 3 /\ 3 + 1 = 4 /\ 4 + 1 = 5 /\ 5 + 1 = 6 /\ 6 + 1 = 7 /\ 7 + 1 = 8
    OBVIOUS
  <2> QED
    BY <1>6, <2>1, <2>2
<1>8. ASSUME NEW i \in 1 .. 8 PROVE Bits(255)[i] = 1
  <2>1. i \in {1, 2, 3, 4, 5, 6, 7, 8}
    OBVIOUS
  <2>2. /\ Bits(255)[1] = 1 /\ Bits(255)[2] = 1 /\ Bits(255)[3] = 1 /\ Bits(255)[4] = 1
        /\ Bits(255)[5] = 1 /\ Bits(255)[6] = 1 /\ Bits(255)[7] = 1 /\ Bits(255)[8] = 1
    BY <1>1, BitsOf
  <2> QED
    BY <2>1, <2>2
<1> QED
  BY <1>5, <1>7, <1>8, Zenon DEF z

\* What is taken for data, when an error token is sent.
LEMMA NoiseIs ==
  ASSUME NEW t \in 0 .. 127
  PROVE  /\ Noise(t) \in Data
         /\ \A b \in 0 .. Bytes - 1 : Noise(t)[b + 1] = IF b = 0 THEN 2 * t + 1 ELSE 255
<1>1. Bytes \in Nat \ {0}
  BY SdCardAssumption
<1> QED
  BY <1>1 DEF Noise, Data

\* An error token carries that.
LEMMA FailureCarries ==
  ASSUME NEW t \in 0 .. 127
  PROVE  Carries(Failure(t), Noise(t))
<1>1. Bytes \in Nat \ {0} /\ 8 * Bytes + 9 \in Nat
  BY SdCardAssumption
<1> DEFINE h == Bits(t)
           m == 8 * Bytes + 9
           z == Ones(m)
           y == h \o z
<1>2. h \in Stream /\ Len(h) = 8
  <2>1. t \in 0 .. 255
    OBVIOUS
  <2> QED
    BY <2>1, ByteBits
<1>3. z \in Stream /\ Len(z) = m /\ (\A j \in 1 .. m : z[j] = 1) /\ m \in Nat /\ m = 8 * Bytes + 9
  BY <1>1, OnesIs
<1> HIDE DEF h, m, z
<1>4. /\ y \in Stream /\ Len(y) = 8 + m /\ (\A j \in 1 .. 8 : y[j] = h[j])
      /\ \A j \in 1 .. m : y[8 + j] = 1
  <2>1. /\ y \in Stream /\ Len(y) = Len(h) + Len(z) /\ (\A j \in 1 .. Len(h) : y[j] = h[j])
        /\ \A j \in 1 .. Len(z) : y[Len(h) + j] = z[j]
    BY <1>2, <1>3, Behind, Zenon
  <2> QED
    BY <1>2, <1>3, <2>1, Zenon
<1> HIDE DEF y
<1>5. Len(y) = 8 * Bytes + 17
  BY <1>1, <1>3, <1>4
<1>6. y[1] = 0
  <2>1. 1 \in 1 .. 8
    OBVIOUS
  <2>2. y[1] = h[1]
    BY <1>4, <2>1, Zenon
  <2>3. h[1] = 0
    BY NoiseBits, Zenon DEF h
  <2> QED
    BY <2>2, <2>3
<1>7. ASSUME NEW b \in 0 .. Bytes - 1, NEW i \in 1 .. 8
      PROVE  y[8 * b + i + 1] = Bits(Noise(t)[b + 1])[i]
  <2>1. CASE b = 0 /\ i # 8
    <3>1. i \in 1 .. 7 /\ i + 1 \in 1 .. 8 /\ 8 * b + i + 1 = i + 1
      BY <2>1
    <3>2. y[i + 1] = h[i + 1] /\ Noise(t)[b + 1] = 2 * t + 1
      BY <1>4, <2>1, <3>1, NoiseIs, Zenon
    <3>3. Bits(2 * t + 1)[i] = h[i + 1]
      BY <3>1, NoiseBits, Zenon DEF h
    <3> QED
      BY <3>1, <3>2, <3>3, Zenon
  <2>2. CASE b = 0 /\ i = 8
    <3>1. 1 \in 1 .. m /\ 8 * b + i + 1 = 8 + 1
      BY <1>1, <1>3, <2>2
    <3>2. y[8 + 1] = 1 /\ Noise(t)[b + 1] = 2 * t + 1
      BY <1>4, <2>2, <3>1, NoiseIs, Zenon
    <3>3. Bits(2 * t + 1)[8] = 1
      BY NoiseBits, Zenon
    <3> QED
      BY <2>2, <3>1, <3>2, <3>3, Zenon
  <2>3. CASE b # 0
    <3>1. 8 * b + i - 7 \in 1 .. m /\ 8 * b + i + 1 = 8 + (8 * b + i - 7)
      BY <1>1, <1>3, <2>3
    <3> DEFINE p == 8 * b + i - 7
    <3>4. p \in 1 .. m
      BY <3>1
    <3> HIDE DEF p
    <3>5. y[8 + p] = 1
      BY <1>4, <3>4, Zenon
    <3>2. y[8 + (8 * b + i - 7)] = 1 /\ Noise(t)[b + 1] = 255
      BY <2>3, <3>5, NoiseIs DEF p
    <3>3. Bits(255)[i] = 1
      BY NoiseBits, Zenon
    <3> QED
      BY <3>1, <3>2, <3>3, Zenon
  <2> QED
    BY <2>1, <2>2, <2>3
<1>8. Failure(t) = y
  BY DEF Failure, y, h, z, m
<1> QED
  BY <1>4, <1>5, <1>6, <1>7, <1>8, Zenon DEF Carries

---------------------------------------------------------------------------
(* What the driver takes in.                                               *)

\* The low byte of answer does not see what is shifted out.
LEMMA LowRest ==
  ASSUME NEW q \in Int, NEW u \in Int, NEW l \in Nat, NEW b \in {0, 1}, NEW y \in Int,
         2 * (256 * q + l) + b = 65536 * u + y
  PROVE  y % 256 = (2 * l + b) % 256 /\ y % 2 = b
<1> DEFINE e == 2 * l + b
           p == e % 256
           t == 2 * q - 256 * u + (e \div 256)
<1>1. e \in Nat /\ y = 256 * (2 * q - 256 * u) + e
  OBVIOUS
<1>2. e = 256 * (e \div 256) + (e % 256) /\ e % 256 \in 0 .. 255 /\ e \div 256 \in Int
  <2>1. e \in Int
    BY <1>1
  <2> HIDE DEF e
  <2> QED
    BY <2>1
<1>3. y = 256 * t + p /\ t \in Int /\ p \in 0 .. 255
  <2> HIDE DEF e
  <2> QED
    BY <1>1, <1>2
<1>4. y % 256 = p
  <2> HIDE DEF t, p
  <2> QED
    BY <1>3
<1>5. y % 2 = b
  <2> DEFINE w == 256 * q + l - 32768 * u
  <2>1. w \in Int /\ y = 2 * w + b
    OBVIOUS
  <2> HIDE DEF w
  <2> QED
    BY <2>1
<1> QED
  BY <1>4, <1>5

\* The low byte of answer, its low bit, and what a clock makes of it.
Rest(a) == a % 256
Odd(a) == a % 2
Shift(a, b) == (2 * a + b) % 65536
Word == 0 .. 65535

\* The low byte of answer does not see what is shifted out.
LEMMA Shifting ==
  ASSUME NEW a \in Nat, NEW b \in {0, 1}
  PROVE  Shift(a, b) \in Word /\ Rest(Shift(a, b)) = Rest(2 * Rest(a) + b) /\ Odd(Shift(a, b)) = b
<1> DEFINE q == a \div 256
           l == a % 256
           x == 2 * a + b
           u == x \div 65536
           y == x % 65536
<1>1. q \in Int /\ l \in Nat /\ a = 256 * q + l
  OBVIOUS
<1>2. u \in Int /\ y \in 0 .. 65535 /\ x = 65536 * u + y
  OBVIOUS
<1>3. 2 * (256 * q + l) + b = 65536 * u + y
  BY <1>1, <1>2
<1>4. y = Shift(a, b) /\ l = Rest(a)
  BY DEF Shift, Rest
<1>5. y % 256 = (2 * l + b) % 256 /\ y % 2 = b
  <2>1. y \in Int
    BY <1>2
  <2> HIDE DEF q, l, u, y
  <2> QED
    BY <1>1, <1>2, <1>3, <2>1, LowRest
<1>6. Rest(y) = Rest(2 * l + b) /\ Odd(y) = b
  <2> HIDE DEF l, y
  <2> QED
    BY <1>5 DEF Rest, Odd
<1>8. y \in Word
  BY SMT DEF Word
<1> HIDE DEF q, l, u, y, x
<1>7. Rest(Shift(a, b)) = Rest(2 * Rest(a) + b) /\ Odd(Shift(a, b)) = b
  BY <1>4, <1>6, Zenon
<1> QED
  BY <1>4, <1>7, <1>8, Zenon

\* The bit that ends a wait.
LEMMA TopBit ==
  ASSUME NEW a \in Nat
  PROVE  (a \div 128) % 2 = IF a % 256 < 128 THEN 0 ELSE 1
<1> DEFINE q == a \div 256
           l == a % 256
<1>1. q \in Nat /\ l \in 0 .. 255 /\ a = 256 * q + l
  OBVIOUS
<1> HIDE DEF q, l
<1>2. CASE l < 128
  <2>1. a = 128 * (2 * q) + l /\ l \in 0 .. 127 /\ 2 * q \in Int
    BY <1>1, <1>2
  <2>2. a \div 128 = 2 * q
    BY <2>1
  <2>3. (2 * q) % 2 = 0
    BY <1>1
  <2> QED
    BY <1>2, <2>2, <2>3 DEF l
<1>3. CASE ~(l < 128)
  <2>1. a = 128 * (2 * q + 1) + (l - 128) /\ l - 128 \in 0 .. 127 /\ 2 * q + 1 \in Int
    BY <1>1, <1>3
  <2>2. a \div 128 = 2 * q + 1
    BY <2>1
  <2>3. (2 * q + 1) % 2 = 1
    BY <1>1
  <2> QED
    BY <1>3, <2>2, <2>3 DEF l
<1> QED
  BY <1>2, <1>3

\* One more bit of a byte in answer.
LEMMA LowClock ==
  ASSUME NEW a \in Nat, NEW r \in 0 .. 255, NEW k \in 0 .. 7, Rest(a) = Low(r, k),
         NEW b \in {0, 1}, b = Bits(r)[k + 1]
  PROVE  Rest(Shift(a, b)) = Low(r, k + 1)
<1>1. Rest(Shift(a, b)) = Rest(2 * Rest(a) + b)
  BY Shifting, Zenon
<1>2. Rest(Shift(a, b)) = Rest(2 * Low(r, k) + Bits(r)[k + 1])
  BY <1>1, Zenon
<1>3. Rest(2 * Low(r, k) + Bits(r)[k + 1]) = Low(r, k + 1)
  BY LowNext DEF Rest
<1> QED
  BY <1>2, <1>3, Zenon

\* When the loop of sdcard_read goes on.
LEMMA GoesOnIs ==
  ASSUME NEW k, NEW a \in Nat
  PROVE  /\ GoesOn(8, TRUE, k, a) <=> Rest(a) >= 128
         /\ GoesOn(40, TRUE, k, a) <=> Rest(a) >= 128
         /\ GoesOn(1, TRUE, k, a) <=> Odd(a) = 1
         /\ ~GoesOn(16, TRUE, k, 255)
         /\ GoesOn(8, FALSE, k, a) <=> k < 8
<1>1. /\ (8 - 1) % 32 = 7 /\ (40 - 1) % 32 = 7 /\ (1 - 1) % 32 = 0 /\ (16 - 1) % 32 = 15
      /\ (255 \div 32768) % 2 = 0
  OBVIOUS
<1>2. Bit(a, 7) = (a \div 128) % 2 /\ Bit(a, 0) = a % 2 /\ Bit(255, 15) = (255 \div 32768) % 2
  BY Powers DEF Bit
<1>3. (a \div 128) % 2 = 1 <=> a % 256 >= 128
  <2>1. (a \div 128) % 2 = IF a % 256 < 128 THEN 0 ELSE 1
    BY TopBit
  <2> QED
    BY <2>1
<1> QED
  BY <1>1, <1>2, <1>3 DEF GoesOn, Rest, Odd

\* It goes on while the bit that ends the wait is set.
LEMMA WaitsOn ==
  ASSUME NEW k, NEW a \in Nat, GoesOn(8, TRUE, k, a) \/ GoesOn(40, TRUE, k, a)
  PROVE  Rest(a) >= 128
<1>1. GoesOn(8, TRUE, k, a) <=> Rest(a) >= 128
  BY GoesOnIs, Zenon
<1>2. GoesOn(40, TRUE, k, a) <=> Rest(a) >= 128
  BY GoesOnIs, Zenon
<1> QED
  BY <1>1, <1>2, Zenon

---------------------------------------------------------------------------
(* What the driver hears of an answer.                                     *)

\* The bits of s that came, and the driver that waits for r with which s starts.
Came(o, s) == IF Len(o) > Len(s) THEN 0 ELSE Len(s) - Len(o)
Heard(o, a, r, s) ==
  /\ o \in Stream /\ s \in Stream /\ Ends(o, s) /\ Len(s) >= 8 /\ \A i \in 1 .. 8 : s[i] = Bits(r)[i]
  /\ Len(s) <= Len(o) + 8 /\ Rest(a) = Low(r, Came(o, s))

\* A driver that reads takes these.
Left(o) == IF o = <<>> THEN o ELSE Tail(o)
Pin(o) == IF o = <<>> THEN 1 ELSE Head(o)

\* Lengths are numbers.
LEMMA Length == \A o \in Stream : Len(o) \in Nat /\ (Len(o) > 0 => o # <<>>)
BY DEF Stream

\* What is left, and the pin.
LEMMA LeftIs ==
  ASSUME NEW o \in Stream
  PROVE  Left(o) \in Stream /\ Pin(o) \in {0, 1} /\ Len(Left(o)) <= Len(o)
BY DEF Left, Pin, Stream

\* After a command the driver waits for the answer to it.
LEMMA HeardStart ==
  ASSUME NEW o \in Stream, Len(o) <= 48, NEW w \in Nat, NEW r \in 0 .. 255,
         NEW s \in Stream, Len(s) >= 8, \A i \in 1 .. 8 : s[i] = Bits(r)[i]
  PROVE  Heard(SubSeq(o, 49, Len(o)) \o Ones(w) \o s, 255, r, s)
<1> DEFINE q == SubSeq(o, 49, Len(o)) \o Ones(w) \o s
<1>1. q \in Stream /\ Len(q) = w + Len(s) /\ Len(s) \in Nat /\ Ends(q, s)
  BY EndsAnswer
<1> HIDE DEF q
<1>2. Came(q, s) = 0 /\ Len(s) <= Len(q) + 8
  BY <1>1 DEF Came
<1>3. Rest(255) = 255
  BY DEF Rest
<1>4. Rest(255) = Low(r, 0)
  BY <1>3, LowEnds
<1>5. Heard(q, 255, r, s)
  BY <1>1, <1>2, <1>4 DEF Heard
<1> QED
  BY <1>5 DEF q

\* While it waits there is something to come, and a clock takes one bit of it.
LEMMA HeardNext ==
  ASSUME NEW o, NEW a \in Nat, NEW r \in 0 .. 127, NEW s, Heard(o, a, r, s), Rest(a) >= 128
  PROVE  Heard(Left(o), Shift(a, Pin(o)), r, s)
<1>1. /\ o \in Stream /\ s \in Stream /\ Ends(o, s) /\ Len(s) >= 8
      /\ Len(s) <= Len(o) + 8 /\ Rest(a) = Low(r, Came(o, s)) /\ Len(o) \in Nat /\ Len(s) \in Nat
  BY Length DEF Heard
<1>2. \A i \in 1 .. 8 : s[i] = Bits(r)[i]
  BY DEF Heard
<1>3. r \in 0 .. 255
  OBVIOUS
<1>4. Came(o, s) \in 0 .. 7
  <2>1. Came(o, s) \in 0 .. 8
    BY <1>1 DEF Came
  <2>2. Came(o, s) # 8
    <3> SUFFICES ASSUME Came(o, s) = 8 PROVE FALSE
      OBVIOUS
    <3>1. Rest(a) = Low(r, 8) /\ Low(r, 8) = r
      BY <1>1, <1>3, LowEnds, Zenon
    <3>2. Rest(a) = r
      BY <3>1, Zenon
    <3> QED
      BY <3>2
  <2> QED
    BY <2>1, <2>2
<1>5. o # <<>>
  <2>1. Len(o) > 0
    BY <1>1, <1>4 DEF Came
  <2> QED
    BY <1>1, <2>1, Length
<1>6. /\ Tail(o) \in Stream /\ Len(Tail(o)) = Len(o) - 1 /\ Ends(Tail(o), s) /\ Head(o) \in {0, 1}
      /\ Head(o) = IF Len(o) <= Len(s) THEN s[Len(s) - Len(o) + 1] ELSE 1
  BY <1>1, <1>5, EndsTail
<1>7. Left(o) = Tail(o) /\ Pin(o) = Head(o)
  BY <1>5 DEF Left, Pin
<1>8. Rest(Shift(a, Head(o))) = Low(r, Came(Tail(o), s)) /\ Len(s) <= Len(Tail(o)) + 8
  <2>1. CASE Len(o) > Len(s)
    <3>1. Came(o, s) = 0 /\ Came(Tail(o), s) = 0 /\ Head(o) = 1
      BY <1>1, <1>6, <2>1 DEF Came
    <3>2. Rest(a) = 255 /\ Low(r, 0) = 255
      BY <1>1, <1>3, <3>1, LowEnds
    <3>3. Rest(Shift(a, 1)) = Rest(2 * Rest(a) + 1)
      BY Shifting
    <3>4. Rest(2 * 255 + 1) = 255
      BY DEF Rest
    <3>5. Rest(Shift(a, Head(o))) = Low(r, Came(Tail(o), s))
      BY <3>1, <3>2, <3>3, <3>4
    <3> QED
      BY <1>1, <1>6, <2>1, <3>5
  <2>2. CASE ~(Len(o) > Len(s))
    <3> DEFINE k == Len(s) - Len(o)
    <3>1. Came(o, s) = k /\ Len(o) <= Len(s) /\ k \in 0 .. 7 /\ k + 1 \in 1 .. 8
      BY <1>1, <1>4, <2>2 DEF Came
    <3>2. Came(Tail(o), s) = k + 1 /\ Len(s) <= Len(Tail(o)) + 8
      BY <1>1, <1>6, <3>1 DEF Came
    <3> HIDE DEF k
    <3>3. Head(o) = s[k + 1]
      BY <1>6, <3>1 DEF k
    <3>4. Head(o) = Bits(r)[k + 1] /\ Rest(a) = Low(r, k)
      BY <1>1, <1>2, <3>1, <3>3
    <3>5. Rest(Shift(a, Head(o))) = Low(r, k + 1)
      BY <1>3, <1>6, <3>1, <3>4, LowClock
    <3> QED
      BY <3>2, <3>5
  <2> QED
    BY <2>1, <2>2
<1> QED
  BY <1>1, <1>2, <1>6, <1>7, <1>8 DEF Heard

\* When it waits no more it has the byte, and the rest of s is left.
LEMMA HeardEnd ==
  ASSUME NEW o, NEW a \in Nat, NEW r \in 0 .. 255, NEW s, Heard(o, a, r, s), ~(Rest(a) >= 128)
  PROVE  Rest(a) = r /\ Len(o) = Len(s) - 8
<1>1. /\ o \in Stream /\ s \in Stream /\ Len(s) >= 8
      /\ Len(s) <= Len(o) + 8 /\ Rest(a) = Low(r, Came(o, s)) /\ Len(o) \in Nat /\ Len(s) \in Nat
  BY Length DEF Heard
<1>2. Came(o, s) \in 0 .. 8
  BY <1>1 DEF Came
<1>3. Came(o, s) = 8
  <2> SUFFICES ASSUME Came(o, s) # 8 PROVE FALSE
    OBVIOUS
  <2> DEFINE k == Came(o, s)
  <2>1. k \in 0 .. 7 /\ Rest(a) = Low(r, k)
    BY <1>1, <1>2
  <2> HIDE DEF k
  <2>2. k \in 0 .. 7
    BY <2>1
  <2>3. Low(r, k) >= 128
    BY <2>2, LowStill
  <2>4. Rest(a) >= 128
    BY <2>1, <2>3, Zenon
  <2> QED
    BY <2>4
<1>4. Rest(a) = Low(r, 8) /\ Low(r, 8) = r
  BY <1>1, <1>3, LowEnds, Zenon
<1>5. Len(o) = Len(s) - 8
  BY <1>1, <1>3 DEF Came
<1> QED
  BY <1>4, <1>5, Zenon

\* The driver that waits for the start token, the last bit of which starts s.
Token(o, a, s) ==
  /\ o \in Stream /\ s \in Stream /\ Ends(o, s) /\ Len(s) >= 1 /\ s[1] = 0
  /\ Len(s) <= Len(o) + 1 /\ Odd(a) = IF Len(s) <= Len(o) THEN 1 ELSE 0

\* When the status is there, the rest of the answer to a read has ones and then s.
LEMMA TokenStart ==
  ASSUME NEW o \in Stream, NEW v \in Nat, NEW s \in Stream, Len(s) >= 1, s[1] = 0,
         Ends(o, Bits(0) \o (Ones(v) \o s)), Len(o) = Len(Bits(0) \o (Ones(v) \o s)) - 8
  PROVE  Token(o, 255, s)
<1> DEFINE t == Ones(v) \o s
           u == Bits(0)
<1>1. t \in Stream /\ Len(t) = v + Len(s) /\ Len(s) \in Nat
  BY OnesBefore
<1>2. u \in Stream /\ Len(u) = 8
  BY ByteBits
<1>3. Ends(o, u \o t) /\ Len(o) = Len(u \o t) - 8
  OBVIOUS
<1>4. Ends(o, t) /\ Len(o) = v + Len(s)
  <2> HIDE DEF t, u
  <2>1. Len(u \o t) = Len(u) + Len(t)
    BY <1>1, <1>2, Behind
  <2>2. Len(o) = v + Len(s) /\ Len(o) <= Len(t)
    BY <1>1, <1>2, <1>3, <2>1
  <2> QED
    BY <1>1, <1>2, <1>3, <2>2, EndsLater
<1>5. Ends(o, s)
  BY <1>4, EndsAfterOnes
<1>6. Odd(255) = 1
  BY DEF Odd
<1> QED
  BY <1>1, <1>4, <1>5, <1>6 DEF Token

\* While it waits there is something to come.
LEMMA TokenNext ==
  ASSUME NEW o, NEW a \in Nat, NEW s, Token(o, a, s), Odd(a) = 1
  PROVE  Token(Left(o), Shift(a, Pin(o)), s)
<1>1. /\ o \in Stream /\ s \in Stream /\ Ends(o, s) /\ Len(s) >= 1 /\ s[1] = 0
      /\ Len(s) <= Len(o) /\ Len(o) \in Nat /\ Len(s) \in Nat
  BY Length DEF Token
<1>2. o # <<>>
  BY <1>1, Length
<1>3. /\ Tail(o) \in Stream /\ Len(Tail(o)) = Len(o) - 1 /\ Ends(Tail(o), s) /\ Head(o) \in {0, 1}
      /\ Head(o) = IF Len(o) <= Len(s) THEN s[Len(s) - Len(o) + 1] ELSE 1
  BY <1>1, <1>2, EndsTail
<1>4. Left(o) = Tail(o) /\ Pin(o) = Head(o)
  BY <1>2 DEF Left, Pin
<1>5. Head(o) = IF Len(s) <= Len(Tail(o)) THEN 1 ELSE 0
  <2>1. CASE Len(o) = Len(s)
    <3>1. Len(s) - Len(o) + 1 = 1 /\ Len(o) <= Len(s) /\ ~(Len(s) <= Len(Tail(o)))
      BY <1>1, <1>3, <2>1
    <3> QED
      BY <1>1, <1>3, <3>1
  <2>2. CASE Len(o) # Len(s)
    BY <1>1, <1>3, <2>2
  <2> QED
    BY <2>1, <2>2
<1>6. Odd(Shift(a, Head(o))) = Head(o)
  BY <1>3, Shifting
<1>7. Len(s) <= Len(Tail(o)) + 1
  BY <1>1, <1>3
<1> QED
  BY <1>1, <1>3, <1>4, <1>5, <1>6, <1>7 DEF Token

\* When it is there, the data follow.
LEMMA TokenEnd ==
  ASSUME NEW o, NEW a \in Nat, NEW s, Token(o, a, s), Odd(a) # 1
  PROVE  Len(o) = Len(s) - 1
<1>1. Len(o) \in Nat /\ Len(s) \in Nat
  BY Length DEF Token
<1> QED
  BY <1>1 DEF Token

\* The driver that has k bits of byte b of the data.
Sent(o, a, s, data, b, k) ==
  /\ o \in Stream /\ Ends(o, s) /\ Len(o) = 8 * Bytes + 16 - 8 * b - k
  /\ Rest(a) = Low(data[b + 1], k)

\* A byte starts.
LEMMA SentStart ==
  ASSUME NEW data \in Data, NEW b \in 0 .. Bytes - 1, NEW o \in Stream, NEW s, Ends(o, s),
         Len(o) = 8 * Bytes + 16 - 8 * b
  PROVE  Sent(o, 255, s, data, b, 0)
<1>1. Bytes \in Nat
  BY SdCardAssumption
<1>2. data[b + 1] \in 0 .. 255
  BY <1>1 DEF Data
<1>5. Rest(255) = 255
  BY DEF Rest
<1> DEFINE r == data[b + 1]
<1>6. r \in 0 .. 255
  BY <1>2
<1> HIDE DEF r
<1>7. Low(r, 0) = 255
  BY <1>6, LowEnds
<1>3. Rest(255) = Low(data[b + 1], 0)
  BY <1>5, <1>7 DEF r
<1>4. Len(o) = 8 * Bytes + 16 - 8 * b - 0
  BY <1>1
<1> QED
  BY <1>3, <1>4 DEF Sent

\* A clock takes one bit of it.
LEMMA SentNext ==
  ASSUME NEW data \in Data, NEW b \in 0 .. Bytes - 1, NEW k \in 0 .. 7, NEW o, NEW a \in Nat,
         NEW s, Carries(s, data), Sent(o, a, s, data, b, k)
  PROVE  Sent(Left(o), Shift(a, Pin(o)), s, data, b, k + 1)
<1> DEFINE r == data[b + 1]
<1>1. Bytes \in Nat /\ b \in Nat /\ k \in Nat /\ b < Bytes /\ k <= 7
  BY SdCardAssumption
<1>12. r \in 0 .. 255
  BY <1>1 DEF Data
<1>2. s \in Stream /\ Len(s) = 8 * Bytes + 17 /\ \A i \in 1 .. 8 : s[8 * b + i + 1] = Bits(r)[i]
  BY DEF Carries
<1>3. /\ o \in Stream /\ Ends(o, s) /\ Len(o) = 8 * Bytes + 16 - 8 * b - k
      /\ Rest(a) = Low(r, k) /\ Len(o) \in Nat
  BY Length DEF Sent
<1> HIDE DEF r
<1>4. o # <<>>
  <2>1. Len(o) > 0
    BY <1>1, <1>3
  <2> QED
    BY <1>3, <2>1, Length
<1>5. /\ Tail(o) \in Stream /\ Len(Tail(o)) = Len(o) - 1 /\ Ends(Tail(o), s) /\ Head(o) \in {0, 1}
      /\ Head(o) = IF Len(o) <= Len(s) THEN s[Len(s) - Len(o) + 1] ELSE 1
  BY <1>2, <1>3, <1>4, EndsTail
<1>6. Len(o) <= Len(s) /\ Len(s) - Len(o) + 1 = 8 * b + (k + 1) + 1 /\ k + 1 \in 1 .. 8
  BY <1>1, <1>2, <1>3
<1>7. Head(o) = s[8 * b + (k + 1) + 1]
  BY <1>5, <1>6
<1>8. Head(o) = Bits(r)[k + 1]
  BY <1>2, <1>6, <1>7
<1>9. Rest(Shift(a, Head(o))) = Low(r, k + 1)
  BY <1>12, <1>3, <1>5, <1>8, LowClock
<1>10. Left(o) = Tail(o) /\ Pin(o) = Head(o)
  BY <1>4 DEF Left, Pin
<1>11. Len(Tail(o)) = 8 * Bytes + 16 - 8 * b - (k + 1)
  <2>1. Len(Tail(o)) = Len(o) - 1 /\ Len(o) = 8 * Bytes + 16 - 8 * b - k
    BY <1>3, <1>5
  <2> DEFINE p == Len(Tail(o))
             q == Len(o)
  <2>2. p = q - 1 /\ q = 8 * Bytes + 16 - 8 * b - k
    BY <2>1
  <2> HIDE DEF p, q
  <2>3. p = 8 * Bytes + 16 - 8 * b - (k + 1)
    BY <1>1, <2>2
  <2> QED
    BY <2>3 DEF p
<1> QED
  BY <1>5, <1>9, <1>10, <1>11 DEF Sent, r

\* Eight bits are the byte.
LEMMA SentEnd ==
  ASSUME NEW data \in Data, NEW b \in 0 .. Bytes - 1, NEW o, NEW a, NEW s,
         Sent(o, a, s, data, b, 8)
  PROVE  Rest(a) = data[b + 1] /\ Len(o) = 8 * Bytes + 16 - 8 * (b + 1)
<1>1. Bytes \in Nat
  BY SdCardAssumption
<1>2. data[b + 1] \in 0 .. 255
  BY <1>1 DEF Data
<1>3. Rest(a) = Low(data[b + 1], 8) /\ Len(o) = 8 * Bytes + 16 - 8 * b - 8
  BY DEF Sent
<1> DEFINE r == data[b + 1]
<1>4. r \in 0 .. 255
  BY <1>2
<1> HIDE DEF r
<1>5. Low(r, 8) = r
  BY <1>4, LowEnds
<1>6. Rest(a) = data[b + 1]
  BY <1>3, <1>5 DEF r
<1>7. Len(o) = 8 * Bytes + 16 - 8 * (b + 1)
  BY <1>1, <1>3
<1> QED
  BY <1>6, <1>7

\* A byte behind a long answer leaves its start.
LEMMA StartKept ==
  ASSUME NEW a, NEW s \in Stream, NEW t \in Stream, Len(s) >= 8, \A i \in 1 .. 8 : s[i] = a[i]
  PROVE  /\ s \o t \in Stream /\ Len(s \o t) = Len(s) + Len(t)
         /\ \A i \in 1 .. 8 : (s \o t)[i] = a[i]
<1>1. /\ s \o t \in Stream /\ Len(s \o t) = Len(s) + Len(t) /\ Len(s) \in Nat
      /\ \A i \in 1 .. Len(s) : (s \o t)[i] = s[i]
  BY Behind
<1>2. \A i \in 1 .. 8 : i \in 1 .. Len(s)
  BY <1>1
<1> QED
  BY <1>1, <1>2

\* The answer to cmd8 of a card that knows it.
LEMMA LongAnswer ==
  LET s == Bits(1) \o Bits(0) \o Bits(0) \o Bits(1) \o Bits(170) IN
  s \in Stream /\ Len(s) = 40 /\ \A i \in 1 .. 8 : s[i] = Bits(1)[i]
<1> DEFINE a == Bits(1)
           b == Bits(0)
           c == Bits(170)
<1>1. 1 \in 0 .. 255 /\ 0 \in 0 .. 255 /\ 170 \in 0 .. 255
  OBVIOUS
<1>2. a \in Stream /\ b \in Stream /\ c \in Stream /\ Len(a) = 8 /\ Len(b) = 8 /\ Len(c) = 8
  BY <1>1, ByteBits
<1> HIDE DEF a, b, c
<1>3. Len(a) >= 8 /\ \A i \in 1 .. 8 : a[i] = a[i]
  BY <1>2
<1> DEFINE d == a \o b
<1>4. d \in Stream /\ Len(d) = 16 /\ Len(d) >= 8 /\ \A i \in 1 .. 8 : d[i] = a[i]
  <2>1. /\ a \o b \in Stream /\ Len(a \o b) = Len(a) + Len(b)
        /\ \A i \in 1 .. 8 : (a \o b)[i] = a[i]
    BY <1>2, <1>3, StartKept, Zenon
  <2> QED
    BY <1>2, <1>3, <2>1
<1> HIDE DEF d
<1> DEFINE e == d \o b
<1>5. e \in Stream /\ Len(e) = 24 /\ Len(e) >= 8 /\ \A i \in 1 .. 8 : e[i] = a[i]
  <2>1. /\ d \o b \in Stream /\ Len(d \o b) = Len(d) + Len(b)
        /\ \A i \in 1 .. 8 : (d \o b)[i] = a[i]
    BY <1>2, <1>4, StartKept, Zenon
  <2> QED
    BY <1>2, <1>4, <2>1
<1> HIDE DEF e
<1> DEFINE f == e \o a
<1>6. f \in Stream /\ Len(f) = 32 /\ Len(f) >= 8 /\ \A i \in 1 .. 8 : f[i] = a[i]
  <2>1. /\ e \o a \in Stream /\ Len(e \o a) = Len(e) + Len(a)
        /\ \A i \in 1 .. 8 : (e \o a)[i] = a[i]
    BY <1>2, <1>5, StartKept, Zenon
  <2> QED
    BY <1>2, <1>5, <2>1
<1> HIDE DEF f
<1> DEFINE g == f \o c
<1>7. g \in Stream /\ Len(g) = 40 /\ Len(g) >= 8 /\ \A i \in 1 .. 8 : g[i] = a[i]
  <2>1. /\ f \o c \in Stream /\ Len(f \o c) = Len(f) + Len(c)
        /\ \A i \in 1 .. 8 : (f \o c)[i] = a[i]
    BY <1>2, <1>6, StartKept, Zenon
  <2> QED
    BY <1>2, <1>6, <2>1
<1> HIDE DEF g
<1> QED
  BY <1>7 DEF a, b, c, d, e, f, g

---------------------------------------------------------------------------
(* The sectors in the buffer.                                              *)

\* Joining looks at nothing that is behind.
LEMMA JoinedSame ==
  ASSUME NEW x, NEW y, NEW m \in Nat, NEW p \in Nat, Len(x) = m, Len(y) = p, m <= p,
         \A k \in 1 .. m : x[k] = y[k]
  PROVE  Joined(x)[m] = Joined(y)[m]
<1> DEFINE S == {k \in Nat : k <= m => Joined(x)[k] = Joined(y)[k]}
<1>1. \A k \in 0 .. m : Joined(x)[k] = IF k = 0 THEN <<>> ELSE Joined(x)[k - 1] \o x[k]
  <2>1. Len(x) \in Nat
    OBVIOUS
  <2> QED
    BY <2>1, JoinedIs
<1>2. \A k \in 0 .. p : Joined(y)[k] = IF k = 0 THEN <<>> ELSE Joined(y)[k - 1] \o y[k]
  <2>1. Len(y) \in Nat
    OBVIOUS
  <2> QED
    BY <2>1, JoinedIs
<1> DEFINE f == Joined(x)
           h == Joined(y)
<1>3. \A k \in 0 .. m : f[k] = IF k = 0 THEN <<>> ELSE f[k - 1] \o x[k]
  BY <1>1
<1>4. \A k \in 0 .. p : h[k] = IF k = 0 THEN <<>> ELSE h[k - 1] \o y[k]
  BY <1>2
<1> HIDE DEF f, h
<1>5. 0 \in S
  BY <1>3, <1>4 DEF f, h
<1>6. ASSUME NEW k \in Nat, k \in S PROVE k + 1 \in S
  <2> SUFFICES ASSUME k + 1 <= m PROVE f[k + 1] = h[k + 1]
    BY DEF f, h
  <2>1. f[k] = h[k]
    BY <1>6 DEF f, h
  <2>2. k + 1 \in 0 .. m /\ k + 1 \in 0 .. p /\ k + 1 \in 1 .. m /\ k + 1 # 0 /\ (k + 1) - 1 = k
    OBVIOUS
  <2>3. f[k + 1] = f[(k + 1) - 1] \o x[k + 1] /\ h[k + 1] = h[(k + 1) - 1] \o y[k + 1]
    BY <1>3, <1>4, <2>2, Zenon
  <2>4. x[k + 1] = y[k + 1]
    BY <2>2
  <2> QED
    BY <2>1, <2>2, <2>3, <2>4
<1> HIDE DEF S
<1>7. Nat \subseteq S
  BY <1>5, <1>6, Induction
<1>8. m \in S
  BY <1>7
<1> QED
  BY <1>8 DEF S

\* Bytes joined are bytes.
LEMMA JoinedBytes ==
  ASSUME NEW x, NEW B, NEW m \in Nat, Len(x) \in Nat, m <= Len(x), \A k \in 1 .. Len(x) : x[k] \in Seq(B)
  PROVE  Joined(x)[m] \in Seq(B)
<1> DEFINE f == Joined(x)
           S == {k \in Nat : k <= m => f[k] \in Seq(B)}
<1>1. \A k \in 0 .. Len(x) : f[k] = IF k = 0 THEN <<>> ELSE f[k - 1] \o x[k]
  BY JoinedIs
<1> HIDE DEF f
<1>2. 0 \in S
  <2>1. 0 \in 0 .. Len(x)
    OBVIOUS
  <2>2. f[0] = <<>>
    BY <1>1, <2>1, Zenon
  <2>3. <<>> \in Seq(B)
    OBVIOUS
  <2> QED
    BY <2>2, <2>3
<1>3. ASSUME NEW k \in Nat, k \in S PROVE k + 1 \in S
  <2> SUFFICES ASSUME k + 1 <= m PROVE f[k + 1] \in Seq(B)
    OBVIOUS
  <2>1. k + 1 \in 0 .. Len(x) /\ k + 1 \in 1 .. Len(x) /\ k + 1 # 0 /\ (k + 1) - 1 = k /\ f[k] \in Seq(B)
    BY <1>3
  <2>2. f[k + 1] = f[(k + 1) - 1] \o x[k + 1] /\ x[k + 1] \in Seq(B)
    BY <1>1, <2>1, Zenon
  <2> DEFINE y == x[k + 1]
             z == f[k]
  <2>3. f[k + 1] = z \o y /\ y \in Seq(B) /\ z \in Seq(B)
    BY <2>1, <2>2, Zenon
  <2> HIDE DEF y, z
  <2>4. z \o y \in Seq(B)
    BY <2>3
  <2> QED
    BY <2>3, <2>4, Zenon
<1> HIDE DEF S
<1>4. Nat \subseteq S
  BY <1>2, <1>3, Induction
<1>5. m \in S
  BY <1>4
<1> QED
  BY <1>5 DEF S, f

\* What FlattenSeq gives for sequences.
LEMMA FlattenIs ==
  ASSUME NEW x, NEW m \in Nat \ {0}, Len(x) = m, NEW B, x[1] \in Seq(B)
  PROVE  FlattenSeq(x) = Joined(x)[m]
<1> DEFINE F(f) == f = [i \in 1 .. Len(x) |-> IF i = 1 THEN x[i] ELSE f[i - 1] \o x[i]]
           j == Joined(x)
           h == [i \in 1 .. m |-> j[i]]
<1>1. \A k \in 0 .. m : j[k] = IF k = 0 THEN <<>> ELSE j[k - 1] \o x[k]
  <2>1. Len(x) \in Nat
    OBVIOUS
  <2> QED
    BY <2>1, JoinedIs
<1> HIDE DEF j
<1>2. ASSUME NEW i \in 1 .. m PROVE j[i] = IF i = 1 THEN x[i] ELSE j[i - 1] \o x[i]
  <2>1. i \in 0 .. m /\ i # 0
    OBVIOUS
  <2>2. j[i] = j[i - 1] \o x[i]
    BY <1>1, <2>1, Zenon
  <2>3. CASE i = 1
    <3>1. j[0] = <<>>
      BY <1>1
    <3>2. j[1] = <<>> \o x[1]
      BY <2>2, <2>3, <3>1
    <3>3. <<>> \o x[1] = x[1]
      OBVIOUS
    <3> QED
      BY <2>3, <3>2, <3>3
  <2> QED
    BY <2>2, <2>3
<1>3. F(h)
  <2>1. \A i \in 1 .. m : i # 1 => i - 1 \in 1 .. m
    OBVIOUS
  <2>2. \A i \in 1 .. m : h[i] = IF i = 1 THEN x[i] ELSE h[i - 1] \o x[i]
    BY <1>2, <2>1
  <2>3. h = [i \in 1 .. m |-> IF i = 1 THEN x[i] ELSE h[i - 1] \o x[i]]
    BY <2>2
  <2> HIDE DEF h
  <2> QED
    BY <2>3
<1> DEFINE f == CHOOSE f : F(f)
<1>4. F(f)
  <2> HIDE DEF F, h
  <2> QED
    BY <1>3, Zenon
<1>5. FlattenSeq(x) = f[m]
  BY Zenon DEF FlattenSeq
<1>6. \A i \in 1 .. m : f[i] = IF i = 1 THEN x[i] ELSE f[i - 1] \o x[i]
  <2> HIDE DEF f
  <2> QED
    BY <1>4
<1> HIDE DEF f, F
<1> DEFINE S == {k \in Nat : k + 1 <= m => f[k + 1] = j[k + 1]}
<1>7. 0 \in S
  BY <1>2, <1>6
<1>8. ASSUME NEW k \in Nat, k \in S PROVE k + 1 \in S
  <2> SUFFICES ASSUME (k + 1) + 1 <= m PROVE f[(k + 1) + 1] = j[(k + 1) + 1]
    OBVIOUS
  <2> DEFINE i == (k + 1) + 1
  <2>1. i \in 1 .. m /\ i # 1 /\ i - 1 = k + 1 /\ f[k + 1] = j[k + 1]
    BY <1>8
  <2> HIDE DEF i
  <2>2. f[i] = f[i - 1] \o x[i] /\ j[i] = j[i - 1] \o x[i]
    BY <1>2, <1>6, <2>1, Zenon
  <2>3. f[i] = j[i]
    BY <2>1, <2>2
  <2> QED
    BY <2>3 DEF i
<1> HIDE DEF S
<1>9. Nat \subseteq S
  BY <1>7, <1>8, Induction
<1>10. m - 1 \in S /\ (m - 1) + 1 = m
  BY <1>9
<1>11. f[m] = j[m]
  BY <1>10 DEF S
<1> QED
  BY <1>5, <1>11 DEF j

---------------------------------------------------------------------------
(* The invariant of the driver and the card.                               *)

\* The driver waits for r, with which s starts; r is all that comes.
Waiting(r, s) == Heard(out, answer, r, s)
Alone(r) == len = 8 /\ further = 0 /\ wait = TRUE /\ Waiting(r, Bits(r))

\* What the card gives to the read of this sector, from the last bit of its start token on
\* and as bytes, and what it gave to each; the calls by what was asked.
Latest == given[Len(given)]
Verdict == Latest.status
Opened == IF Latest.token = StartToken THEN Started(Asked(sector)) ELSE Failure(Latest.token)
Coming == Taken(Latest, sector)
Pieces == [k \in 1 .. Len(given) |-> Taken(given[k], First + k - 1)]
Asking == {"preinit", "cmd8?", "cmd55?", "acmd41?", "cmd16?", "cmd17?"}
Answered == {"cmd17", "token", "data", "crc"}
Listening == {"cmd0", "cmd8", "cmd55", "acmd41", "cmd16"} \cup Answered

Typed ==
  /\ out \in Stream /\ answer \in Word /\ n \in 0 .. 8 /\ len \in {0, 1, 8, 16, 40}
  /\ wait \in BOOLEAN /\ further \in 0 .. 4 /\ byte \in 0 .. Bytes /\ given \in Seq(Replies)
  /\ content \in Contents /\ initialised \in BOOLEAN

Order ==
  /\ call \in Asking \cup Listening \cup {"read"}
  /\ IF call = "read" THEN sector = First + Count ELSE sector \in Sectors
  /\ Len(given) = sector - First + IF call \in Answered THEN 1 ELSE 0
  /\ call \in {"token", "data", "crc"} => Verdict = 0

Before == Joined(Pieces)[sector - First]

Packed ==
  dst = CASE call = "data" -> Before \o SubSeq(Coming, 1, byte)
          [] call = "crc"  -> Before \o Coming
          [] OTHER         -> Before

InCmd8 ==
  \/ /\ len = 40 /\ wait = TRUE /\ further = 4
     /\ \/ Waiting(5, Bits(5))
        \/ Waiting(1, Bits(1) \o Bits(0) \o Bits(0) \o Bits(1) \o Bits(170))
  \/ len = 8 /\ wait = FALSE /\ Len(out) <= 32

InCmd17 ==
  IF Verdict # 0 THEN Alone(Verdict)
  ELSE /\ len = 8 /\ wait = TRUE /\ further = 0
       /\ \E w \in Nat : Waiting(0, Bits(0) \o (Ones(w) \o Opened))

InToken == len = 1 /\ wait = TRUE /\ further = 0 /\ Token(out, answer, Opened)

InData ==
  /\ len = 8 /\ wait = FALSE /\ further = 0 /\ byte < Bytes
  /\ Sent(out, answer, Opened, Coming, byte, n)

InCrc ==
  /\ Len(out) <= 16
  /\ \/ len = 16 /\ wait = TRUE /\ further = 1 /\ answer = 255
     \/ len = 8 /\ wait = FALSE /\ further = 0

Talk ==
  /\ call \in Asking => Len(out) <= 48
  /\ call \in {"cmd0", "cmd55"} => Alone(1)
  /\ call = "acmd41" => Alone(IF initialised THEN 0 ELSE 1)
  /\ call = "cmd16" => Alone(0)
  /\ call = "cmd8" => InCmd8
  /\ call = "cmd17" => InCmd17
  /\ call = "token" => InToken
  /\ call = "data" => InData
  /\ call = "crc" => InCrc

CardInv == Typed /\ Order /\ Packed /\ Talk

\* The card takes the number of a sector as it is.
LEMMA Addressed ==
  ASSUME NEW s \in Sectors
  PROVE  Address(s) = s /\ s \in Nat
<1>0. First \in Nat /\ Count \in Nat \ {0} /\ s \in First .. First + Count - 1
  BY SdCardAssumption DEF Sectors
<1>1. s \div 65536 < 65536
  <2>1. s <= First + Count - 1 /\ First + Count - 1 \in Nat
    BY <1>0
  <2>2. (First + Count - 1) \div 65536 < 65536
    BY SdCardAssumption
  <2> DEFINE z == First + Count - 1
             d == s \div 65536
             e == z \div 65536
  <2>3. s \in Nat /\ z \in Nat /\ s <= z /\ e < 65536
    BY <1>0, <2>1, <2>2
  <2> HIDE DEF z
  <2>4. d \in Nat /\ e \in Nat /\ s >= 65536 * d /\ z < 65536 * (e + 1)
    BY <2>3
  <2> HIDE DEF d, e
  <2>5. d < e + 1
    BY <2>3, <2>4
  <2> QED
    BY <2>3, <2>4, <2>5 DEF d
<1> QED
  BY <1>0, <1>1, AddressIs

\* A block that is asked for has bytes.
LEMMA AskedIs ==
  ASSUME content \in Contents, NEW s \in Sectors
  PROVE  Asked(s) \in Data
<1>1. Bytes \in Nat \ {0} /\ Patterns \subseteq 0 .. 255 /\ Address(s) = s /\ s \in Nat
  BY SdCardAssumption, Addressed
<1>2. ASSUME NEW i \in 1 .. Bytes PROVE content[From(s) + (i - 1)] \in 0 .. 255
  <2>1. i - 1 \in 0 .. Bytes - 1
    BY <1>1
  <2>2. s * Bytes + (i - 1) \in Places /\ s + (i - 1) \in Places
    <3> DEFINE v == i - 1
    <3>1. v \in 0 .. Bytes - 1
      BY <2>1
    <3> HIDE DEF v
    <3> DEFINE R == (s * Bytes) .. (s * Bytes + Bytes - 1) \cup s .. (s + Bytes - 1)
               p == s * Bytes
    <3>3. p \in Nat
      BY <1>1
    <3> HIDE DEF p
    <3>4. p + v \in p .. (p + Bytes - 1) /\ s + v \in s .. (s + Bytes - 1)
      BY <1>1, <3>1, <3>3
    <3>5. s * Bytes + v \in R /\ s + v \in R
      BY <3>4, Zenon DEF p
    <3> HIDE DEF R
    <3>6. R \subseteq Places
      BY Zenon DEF Places, R
    <3>2. s * Bytes + v \in Places /\ s + v \in Places
      BY <3>5, <3>6, Zenon
    <3> QED
      BY <3>2 DEF v
  <2>3. From(s) = s * Bytes \/ From(s) = s
    BY <1>1, Zenon DEF From
  <2>4. From(s) + (i - 1) \in Places
    BY <2>2, <2>3, Zenon
  <2> DEFINE p == From(s) + (i - 1)
  <2>5. p \in Places
    BY <2>4
  <2> HIDE DEF p
  <2>6. content[p] \in Patterns
    BY <2>5 DEF Contents
  <2> QED
    BY <1>1, <2>6 DEF p
<1> QED
  BY <1>2 DEF Asked, Data

\* What the card may give.
LEMMA ReplyIs ==
  ASSUME NEW a \in Replies
  PROVE  a.status \in 0 .. 127 /\ (a.token = StartToken \/ a.token \in 0 .. 127)
<1>1. Statuses \subseteq 0 .. 127 /\ Errors \subseteq 0 .. 127
  BY SdCardAssumption
<1> QED
  BY <1>1 DEF Replies

\* What a read leaves in the buffer is made of bytes: nothing, or a sector's worth of them.
LEMMA TakenIs ==
  ASSUME content \in Contents, NEW s \in Sectors, NEW a \in Replies
  PROVE  /\ Taken(a, s) = IF a.status # 0 THEN <<>>
                         ELSE IF a.token = StartToken THEN Asked(s) ELSE Noise(a.token)
         /\ a.status = 0 => Taken(a, s) \in Data
         /\ Taken(a, s) \in Seq(0 .. 255)
<1>1. a.status = 0 => Taken(a, s) \in Data
  BY AskedIs, NoiseIs, ReplyIs DEF Taken
<1>2. \A d \in Data : d \in Seq(0 .. 255)
  <2>1. Bytes \in Nat
    BY SdCardAssumption
  <2> SUFFICES ASSUME NEW d \in [1 .. Bytes -> 0 .. 255] PROVE d \in Seq(0 .. 255)
    BY DEF Data
  <2> QED
    BY <2>1
<1>3. a.status # 0 => Taken(a, s) = <<>>
  BY DEF Taken
<1>4. <<>> \in Seq(0 .. 255)
  OBVIOUS
<1>5. Taken(a, s) = IF a.status # 0 THEN <<>>
                    ELSE IF a.token = StartToken THEN Asked(s) ELSE Noise(a.token)
  BY Zenon DEF Taken
<1> QED
  BY <1>1, <1>2, <1>3, <1>4, <1>5, Zenon

\* As long as the card gives nothing new, all that is as it was.
LEMMA SameReplies ==
  ASSUME given' = given, content' = content, model' = model
  PROVE  /\ Latest' = Latest /\ Verdict' = Verdict /\ Pieces' = Pieces
         /\ \A a, s : Taken(a, s)' = Taken(a, s) /\ Asked(s)' = Asked(s)
<1>1. \A a, s : Taken(a, s)' = Taken(a, s) /\ Asked(s)' = Asked(s)
  <2> SUFFICES ASSUME NEW a, NEW s PROVE Taken(a, s)' = Taken(a, s) /\ Asked(s)' = Asked(s)
    OBVIOUS
  <2>1. Asked(s)' = Asked(s)
    BY DEF Asked, From
  <2> QED
    BY <2>1 DEF Taken
<1> QED
  BY <1>1 DEF Latest, Verdict, Pieces

\* Nor does it change while the driver is at the same sector.
LEMMA SameSector ==
  ASSUME given' = given, content' = content, model' = model, sector' = sector
  PROVE  Latest' = Latest /\ Verdict' = Verdict /\ Opened' = Opened /\ Coming' = Coming /\ Before' = Before
<1>1. /\ Latest' = Latest /\ Verdict' = Verdict /\ Pieces' = Pieces
      /\ \A a, s : Taken(a, s)' = Taken(a, s) /\ Asked(s)' = Asked(s)
  BY SameReplies
<1>2. Opened' = Opened
  BY <1>1 DEF Opened
<1>3. Coming' = Coming
  <2>1. Coming' = Taken(Latest, sector)
    BY <1>1 DEF Coming
  <2> QED
    BY <2>1 DEF Coming
<1>4. Before' = Before
  BY <1>1 DEF Before
<1> QED
  BY <1>1, <1>2, <1>3, <1>4

\* What the numbers are.
LEMMA Numbers ==
  ASSUME CardInv
  PROVE  /\ First \in Nat /\ Count \in Nat \ {0} /\ Bytes \in Nat \ {0}
         /\ sector \in Nat /\ Len(given) \in Nat /\ sector - First \in Nat /\ Len(out) \in Nat
         /\ answer \in Nat
         /\ call # "read" => sector \in First .. First + Count - 1
         /\ call \in Answered =>
              /\ Len(given) = sector - First + 1 /\ Verdict \in 0 .. 127
              /\ Verdict = 0 => Coming \in Data /\ Carries(Opened, Coming)
<1>1. First \in Nat /\ Count \in Nat \ {0} /\ Bytes \in Nat \ {0}
  BY SdCardAssumption
<1>2. Len(given) \in Nat /\ Len(out) \in Nat
  BY Length DEF CardInv, Typed
<1>3. sector \in Nat /\ sector - First \in Nat
  BY <1>1 DEF CardInv, Order, Sectors
<1>4. call # "read" => sector \in First .. First + Count - 1
  BY DEF CardInv, Order, Sectors
<1>5. ASSUME call \in Answered
      PROVE  Len(given) = sector - First + 1 /\ Latest \in Replies /\ sector \in Sectors
  <2>1. Len(given) = sector - First + 1
    BY <1>5 DEF CardInv, Order
  <2>2. Len(given) \in 1 .. Len(given)
    BY <1>2, <1>3, <2>1
  <2>3. Latest \in Replies
    BY <2>2 DEF CardInv, Typed, Latest
  <2>4. sector \in Sectors
    BY <1>5 DEF CardInv, Order, Answered
  <2> QED
    BY <2>1, <2>3, <2>4
<1>6. ASSUME call \in Answered
      PROVE  Verdict \in 0 .. 127 /\ (Verdict = 0 => Coming \in Data /\ Carries(Opened, Coming))
  <2>1. PICK a \in Replies : a = Latest
    BY <1>5, <1>6
  <2>2. PICK s \in Sectors : s = sector
    BY <1>5, <1>6
  <2>3. content \in Contents
    BY DEF CardInv, Typed
  <2>4. Verdict = a.status /\ Coming = Taken(a, s)
        /\ Opened = IF a.token = StartToken THEN Started(Asked(s)) ELSE Failure(a.token)
    BY <2>1, <2>2, Zenon DEF Verdict, Coming, Opened
  <2>5. Verdict \in 0 .. 127 /\ (a.token = StartToken \/ a.token \in 0 .. 127)
    BY <2>4, ReplyIs
  <2>6. ASSUME Verdict = 0 PROVE Coming \in Data /\ Carries(Opened, Coming)
    <3>1. Coming \in Data /\ Coming = IF a.token = StartToken THEN Asked(s) ELSE Noise(a.token)
      BY <2>3, <2>4, <2>6, TakenIs
    <3>2. CASE a.token = StartToken
      <4>1. Carries(Started(Asked(s)), Asked(s))
        BY <2>3, AskedIs, BlockCarries
      <4> QED
        BY <2>4, <3>1, <3>2, <4>1
    <3>3. CASE a.token # StartToken
      <4>1. Carries(Failure(a.token), Noise(a.token))
        BY <2>5, <3>3, FailureCarries
      <4> QED
        BY <2>4, <3>1, <3>3, <4>1
    <3> QED
      BY <3>2, <3>3
  <2> QED
    BY <2>5, <2>6
<1>7. answer \in Nat
  BY DEF CardInv, Typed, Word
<1> QED
  BY <1>1, <1>2, <1>3, <1>4, <1>5, <1>6, <1>7

\* It holds at first.
LEMMA CardStarts == SdInit => CardInv
<1> SUFFICES ASSUME SdInit PROVE CardInv
  OBVIOUS
<1>1. First \in Nat /\ Count \in Nat \ {0} /\ Bytes \in Nat \ {0}
  BY SdCardAssumption
<1>2. Typed
  <2>1. 255 \in Word /\ <<>> \in Stream /\ <<>> \in Seq(Replies) /\ 0 \in 0 .. Bytes
    BY <1>1 DEF Word, Stream
  <2>2. 0 \in 0 .. 8 /\ 0 \in {0, 1, 8, 16, 40} /\ FALSE \in BOOLEAN /\ 0 \in 0 .. 4
    OBVIOUS
  <2> QED
    BY <2>1, <2>2, Zenon DEF SdInit, Typed
<1>3. Order
  <2>1. sector \in Sectors
    BY <1>1 DEF SdInit, Sectors
  <2>2. Len(given) = sector - First + 0
    BY <1>1 DEF SdInit
  <2> QED
    BY <2>1, <2>2 DEF SdInit, Order, Asking, Answered
<1>4. Packed
  <2>1. sector - First = 0
    BY <1>1 DEF SdInit
  <2>2. Before = <<>>
    <3>1. Len(Pieces) = 0
      BY DEF SdInit, Pieces
    <3> DEFINE x == Pieces
    <3>2. Len(x) \in Nat /\ 0 \in 0 .. Len(x)
      BY <3>1
    <3> HIDE DEF x
    <3>3. Joined(x)[0] = <<>>
      BY <3>2, JoinedIs, Zenon
    <3> QED
      BY <2>1, <3>3 DEF Before, x
  <2> QED
    BY <2>2 DEF SdInit, Packed
<1>5. Talk
  BY DEF SdInit, Talk, Asking
<1> QED
  BY <1>2, <1>3, <1>4, <1>5 DEF CardInv

\* What was read is made of bytes.
LEMMA PiecesBytes ==
  ASSUME CardInv
  PROVE  /\ Len(Pieces) = Len(given) /\ Len(given) \in Nat
         /\ \A k \in 1 .. Len(given) : /\ Pieces[k] = Taken(given[k], First + k - 1)
                                       /\ Pieces[k] \in Seq(0 .. 255)
<1>1. First \in Nat /\ Count \in Nat \ {0} /\ sector \in Nat /\ Len(given) \in Nat /\ sector - First \in Nat
  BY Numbers
<1>2. Len(given) <= Count
  <2>1. CASE call = "read"
    BY <1>1, <2>1 DEF CardInv, Order, Answered
  <2>2. CASE call # "read"
    <3>1. sector \in First .. First + Count - 1
      BY <2>2, Numbers
    <3> QED
      BY <1>1, <3>1 DEF CardInv, Order
  <2> QED
    BY <2>1, <2>2
<1>3. ASSUME NEW k \in 1 .. Len(given) PROVE Taken(given[k], First + k - 1) \in Seq(0 .. 255)
  <2>1. First + k - 1 \in Sectors
    BY <1>1, <1>2 DEF Sectors
  <2>2. given[k] \in Replies
    BY DEF CardInv, Typed
  <2>3. content \in Contents
    BY DEF CardInv, Typed
  <2> QED
    BY <2>1, <2>2, <2>3, TakenIs, Zenon
<1>4. Len(Pieces) = Len(given)
  BY <1>1 DEF Pieces
<1>5. \A k \in 1 .. Len(given) : Pieces[k] = Taken(given[k], First + k - 1)
  BY DEF Pieces
<1> QED
  BY <1>1, <1>3, <1>4, <1>5, Zenon

\* So is the buffer before this sector.
LEMMA BeforeBytes ==
  ASSUME CardInv
  PROVE  Before \in Seq(0 .. 255)
<1> DEFINE x == Pieces
<1>1. Len(x) = Len(given) /\ Len(given) \in Nat /\ \A k \in 1 .. Len(x) : x[k] \in Seq(0 .. 255)
  BY PiecesBytes, Zenon
<1>2. sector - First \in Nat /\ sector - First <= Len(given)
  BY Numbers DEF CardInv, Order
<1> HIDE DEF x
<1>3. Joined(x)[sector - First] \in Seq(0 .. 255)
  BY <1>1, <1>2, JoinedBytes
<1> QED
  BY <1>3 DEF Before, x

\* The answer to a command is what the driver waits for.
LEMMA AnswerHeard ==
  ASSUME CardInv, call \in Asking, NEW r \in 0 .. 255, NEW s \in Stream, Len(s) >= 8,
         \A i \in 1 .. 8 : s[i] = Bits(r)[i], Answers(s), answer' = 255
  PROVE  Heard(out', answer', r, s) /\ out' \in Stream
<1>1. PICK w \in Waits : out' = SubSeq(out, 49, Len(out)) \o Ones(w) \o s
  BY DEF Answers
<1>2. w \in Nat
  BY SdCardAssumption
<1>3. out \in Stream /\ Len(out) <= 48
  BY DEF CardInv, Typed, Talk
<1>4. Heard(SubSeq(out, 49, Len(out)) \o Ones(w) \o s, 255, r, s)
  BY <1>2, <1>3, HeardStart
<1>5. Heard(out', answer', r, s)
  BY <1>1, <1>4
<1> QED
  BY <1>5 DEF Heard

\* The same, when it is one byte.
LEMMA ByteHeard ==
  ASSUME CardInv, call \in Asking, NEW r \in 0 .. 255, Answers(Bits(r)), Get(8, TRUE)
  PROVE  Alone(r)' /\ out' \in Stream
<1> DEFINE s == Bits(r)
<1>1. s \in Stream /\ Len(s) = 8 /\ \A i \in 1 .. 8 : s[i] = Bits(r)[i]
  BY ByteBits
<1>2. Answers(s) /\ answer' = 255 /\ len' = 8 /\ wait' = TRUE /\ further' = 0
  BY DEF Get
<1> HIDE DEF s
<1>3. Len(s) >= 8
  BY <1>1
<1>4. Heard(out', answer', r, s) /\ out' \in Stream
  BY <1>1, <1>2, <1>3, AnswerHeard
<1> QED
  BY <1>2, <1>4 DEF Alone, Waiting, s

\* A command of sdcard_init leaves the sectors alone.
LEMMA InitCommand ==
  ASSUME CardInv, call \in Asking, call' \in {"cmd0", "cmd8", "cmd55", "acmd41", "cmd16"}, same,
         initialised' \in BOOLEAN, out' \in Stream, NEW l \in {8, 40}, Get(l, TRUE)
  PROVE  Typed' /\ Order' /\ Packed'
<1>1. Typed'
  <2>1. answer' \in Word /\ 0 \in 0 .. 8
    BY DEF Get, Word
  <2>2. further' \in 0 .. 4
    <3>1. 40 \div 8 - 1 = 4
      OBVIOUS
    <3> QED
      BY <3>1 DEF Get
  <2>3. len' \in {0, 1, 8, 16, 40} /\ n' \in 0 .. 8 /\ wait' \in BOOLEAN
    BY <2>1 DEF Get
  <2> QED
    BY <2>1, <2>2, <2>3, Zenon DEF CardInv, Typed, same
<1>2. Order'
  <2>1. /\ call' \notin Answered /\ call \notin Answered /\ call # "read" /\ call' # "read"
        /\ call' \in Listening /\ call' \notin {"token", "data", "crc"}
    BY DEF Asking, Answered, Listening
  <2> QED
    BY <2>1, Zenon DEF CardInv, Order, same
<1>3. Packed'
  <2>1. call \notin {"data", "crc"} /\ call' \notin {"data", "crc"}
    BY DEF Asking
  <2>2. dst = Before
    BY <2>1 DEF CardInv, Packed
  <2>3. Before' = Before /\ dst' = dst
    BY SameSector DEF same
  <2> QED
    BY <2>1, <2>2, <2>3 DEF Packed
<1> QED
  BY <1>1, <1>2, <1>3

\* A command that is answered with one byte keeps the invariant.
LEMMA Cmd0Keeps == CardInv /\ Cmd0 => CardInv'
<1> SUFFICES ASSUME CardInv, Cmd0 PROVE CardInv'
  OBVIOUS
<1>1. /\ call \in Asking /\ call' = "cmd0" /\ Answers(Bits(1)) /\ Get(8, TRUE) /\ same
  BY DEF Cmd0, Asking
<1>5. initialised' \in BOOLEAN
  BY Zenon DEF Cmd0, CardInv, Typed
<1>6. 1 \in 0 .. 255
  OBVIOUS
<1>2. Alone(1)' /\ out' \in Stream
  BY <1>1, <1>6, ByteHeard
<1>3. Typed' /\ Order' /\ Packed'
  BY <1>1, <1>2, <1>5, InitCommand
<1>4. Talk'
  BY <1>1, <1>2 DEF Talk, Asking
<1> QED
  BY <1>3, <1>4 DEF CardInv

\* So does the first half of the command that starts the card.
LEMMA Cmd55Keeps == CardInv /\ Cmd55 => CardInv'
<1> SUFFICES ASSUME CardInv, Cmd55 PROVE CardInv'
  OBVIOUS
<1>1. /\ call \in Asking /\ call' = "cmd55" /\ Answers(Bits(1)) /\ Get(8, TRUE) /\ same
  BY DEF Cmd55, Asking
<1>5. initialised' \in BOOLEAN
  BY Zenon DEF Cmd55, CardInv, Typed
<1>6. 1 \in 0 .. 255
  OBVIOUS
<1>2. Alone(1)' /\ out' \in Stream
  BY <1>1, <1>6, ByteHeard
<1>3. Typed' /\ Order' /\ Packed'
  BY <1>1, <1>2, <1>5, InitCommand
<1>4. Talk'
  BY <1>1, <1>2 DEF Talk, Asking
<1> QED
  BY <1>3, <1>4 DEF CardInv

\* And the second half, which says whether the card is ready.
LEMMA Acmd41Keeps == CardInv /\ Acmd41 => CardInv'
<1> SUFFICES ASSUME CardInv, Acmd41 PROVE CardInv'
  OBVIOUS
<1>1. /\ call \in Asking /\ call' = "acmd41" /\ Get(8, TRUE) /\ same
      /\ Answers(Bits(IF initialised' THEN 0 ELSE 1))
  BY Zenon DEF Acmd41, Asking
<1>2. initialised' \in BOOLEAN
  BY Zenon DEF Acmd41, CardInv, Typed
<1>3. PICK r \in 0 .. 255 : r = IF initialised' THEN 0 ELSE 1
  <2>1. 0 \in 0 .. 255 /\ 1 \in 0 .. 255
    OBVIOUS
  <2> QED
    BY <2>1, Zenon
<1>4. Answers(Bits(r))
  BY <1>1, <1>3
<1>5. Alone(r)' /\ out' \in Stream
  BY <1>1, <1>4, ByteHeard
<1>6. Typed' /\ Order' /\ Packed'
  BY <1>1, <1>2, <1>5, InitCommand
<1>7. Alone(IF initialised THEN 0 ELSE 1)'
  BY <1>3, <1>5
<1>8. Talk'
  BY <1>1, <1>7 DEF Talk, Asking
<1> QED
  BY <1>6, <1>8 DEF CardInv

\* And the length of a block.
LEMMA Cmd16Keeps == CardInv /\ Cmd16 => CardInv'
<1> SUFFICES ASSUME CardInv, Cmd16 PROVE CardInv'
  OBVIOUS
<1>1. /\ call \in Asking /\ call' = "cmd16" /\ Answers(Bits(0)) /\ Get(8, TRUE) /\ same
  BY DEF Cmd16, Asking
<1>5. initialised' \in BOOLEAN
  BY Zenon DEF Cmd16, CardInv, Typed
<1>6. 0 \in 0 .. 255
  OBVIOUS
<1>2. Alone(0)' /\ out' \in Stream
  BY <1>1, <1>6, ByteHeard
<1>3. Typed' /\ Order' /\ Packed'
  BY <1>1, <1>2, <1>5, InitCommand
<1>4. Talk'
  BY <1>1, <1>2 DEF Talk, Asking
<1> QED
  BY <1>3, <1>4 DEF CardInv

\* The answer to cmd8 has five bytes, or one from a card that does not know it.
LEMMA Cmd8Keeps == CardInv /\ Cmd8 => CardInv'
<1> SUFFICES ASSUME CardInv, Cmd8 PROVE CardInv'
  OBVIOUS
<1> DEFINE s == Bits(1) \o Bits(0) \o Bits(0) \o Bits(1) \o Bits(170)
<1>1. /\ call \in Asking /\ call' = "cmd8" /\ Get(40, TRUE) /\ same /\ initialised' \in BOOLEAN
      /\ \/ Answers(Bits(5))
         \/ Answers(s)
  BY DEF Cmd8, Asking, CardInv, Typed
<1>2. len' = 40 /\ wait' = TRUE /\ further' = 4 /\ answer' = 255
  <2>1. 40 \div 8 - 1 = 4
    OBVIOUS
  <2> QED
    BY <1>1, <2>1 DEF Get
<1>3. (Heard(out', answer', 5, Bits(5)) \/ Heard(out', answer', 1, s)) /\ out' \in Stream
  <2>1. CASE Answers(Bits(5))
    <3>1. /\ 5 \in 0 .. 255 /\ Bits(5) \in Stream /\ Len(Bits(5)) >= 8
          /\ \A i \in 1 .. 8 : Bits(5)[i] = Bits(5)[i]
      <4>1. 5 \in 0 .. 255
        OBVIOUS
      <4>2. Bits(5) \in Stream /\ Len(Bits(5)) = 8
        BY <4>1, ByteBits
      <4> QED
        BY <4>1, <4>2
    <3> QED
      BY <1>1, <1>2, <2>1, <3>1, AnswerHeard, Zenon
  <2>2. CASE Answers(s)
    <3>1. s \in Stream /\ Len(s) = 40 /\ \A i \in 1 .. 8 : s[i] = Bits(1)[i]
      BY LongAnswer
    <3> HIDE DEF s
    <3>2. Len(s) >= 8 /\ 1 \in 0 .. 255
      BY <3>1
    <3> QED
      BY <1>1, <1>2, <2>2, <3>1, <3>2, AnswerHeard
  <2> QED
    BY <1>1, <2>1, <2>2
<1>4. Typed' /\ Order' /\ Packed'
  BY <1>1, <1>3, InitCommand
<1>5. InCmd8'
  BY <1>2, <1>3 DEF InCmd8, Waiting
<1>6. Talk'
  BY <1>1, <1>5 DEF Talk, Asking
<1> QED
  BY <1>4, <1>6 DEF CardInv

\* The answer to a read is the status, and the block of that very sector if it is zero.
LEMMA Cmd17Keeps == CardInv /\ Cmd17 => CardInv'
<1> SUFFICES ASSUME CardInv, Cmd17 PROVE CardInv'
  OBVIOUS
<1>1. /\ call = "cmd17?" /\ call' = "cmd17" /\ Get(8, TRUE)
      /\ UNCHANGED <<sector, byte, dst, model, initialised, content>>
  BY DEF Cmd17
<1> DEFINE R(a, w) == Ones(w) \o IF a.token = StartToken THEN Block(Asked(sector)) ELSE Failure(a.token)
           B(a, w) == IF a.status # 0 THEN <<>> ELSE R(a, w)
<1>2. PICK a \in Replies, w \in Waits : given' = Append(given, a) /\ Answers(Bits(a.status) \o B(a, w))
  BY Zenon DEF Cmd17
<1>15. PICK t : t = a.status
  OBVIOUS
<1>3. t \in 0 .. 127 /\ t \in 0 .. 255 /\ w \in Nat /\ (a.token = StartToken \/ a.token \in 0 .. 127)
  BY <1>15, SdCardAssumption, ReplyIs
<1>4. /\ First \in Nat /\ Count \in Nat \ {0} /\ sector \in Nat /\ Len(given) \in Nat /\ sector - First \in Nat
      /\ sector \in First .. First + Count - 1
  BY <1>1, Numbers
<1>5. given \in Seq(Replies) /\ Len(given) = sector - First
  BY <1>1, <1>4 DEF CardInv, Typed, Order, Answered
<1>6. given' \in Seq(Replies) /\ Len(given') = Len(given) + 1 /\ Latest' = a /\ Verdict' = t
  BY <1>2, <1>5, <1>15 DEF Latest, Verdict
<1>7. len' = 8 /\ wait' = TRUE /\ n' = 0 /\ answer' = 255 /\ further' = 0
  BY <1>1 DEF Get
<1>8. sector \in Sectors /\ content \in Contents /\ Asked(sector) \in Data
  <2>1. sector \in Sectors /\ content \in Contents
    BY <1>4 DEF Sectors, CardInv, Typed
  <2>2. PICK s \in Sectors : s = sector
    BY <2>1
  <2>3. Asked(s) \in Data
    BY <2>1, AskedIs
  <2> QED
    BY <2>1, <2>2, <2>3
<1>16. Asked(sector)' = Asked(sector)
  BY <1>1 DEF Asked, From
<1>9. call \in Asking
  BY <1>1 DEF Asking
<1>10. InCmd17' /\ out' \in Stream
  <2>1. CASE t # 0
    <3>1. Bits(t) \o B(a, w) = Bits(t)
      <4>1. Bits(t) \in Stream
        BY <1>3, ByteBits
      <4>2. Bits(t) \o <<>> = Bits(t)
        BY <4>1 DEF Stream
      <4> QED
        BY <1>15, <2>1, <4>2
    <3>2. Answers(Bits(t))
      BY <1>2, <1>15, <3>1
    <3>3. Alone(t)' /\ out' \in Stream
      BY <1>1, <1>3, <1>9, <3>2, ByteHeard
    <3>4. Alone(Verdict)'
      BY <1>6, <3>3
    <3> QED
      BY <1>6, <2>1, <3>3, <3>4 DEF InCmd17
  <2>2. CASE t = 0
    <3> DEFINE X == Opened'
    <3>12. X = IF a.token = StartToken THEN Started(Asked(sector)) ELSE Failure(a.token)
      <4>1. Opened' = IF Latest'.token = StartToken THEN Started(Asked(sector)') ELSE Failure(Latest'.token)
        BY Zenon DEF Opened
      <4> QED
        BY <1>6, <1>16, <4>1
    <3>13. X \in Stream
      <4>1. CASE a.token = StartToken
        BY <1>8, <3>12, <4>1, StartedIs
      <4>2. CASE a.token # StartToken
        <5>1. Carries(Failure(a.token), Noise(a.token))
          BY <1>3, <4>2, FailureCarries
        <5> QED
          BY <3>12, <4>2, <5>1 DEF Carries
      <4> QED
        BY <4>1, <4>2
    <3> DEFINE y == IF a.token = StartToken THEN w + 7 ELSE w
    <3>14. y \in Nat /\ R(a, w) = Ones(y) \o X
      <4>1. CASE a.token = StartToken
        <5>1. Ones(w) \o Block(Asked(sector)) = Ones(w + 7) \o Started(Asked(sector))
          BY <1>3, <1>8, ReadAnswer, Zenon
        <5> HIDE DEF X
        <5> QED
          BY <1>3, <3>12, <4>1, <5>1
      <4>2. CASE a.token # StartToken
        <5> HIDE DEF X
        <5> QED
          BY <1>3, <3>12, <4>2
      <4> QED
        BY <4>1, <4>2
    <3> HIDE DEF R, X, y
    <3>15. PICK v \in Nat : v = y
      BY <3>14
    <3> DEFINE o == Ones(v) \o X
               s == Bits(0) \o o
    <3>1. B(a, w) = o
      BY <1>15, <2>2, <3>14, <3>15
    <3>2. v \in Nat /\ X \in Stream
      BY <3>13
    <3>3. o \in Stream
      BY <3>2, OnesBefore
    <3>4. Bits(0) \in Stream /\ Len(Bits(0)) = 8
      BY ByteBits
    <3>5. s \in Stream /\ Len(s) = Len(Bits(0)) + Len(o) /\ Len(o) \in Nat
          /\ \A i \in 1 .. Len(Bits(0)) : s[i] = Bits(0)[i]
      <4> HIDE DEF o
      <4> QED
        BY <3>3, <3>4, Behind, Zenon
    <3>6. Answers(s)
      BY <1>2, <1>15, <2>2, <3>1
    <3>7. Heard(out', answer', 0, s) /\ out' \in Stream
      <4> HIDE DEF s, o
      <4>1. Len(s) >= 8 /\ (\A i \in 1 .. 8 : s[i] = Bits(0)[i]) /\ 0 \in 0 .. 255
        BY <3>4, <3>5
      <4> QED
        BY <1>7, <1>9, <3>5, <3>6, <4>1, AnswerHeard
    <3>9. Heard(out', answer', 0, Bits(0) \o (Ones(v) \o Opened'))
      BY <3>7, Zenon DEF X
    <3>10. ~(Verdict' # 0)
      BY <1>6, <2>2
    <3>11. \E x \in Nat : Heard(out', answer', 0, Bits(0) \o (Ones(x) \o Opened'))
      BY <3>2, <3>9, Zenon
    <3> QED
      BY <1>7, <3>7, <3>10, <3>11, Zenon DEF InCmd17, Waiting
  <2> QED
    BY <2>1, <2>2
<1>11. Typed'
  <2>1. answer' \in Word
    BY <1>7 DEF Word
  <2>2. len' \in {0, 1, 8, 16, 40} /\ n' \in 0 .. 8 /\ wait' \in BOOLEAN /\ further' \in 0 .. 4
    BY <1>7
  <2> QED
    BY <1>1, <1>6, <1>10, <2>1, <2>2, Zenon DEF CardInv, Typed
<1>12. Order'
  <2>1. call' \in Listening /\ call' \in Answered /\ call' # "read" /\ call' \notin {"token", "data", "crc"}
    BY <1>1 DEF Listening, Answered
  <2>2. sector' \in Sectors
    BY <1>1, <1>4 DEF Sectors
  <2>3. Len(given') = sector' - First + 1
    BY <1>1, <1>5, <1>6
  <2> QED
    BY <2>1, <2>2, <2>3 DEF Order
<1>13. Packed'
  <2>1. dst = Before
    BY <1>1 DEF CardInv, Packed
  <2> DEFINE x == Pieces
             y == Pieces'
             m == sector - First
  <2>2. m \in Nat /\ Len(x) = m /\ Len(y) = m + 1
    <3>1. Len(x) = Len(given)
      BY PiecesBytes
    <3>2. Len(y) = Len(given')
      BY <1>4, <1>6 DEF Pieces
    <3> QED
      BY <1>4, <1>5, <1>6, <3>1, <3>2
  <2>3. \A k \in 1 .. m : x[k] = y[k]
    <3> SUFFICES ASSUME NEW k \in 1 .. Len(given) PROVE x[k] = y[k]
      BY <1>5
    <3>1. k \in 1 .. Len(given') /\ given'[k] = given[k]
      BY <1>2, <1>4, <1>5, <1>6
    <3>2. x[k] = Taken(given[k], First + k - 1)
      BY DEF Pieces
    <3>3. y[k] = Taken(given[k], First + k - 1)'
      BY <3>1 DEF Pieces
    <3>5. Asked(First + k - 1)' = Asked(First + k - 1)
      BY <1>1 DEF Asked, From
    <3>6. Taken(given[k], First + k - 1)' = Taken(given[k], First + k - 1)
      BY <3>1, <3>5 DEF Taken
    <3> QED
      BY <3>2, <3>3, <3>6
  <2> HIDE DEF x, y, m
  <2>4. Joined(x)[m] = Joined(y)[m]
    <3>1. m <= m + 1 /\ m + 1 \in Nat
      BY <2>2
    <3> QED
      BY <2>2, <2>3, <3>1, JoinedSame
  <2>5. Before' = Before
    BY <1>1, <2>4 DEF Before, x, y, m
  <2> QED
    BY <1>1, <2>1, <2>5 DEF Packed
<1>14. Talk'
  BY <1>1, <1>10 DEF Talk, Asking
<1> QED
  BY <1>11, <1>12, <1>13, <1>14 DEF CardInv

\* What a clock does.
LEMMA ClockIs ==
  ASSUME CardInv, Clock
  PROVE  /\ out' = Left(out) /\ answer' = Shift(answer, Pin(out)) /\ answer' \in Word
         /\ out' \in Stream /\ Len(out') <= Len(out) /\ answer \in Nat /\ out \in Stream
<1>1. out \in Stream /\ answer \in Nat
  BY DEF CardInv, Typed, Word
<1>2. Left(out) \in Stream /\ Pin(out) \in {0, 1} /\ Len(Left(out)) <= Len(out)
  BY <1>1, LeftIs
<1>3. out' = Left(out)
  BY SMT DEF Clock, Left
<1>4. answer' = Shift(answer, Pin(out))
  BY SMT DEF Clock, Shift, Pin
<1>5. Shift(answer, Pin(out)) \in Word
  BY <1>1, <1>2, Shifting
<1> QED
  BY <1>1, <1>2, <1>3, <1>4, <1>5

\* Of an answer, one bit more.
LEMMA WaitingClock ==
  ASSUME CardInv, Clock, wait = TRUE, len \in {8, 40}, NEW r \in 0 .. 127, NEW s, Heard(out, answer, r, s)
  PROVE  Heard(out', answer', r, s)
<1>3. GoesOn(len, wait, n, answer)
  BY DEF Clock
<1>1. GoesOn(len, TRUE, n, answer) /\ answer \in Nat
  BY <1>3, ClockIs, Zenon
<1>2. Rest(answer) >= 128
  <2>1. GoesOn(8, TRUE, n, answer) \/ GoesOn(40, TRUE, n, answer)
    BY <1>1, Zenon
  <2> QED
    BY <1>1, <2>1, WaitsOn, Zenon
<1>4. Heard(Left(out), Shift(answer, Pin(out)), r, s)
  BY <1>1, <1>2, HeardNext
<1> QED
  BY <1>4, ClockIs

\* The driver that waits for one byte goes on waiting.
LEMMA AloneClock ==
  ASSUME CardInv, Clock, NEW r \in 0 .. 127, Alone(r)
  PROVE  Alone(r)'
<1>1. len = 8 /\ further = 0 /\ wait = TRUE /\ Heard(out, answer, r, Bits(r))
  BY DEF Alone, Waiting
<1>2. Heard(out', answer', r, Bits(r))
  BY <1>1, WaitingClock
<1>3. len' = len /\ further' = further /\ wait' = wait
  BY DEF Clock
<1> QED
  BY <1>1, <1>2, <1>3 DEF Alone, Waiting

\* A clock keeps the invariant.
LEMMA ClockKeeps == CardInv /\ Clock => CardInv'
<1> SUFFICES ASSUME CardInv, Clock PROVE CardInv'
  OBVIOUS
<1>1. /\ UNCHANGED <<call, len, wait, further, sector, byte, dst, model, initialised, content, given>>
      /\ call \in {"cmd0", "cmd8", "cmd55", "acmd41", "cmd16", "cmd17", "token", "data", "crc"}
      /\ GoesOn(len, wait, n, answer) /\ n' = IF wait THEN 0 ELSE n + 1
  BY DEF Clock, Reading
<1>2. /\ out' = Left(out) /\ answer' = Shift(answer, Pin(out)) /\ answer' \in Word
      /\ out' \in Stream /\ Len(out') <= Len(out) /\ answer \in Nat /\ out \in Stream
      /\ Len(out) \in Nat /\ Len(out') \in Nat
  BY ClockIs, Length
<1>10. Latest' = Latest /\ Verdict' = Verdict /\ Opened' = Opened /\ Coming' = Coming /\ Before' = Before
  BY <1>1, SameSector
<1>3. len = 8 /\ wait = FALSE => n \in 0 .. 7 /\ n' = n + 1
  <2> SUFFICES ASSUME len = 8, wait = FALSE PROVE n \in 0 .. 7 /\ n' = n + 1
    OBVIOUS
  <2>1. n < 8
    BY <1>1, <1>2, GoesOnIs
  <2>2. n \in 0 .. 8
    BY DEF CardInv, Typed
  <2> QED
    BY <1>1, <2>1, <2>2
<1>4. wait = TRUE \/ (len = 8 /\ wait = FALSE)
  BY <1>1 DEF CardInv, Talk, InCmd17, InCmd8, InToken, InData, InCrc, Alone
<1>5. n' \in 0 .. 8
  BY <1>1, <1>3, <1>4
<1>6. Typed'
  BY <1>1, <1>2, <1>5, Zenon DEF CardInv, Typed
<1>7. Order'
  BY <1>1, <1>10 DEF CardInv, Order
<1>8. Packed'
  BY <1>1, <1>10 DEF CardInv, Packed
<1>9. Talk'
  <2>1. call' = call /\ call \notin Asking
    BY <1>1 DEF Asking
  <2>2. ASSUME call \in {"cmd0", "cmd55"} PROVE Alone(1)'
    <3>1. Alone(1) /\ 1 \in 0 .. 127
      BY <2>2 DEF CardInv, Talk
    <3> QED
      BY <3>1, AloneClock
  <2>3. ASSUME call = "acmd41" PROVE Alone(IF initialised THEN 0 ELSE 1)'
    <3>1. PICK r \in 0 .. 127 : r = IF initialised THEN 0 ELSE 1
      <4>1. 0 \in 0 .. 127 /\ 1 \in 0 .. 127
        OBVIOUS
      <4> QED
        BY <4>1, Zenon
    <3>2. Alone(r)
      BY <2>3, <3>1 DEF CardInv, Talk
    <3>3. Alone(r)'
      BY <3>2, AloneClock
    <3>4. initialised' = initialised
      BY <1>1
    <3> QED
      BY <3>1, <3>3, <3>4
  <2>4. ASSUME call = "cmd16" PROVE Alone(0)'
    <3>1. Alone(0) /\ 0 \in 0 .. 127
      BY <2>4 DEF CardInv, Talk
    <3> QED
      BY <3>1, AloneClock
  <2>5. ASSUME call = "cmd8" PROVE InCmd8'
    <3>1. InCmd8 /\ len' = len /\ wait' = wait /\ further' = further
      BY <1>1, <2>5 DEF CardInv, Talk
    <3> DEFINE s == Bits(1) \o Bits(0) \o Bits(0) \o Bits(1) \o Bits(170)
    <3>2. CASE len = 8 /\ wait = FALSE /\ Len(out) <= 32
      <4>1. Len(out') <= 32
        BY <1>2, <3>2
      <4> QED
        BY <3>1, <3>2, <4>1 DEF InCmd8
    <3>3. CASE len = 40 /\ wait = TRUE /\ further = 4 /\ Heard(out, answer, 5, Bits(5))
      <4>1. 5 \in 0 .. 127
        OBVIOUS
      <4>2. Heard(out', answer', 5, Bits(5))
        BY <3>3, <4>1, WaitingClock
      <4> QED
        BY <3>1, <3>3, <4>2 DEF InCmd8, Waiting
    <3>4. CASE len = 40 /\ wait = TRUE /\ further = 4 /\ Heard(out, answer, 1, s)
      <4>1. 1 \in 0 .. 127
        OBVIOUS
      <4>2. Heard(out', answer', 1, s)
        BY <3>4, <4>1, WaitingClock
      <4> QED
        BY <3>1, <3>4, <4>2 DEF InCmd8, Waiting
    <3> QED
      BY <3>1, <3>2, <3>3, <3>4, Zenon DEF InCmd8, Waiting
  <2>6. ASSUME call = "cmd17" PROVE InCmd17'
    <3>1. InCmd17 /\ Verdict' = Verdict /\ Opened' = Opened /\ len' = len /\ wait' = wait /\ further' = further
      BY <1>1, <1>10, <2>6 DEF CardInv, Talk
    <3>2. CASE Verdict # 0
      <4>1. PICK r \in 0 .. 127 : r = Verdict
        BY <2>6, Numbers DEF Answered
      <4>2. Alone(r)
        BY <3>1, <3>2, <4>1 DEF InCmd17
      <4>3. Alone(r)'
        BY <4>2, AloneClock
      <4>4. Alone(Verdict)'
        BY <3>1, <4>1, <4>3
      <4> QED
        BY <3>1, <3>2, <4>4 DEF InCmd17
    <3>3. CASE Verdict = 0
      <4>1. len = 8 /\ wait = TRUE /\ further = 0
        BY <3>1, <3>3 DEF InCmd17
      <4>2. PICK w \in Nat : Heard(out, answer, 0, Bits(0) \o (Ones(w) \o Opened))
        BY <3>1, <3>3 DEF InCmd17, Waiting
      <4>3. 0 \in 0 .. 127
        OBVIOUS
      <4>4. PICK s : s = Bits(0) \o (Ones(w) \o Opened)
        OBVIOUS
      <4>5. Heard(out', answer', 0, s)
        BY <4>1, <4>2, <4>3, <4>4, WaitingClock
      <4>6. Heard(out', answer', 0, Bits(0) \o (Ones(w) \o Opened'))
        BY <3>1, <4>4, <4>5, Zenon
      <4>7. ~(Verdict' # 0)
        BY <3>1, <3>3
      <4> QED
        BY <3>1, <4>1, <4>6, <4>7, Zenon DEF InCmd17, Waiting
    <3> QED
      BY <3>2, <3>3
  <2>7. ASSUME call = "token" PROVE InToken'
    <3>1. len = 1 /\ wait = TRUE /\ further = 0 /\ Token(out, answer, Opened)
      BY <2>7 DEF CardInv, Talk, InToken
    <3>2. Odd(answer) = 1
      BY <1>1, <1>2, <3>1, GoesOnIs
    <3>3. PICK s : s = Opened
      OBVIOUS
    <3>4. Token(out', answer', s)
      BY <1>2, <3>1, <3>2, <3>3, TokenNext
    <3>5. Opened' = Opened /\ len' = len /\ wait' = wait /\ further' = further
      BY <1>1, <1>10
    <3> QED
      BY <3>1, <3>3, <3>4, <3>5 DEF InToken
  <2>8. ASSUME call = "data" PROVE InData'
    <3>1. len = 8 /\ wait = FALSE /\ further = 0 /\ byte < Bytes /\ Sent(out, answer, Opened, Coming, byte, n)
      BY <2>8 DEF CardInv, Talk, InData
    <3>2. call \in Answered /\ Verdict = 0
      BY <2>8 DEF CardInv, Order, Answered
    <3>3. PICK data, s : data = Coming /\ s = Opened
      OBVIOUS
    <3>4. data \in Data /\ Carries(s, data) /\ byte \in 0 .. Bytes - 1
      <4>1. byte \in 0 .. Bytes /\ Bytes \in Nat
        BY Numbers DEF CardInv, Typed
      <4>2. byte \in 0 .. Bytes - 1
        BY <3>1, <4>1
      <4> QED
        BY <3>2, <3>3, <4>2, Numbers
    <3>5. Sent(Left(out), Shift(answer, Pin(out)), s, data, byte, n + 1)
      BY <1>2, <1>3, <3>1, <3>3, <3>4, SentNext
    <3>6. Sent(out', answer', Opened', Coming', byte', n')
      BY <1>1, <1>2, <1>3, <1>10, <3>1, <3>3, <3>5
    <3> QED
      BY <1>1, <3>1, <3>6 DEF InData
  <2>9. ASSUME call = "crc" PROVE InCrc'
    <3>1. InCrc /\ len' = len /\ wait' = wait /\ further' = further
      BY <1>1, <2>9 DEF CardInv, Talk
    <3>2. ~(len = 16 /\ wait = TRUE /\ answer = 255)
      <4>1. ~GoesOn(16, TRUE, n, 255)
        BY <1>2, GoesOnIs
      <4> QED
        BY <1>1, <4>1, Zenon
    <3>3. Len(out') <= 16
      BY <1>2, <3>1 DEF InCrc
    <3> QED
      BY <3>1, <3>2, <3>3 DEF InCrc
  <2> QED
    BY <2>1, <2>2, <2>3, <2>4, <2>5, <2>6, <2>7, <2>8, <2>9, Zenon DEF Talk
<1> QED
  BY <1>6, <1>7, <1>8, <1>9 DEF CardInv

\* More bytes come after the first byte of the answer to cmd8 and after the CRC.
LEMMA NextByteKeeps == CardInv /\ NextByte => CardInv'
<1> SUFFICES ASSUME CardInv, NextByte PROVE CardInv'
  OBVIOUS
<1>1. /\ UNCHANGED <<call, sector, byte, dst, out, model, initialised, content, given>>
      /\ call \in {"cmd0", "cmd8", "cmd55", "acmd41", "cmd16", "cmd17", "token", "data", "crc"}
      /\ ~GoesOn(len, wait, n, answer) /\ further > 0
      /\ len' = 8 /\ wait' = FALSE /\ n' = 0 /\ answer' = 255 /\ further' = further - 1
  BY DEF NextByte, Reading, sdcard
<1>2. further # 0
  BY <1>1
<1>3. call \in {"cmd8", "crc"}
  BY <1>1, <1>2 DEF CardInv, Talk, Alone, InCmd17, InToken, InData
<1>4. further \in 0 .. 4 /\ further' \in 0 .. 4
  BY <1>1 DEF CardInv, Typed
<1>5. Typed'
  <2>1. answer' \in Word
    BY <1>1 DEF Word
  <2>2. len' \in {0, 1, 8, 16, 40} /\ n' \in 0 .. 8 /\ wait' \in BOOLEAN
    <3>1. 8 \in {0, 1, 8, 16, 40} /\ 0 \in 0 .. 8
      OBVIOUS
    <3> QED
      BY <1>1, <3>1, Zenon
  <2> QED
    BY <1>1, <1>4, <2>1, <2>2, Zenon DEF CardInv, Typed
<1>6. Order'
  <2>1. Verdict' = Verdict
    BY <1>1, SameSector
  <2> QED
    BY <1>1, <2>1 DEF CardInv, Order
<1>7. Packed'
  <2>1. Before' = Before /\ Coming' = Coming
    BY <1>1, SameSector
  <2> QED
    BY <1>1, <2>1 DEF CardInv, Packed
<1>8. CASE call = "cmd8"
  <2>1. Len(out) <= 32
    <3>1. InCmd8
      BY <1>8 DEF CardInv, Talk
    <3> DEFINE s == Bits(1) \o Bits(0) \o Bits(0) \o Bits(1) \o Bits(170)
    <3>2. answer \in Nat /\ Len(out) \in Nat
      BY Numbers
    <3>3. CASE len = 40 /\ wait = TRUE /\ Heard(out, answer, 5, Bits(5))
      <4>1. ~(Rest(answer) >= 128)
        BY <1>1, <3>2, <3>3, GoesOnIs
      <4>2. 5 \in 0 .. 255 /\ Len(Bits(5)) = 8
        BY ByteBits
      <4>3. Len(out) = Len(Bits(5)) - 8
        BY <3>2, <3>3, <4>1, <4>2, HeardEnd
      <4>4. Len(Bits(5)) = 8
        BY <4>2
      <4>5. Len(out) = 8 - 8
        BY <4>3, <4>4
      <4> QED
        BY <4>5
    <3>4. CASE len = 40 /\ wait = TRUE /\ Heard(out, answer, 1, s)
      <4>1. ~(Rest(answer) >= 128)
        BY <1>1, <3>2, <3>4, GoesOnIs
      <4>2. 1 \in 0 .. 255 /\ Len(s) = 40
        BY LongAnswer
      <4> HIDE DEF s
      <4>3. Len(out) = Len(s) - 8
        BY <3>2, <3>4, <4>1, <4>2, HeardEnd
      <4>4. Len(s) = 40
        BY <4>2
      <4>5. Len(out) = 40 - 8
        BY <4>3, <4>4
      <4> QED
        BY <4>5
    <3> QED
      BY <3>1, <3>3, <3>4, Zenon DEF InCmd8, Waiting
  <2>2. InCmd8'
    BY <1>1, <2>1 DEF InCmd8
  <2> QED
    BY <1>1, <1>5, <1>6, <1>7, <1>8, <2>2 DEF CardInv, Talk, Asking
<1>9. CASE call = "crc"
  <2>1. InCrc
    BY <1>9 DEF CardInv, Talk
  <2>2. InCrc'
    <3>1. further' = 0
      BY <1>1, <2>1 DEF InCrc
    <3> QED
      BY <1>1, <2>1, <3>1 DEF InCrc
  <2> QED
    BY <1>1, <1>5, <1>6, <1>7, <1>9, <2>2 DEF CardInv, Talk, Asking
<1> QED
  BY <1>3, <1>8, <1>9

\* A wait for one byte ends with it, and nothing is left.
LEMMA AloneEnd ==
  ASSUME CardInv, NEW r \in 0 .. 255, Alone(r), ~GoesOn(len, wait, n, answer)
  PROVE  status = r /\ Len(out) = 0
<1>1. len = 8 /\ wait = TRUE /\ Heard(out, answer, r, Bits(r)) /\ answer \in Nat
  BY Numbers DEF Alone, Waiting
<1>2. ~GoesOn(8, TRUE, n, answer)
  BY <1>1, Zenon
<1>3. ~(Rest(answer) >= 128)
  BY <1>1, <1>2, GoesOnIs
<1>4. Rest(answer) = r /\ Len(out) = Len(Bits(r)) - 8
  BY <1>1, <1>3, HeardEnd
<1>5. Len(Bits(r)) = 8
  BY ByteBits
<1>6. Len(out) = 8 - 8
  BY <1>4, <1>5
<1> QED
  BY <1>4, <1>6 DEF status, Rest

\* Nothing behind a sequence.
LEMMA Nothing ==
  ASSUME NEW S, NEW s \in Seq(S)
  PROVE  s \o <<>> = s
OBVIOUS

\* The driver goes on to the next sector, and this one is in the buffer or is not.
LEMMA NextSectorIs ==
  ASSUME CardInv, call \in Answered, NextSector, given' = given, content' = content, model' = model
  PROVE  /\ call' \in {"read", "cmd17?"} /\ Order'
         /\ Before' = Before \o Coming
<1>1. /\ First \in Nat /\ Count \in Nat \ {0} /\ sector \in Nat /\ sector - First \in Nat
      /\ sector \in First .. First + Count - 1 /\ Len(given) = sector - First + 1
  BY Numbers DEF Answered
<1>2. sector' = sector + 1 /\ call' = IF sector' \notin Sectors THEN "read" ELSE "cmd17?"
  BY DEF NextSector
<1>3. Order'
  <2>1. call' # "read" => sector' \in Sectors
    BY <1>2
  <2>2. call' = "read" => sector' = First + Count
    BY <1>1, <1>2 DEF Sectors
  <2>3. Len(given') = sector' - First + 0
    BY <1>1, <1>2
  <2>4. call' \notin Answered /\ call' \in Asking \cup Listening \cup {"read"} /\ call' \notin {"token", "data", "crc"}
    BY <1>2 DEF Answered, Asking
  <2> QED
    BY <2>1, <2>2, <2>3, <2>4 DEF Order
<1> DEFINE x == Pieces
           m == sector - First
<1>4. m \in Nat /\ Len(x) = m + 1 /\ x[m + 1] = Coming
  <2>1. Len(x) = Len(given) /\ \A k \in 1 .. Len(given) : x[k] = Taken(given[k], First + k - 1)
    BY PiecesBytes
  <2>2. m \in Nat /\ m + 1 = Len(given) /\ m + 1 \in 1 .. Len(given) /\ First + (m + 1) - 1 = sector
    BY <1>1
  <2> HIDE DEF m, x
  <2>3. x[m + 1] = Taken(given[Len(given)], First + (m + 1) - 1)
    BY <2>1, <2>2, Zenon
  <2>4. x[m + 1] = Coming
    BY <2>2, <2>3, Zenon DEF Coming, Latest
  <2> QED
    BY <2>1, <2>2, <2>4
<1>5. sector' - First = m + 1 /\ Pieces' = x
  <2>1. sector' - First = (sector - First) + 1
    BY <1>1, <1>2
  <2> QED
    BY <2>1, SameReplies
<1>6. Before = Joined(x)[m]
  BY DEF Before
<1> HIDE DEF x, m
<1>8. Joined(x)[m + 1] = Joined(x)[m] \o x[m + 1]
  <2>1. Len(x) \in Nat /\ m + 1 \in 0 .. Len(x) /\ m + 1 # 0 /\ (m + 1) - 1 = m
    BY <1>4
  <2>2. Joined(x)[m + 1] = Joined(x)[(m + 1) - 1] \o x[m + 1]
    BY <2>1, JoinedIs, Zenon
  <2> QED
    BY <2>1, <2>2
<1>7. Before' = Before \o Coming
  <2>1. Before' = Joined(Pieces')[sector' - First]
    BY Zenon DEF Before
  <2> QED
    BY <1>4, <1>5, <1>6, <1>8, <2>1, Zenon
<1> QED
  BY <1>2, <1>3, <1>7

\* What sdcard_init does with an answer keeps the invariant.
LEMMA AfterInitKeeps == CardInv /\ AfterInit => CardInv'
<1> SUFFICES ASSUME CardInv, AfterInit PROVE CardInv'
  OBVIOUS
<1>1. /\ UNCHANGED <<len, wait, n, answer, further, sector, byte, dst, out, model, initialised, content, given>>
      /\ call \in {"cmd0", "cmd8", "cmd55", "acmd41", "cmd16"} /\ call' \in Asking
      /\ ~GoesOn(len, wait, n, answer) /\ further = 0
  BY DEF AfterInit, Got, idle, sdcard, Asking
<1>2. Len(out) <= 48
  <2>1. ASSUME call # "cmd8" PROVE \E r \in 0 .. 255 : Alone(r)
    <3>1. Alone(0) \/ Alone(1)
      BY <1>1, <2>1 DEF CardInv, Talk
    <3>2. 0 \in 0 .. 255 /\ 1 \in 0 .. 255
      OBVIOUS
    <3> QED
      BY <3>1, <3>2, Zenon
  <2>2. CASE call # "cmd8"
    <3>1. PICK r \in 0 .. 255 : Alone(r)
      BY <2>1, <2>2
    <3>2. Len(out) = 0
      BY <1>1, <3>1, AloneEnd
    <3> QED
      BY <3>2
  <2>3. CASE call = "cmd8"
    <3>1. Len(out) <= 32 /\ Len(out) \in Nat
      BY <1>1, <2>3, Numbers DEF CardInv, Talk, InCmd8
    <3> QED
      BY <3>1
  <2> QED
    BY <2>2, <2>3
<1>3. Typed'
  BY <1>1, Zenon DEF CardInv, Typed
<1>4. call \notin Answered /\ call' \notin Answered /\ call # "read" /\ call' # "read" /\ call' \notin Listening
  BY <1>1 DEF Answered, Asking, Listening
<1>5. Order'
  BY <1>1, <1>4 DEF CardInv, Order, Answered
<1>6. Packed'
  <2>1. Before' = Before
    BY <1>1, SameSector
  <2>2. dst = Before
    BY <1>1 DEF CardInv, Packed
  <2>3. call' # "data" /\ call' # "crc"
    BY <1>4 DEF Answered
  <2> QED
    BY <1>1, <2>1, <2>2, <2>3 DEF Packed
<1>7. Talk'
  BY <1>1, <1>2, <1>4 DEF Talk, Listening, Answered
<1> QED
  BY <1>3, <1>5, <1>6, <1>7 DEF CardInv

\* A status that is not zero is the end of a read; after zero the start token is awaited.
LEMMA AfterCmd17Keeps == CardInv /\ AfterCmd17 => CardInv'
<1> SUFFICES ASSUME CardInv, AfterCmd17 PROVE CardInv'
  OBVIOUS
<1>1. /\ call = "cmd17" /\ ~GoesOn(len, wait, n, answer) /\ further = 0
      /\ UNCHANGED <<byte, out, model, initialised, content, given>>
      /\ IF status # 0 THEN NextSector /\ idle /\ dst' = Refused(dst)
                       ELSE call' = "token" /\ Get(1, TRUE) /\ UNCHANGED <<sector, dst>>
  BY DEF AfterCmd17, Got, sdcard
<1>2. InCmd17 /\ call \in Answered /\ Verdict \in 0 .. 127 /\ answer \in Nat /\ dst = Before
  BY <1>1, Numbers DEF CardInv, Talk, Packed, Answered
<1>3. CASE Verdict # 0
  <2>1. status # 0 /\ Len(out) = 0
    <3>1. PICK r \in 0 .. 255 : r = Verdict
      BY <1>2
    <3>2. Alone(r)
      BY <1>2, <1>3, <3>1 DEF InCmd17
    <3>3. status = r /\ Len(out) = 0
      BY <1>1, <3>2, AloneEnd
    <3> QED
      BY <1>3, <3>1, <3>3
  <2>2. NextSector /\ idle /\ dst' = dst
    BY <1>1, <2>1 DEF Refused
  <2>3. /\ call' \in {"read", "cmd17?"} /\ Order'
        /\ Before' = Before \o Coming
    BY <1>1, <1>2, <2>2, NextSectorIs
  <2>4. Before' = Before
    <3>1. Coming = <<>>
      BY <1>3, Zenon DEF Coming, Taken, Verdict
    <3>2. Before \in Seq(0 .. 255)
      BY BeforeBytes
    <3> DEFINE b == Before
    <3>3. b \in Seq(0 .. 255)
      BY <3>2
    <3>4. Before' = b \o <<>>
      BY <2>3, <3>1
    <3> HIDE DEF b
    <3>5. b \o <<>> = b
      BY <3>3, Nothing
    <3> QED
      BY <3>4, <3>5 DEF b
  <2>5. Typed'
    BY <1>1, <2>2, Zenon DEF CardInv, Typed, idle
  <2>6. Packed'
    BY <1>2, <2>2, <2>3, <2>4 DEF Packed
  <2>7. Talk'
    <3>1. Len(out') <= 48
      BY <1>1, <2>1
    <3> QED
      BY <2>3, <3>1 DEF Talk, Asking
  <2> QED
    BY <2>3, <2>5, <2>6, <2>7 DEF CardInv
<1>4. CASE Verdict = 0
  <2>1. len = 8 /\ wait = TRUE
    BY <1>2, <1>4 DEF InCmd17
  <2>2. PICK w \in Nat : Heard(out, answer, 0, Bits(0) \o (Ones(w) \o Opened))
    BY <1>2, <1>4 DEF InCmd17, Waiting
  <2>3. PICK s : s = Bits(0) \o (Ones(w) \o Opened)
    OBVIOUS
  <2>4. ~(Rest(answer) >= 128)
    <3>1. ~GoesOn(8, TRUE, n, answer)
      BY <1>1, <2>1, Zenon
    <3> QED
      BY <1>2, <3>1, GoesOnIs
  <2>5. Rest(answer) = 0 /\ Len(out) = Len(s) - 8 /\ Ends(out, s) /\ out \in Stream
    <3>1. 0 \in 0 .. 255
      OBVIOUS
    <3>2. Heard(out, answer, 0, s)
      BY <2>2, <2>3
    <3>3. Rest(answer) = 0 /\ Len(out) = Len(s) - 8
      BY <1>2, <2>4, <3>1, <3>2, HeardEnd
    <3> QED
      BY <3>2, <3>3 DEF Heard
  <2>6. /\ call' = "token" /\ Get(1, TRUE) /\ sector' = sector /\ dst' = dst
    BY <1>1, <2>5 DEF status, Rest
  <2>7. len' = 1 /\ wait' = TRUE /\ n' = 0 /\ answer' = 255 /\ further' = 0
    BY <2>6 DEF Get
  <2>8. Opened \in Stream /\ Len(Opened) >= 1 /\ Opened[1] = 0
    <3>1. /\ Opened \in Stream /\ Len(Opened) = 8 * Bytes + 17 /\ Bytes \in Nat \ {0} /\ Opened[1] = 0
      BY <1>2, <1>4, Numbers DEF Carries
    <3> QED
      BY <3>1
  <2>9. Token(out, 255, Opened)
    BY <2>3, <2>5, <2>8, TokenStart
  <2>10. Opened' = Opened /\ out' = out
    BY <1>1, <2>6, SameSector
  <2>11. InToken'
    BY <2>7, <2>9, <2>10 DEF InToken
  <2>12. Typed'
    <3>1. 255 \in Word /\ 1 \in {0, 1, 8, 16, 40} /\ 0 \in 0 .. 8 /\ 0 \in 0 .. 4
      BY DEF Word
    <3> QED
      BY <1>1, <2>7, <3>1, Zenon DEF CardInv, Typed
  <2>13. Order'
    <3>1. Verdict' = Verdict /\ call' \in Answered /\ call' \in Listening /\ call' # "read"
      BY <1>1, <2>6, SameSector DEF Answered, Listening
    <3> QED
      BY <1>1, <1>2, <1>4, <2>6, <3>1 DEF CardInv, Order
  <2>14. Packed'
    <3>1. Before' = Before
      BY <1>1, <2>6, SameSector
    <3> QED
      BY <1>2, <2>6, <3>1 DEF Packed
  <2>15. Talk'
    BY <2>6, <2>11 DEF Talk, Asking
  <2> QED
    BY <2>12, <2>13, <2>14, <2>15 DEF CardInv
<1> QED
  BY <1>3, <1>4

\* After the start token come the data.
LEMMA AfterTokenKeeps == CardInv /\ AfterToken => CardInv'
<1> SUFFICES ASSUME CardInv, AfterToken PROVE CardInv'
  OBVIOUS
<1>1. /\ call = "token" /\ ~GoesOn(len, wait, n, answer) /\ call' = "data" /\ byte' = 0
      /\ UNCHANGED <<sector, dst, out, model, initialised, content, given>>
      /\ len' = 8 /\ wait' = FALSE /\ n' = 0 /\ answer' = 255 /\ further' = 0
  BY DEF AfterToken, Got, Get, sdcard
<1>2. /\ len = 1 /\ wait = TRUE /\ Token(out, answer, Opened) /\ call \in Answered /\ answer \in Nat
      /\ dst = Before /\ Bytes \in Nat \ {0} /\ Coming \in Data /\ Carries(Opened, Coming) /\ Verdict = 0
  BY <1>1, Numbers DEF CardInv, Talk, InToken, Packed, Answered, Order
<1>3. Sent(out, 255, Opened, Coming, 0, 0)
  <2>1. ~GoesOn(1, TRUE, n, answer)
    BY <1>1, <1>2, Zenon
  <2>2. Odd(answer) # 1
    BY <1>2, <2>1, GoesOnIs
  <2>3. Len(out) = Len(Opened) - 1
    BY <1>2, <2>2, TokenEnd
  <2>4. Len(Opened) = 8 * Bytes + 17
    BY <1>2 DEF Carries
  <2>5. Len(out) = 8 * Bytes + 16 - 8 * 0 /\ 0 \in 0 .. Bytes - 1
    BY <1>2, <2>3, <2>4
  <2>6. out \in Stream /\ Ends(out, Opened)
    BY <1>2 DEF Token
  <2> QED
    BY <1>2, <2>5, <2>6, SentStart
<1>9. Verdict' = Verdict /\ Opened' = Opened /\ Coming' = Coming /\ Before' = Before
  BY <1>1, SameSector
<1>4. InData'
  BY <1>1, <1>2, <1>3, <1>9 DEF InData
<1>5. Typed'
  <2>1. 255 \in Word /\ 8 \in {0, 1, 8, 16, 40} /\ 0 \in 0 .. 8 /\ 0 \in 0 .. 4 /\ 0 \in 0 .. Bytes
    BY <1>2 DEF Word
  <2> QED
    BY <1>1, <2>1, Zenon DEF CardInv, Typed
<1>6. Order'
  <2>1. Verdict' = Verdict /\ call' \in Answered /\ call' \in Listening /\ call' # "read" /\ call # "read"
    BY <1>1, <1>9 DEF Answered, Listening
  <2> QED
    BY <1>1, <1>2, <2>1 DEF CardInv, Order
<1>7. Packed'
  <2>2. Before \in Seq(0 .. 255)
    BY BeforeBytes
  <2>3. Before' = Before /\ SubSeq(Coming, 1, 0) = <<>>
    BY <1>9
  <2> DEFINE b == Before
  <2>4. b \in Seq(0 .. 255) /\ Before' = b /\ dst = b
    BY <1>2, <2>2, <2>3
  <2> HIDE DEF b
  <2>5. b \o <<>> = b
    BY <2>4, Nothing
  <2>6. dst' = Before' \o SubSeq(Coming, 1, 0)
    BY <1>1, <2>3, <2>4, <2>5
  <2> QED
    BY <1>1, <1>9, <2>6 DEF Packed
<1>8. Talk'
  BY <1>1, <1>4 DEF Talk, Asking
<1> QED
  BY <1>5, <1>6, <1>7, <1>8 DEF CardInv

\* The start of a sequence.
LEMMA Initial ==
  ASSUME NEW B, NEW s \in Seq(B), NEW m \in Nat, m <= Len(s)
  PROVE  /\ SubSeq(s, 1, m) \in Seq(B) /\ Len(SubSeq(s, 1, m)) = m
         /\ \A k \in 1 .. m : SubSeq(s, 1, m)[k] = s[k]
<1>1. SubSeq(s, 1, m) \in Seq(B)
  OBVIOUS
<1>2. Len(SubSeq(s, 1, m)) = m
  OBVIOUS
<1>3. \A k \in 1 .. m : SubSeq(s, 1, m)[k] = s[k]
  OBVIOUS
<1> QED
  BY <1>1, <1>2, <1>3

\* One byte more of the data.
LEMMA OneMore ==
  ASSUME NEW b \in Seq(0 .. 255), NEW data \in Data, NEW i \in 0 .. Bytes - 1
  PROVE  /\ Append(b \o SubSeq(data, 1, i), data[i + 1]) = b \o SubSeq(data, 1, i + 1)
         /\ SubSeq(data, 1, Bytes) = data
<1>1. Bytes \in Nat \ {0}
  BY SdCardAssumption
<1>2. data \in Seq(0 .. 255) /\ Len(data) = Bytes /\ data[i + 1] \in 0 .. 255
  BY <1>1 DEF Data
<1> DEFINE s == SubSeq(data, 1, i)
           t == SubSeq(data, 1, i + 1)
           x == data[i + 1]
<1>3. s \in Seq(0 .. 255) /\ t \in Seq(0 .. 255) /\ Len(s) = i /\ Len(t) = i + 1
      /\ (\A k \in 1 .. i : s[k] = data[k]) /\ (\A k \in 1 .. i + 1 : t[k] = data[k])
  <2>1. i \in Nat /\ i <= Len(data) /\ i + 1 \in Nat /\ i + 1 <= Len(data)
    BY <1>1, <1>2
  <2>2. s \in Seq(0 .. 255) /\ Len(s) = i /\ \A k \in 1 .. i : s[k] = data[k]
    BY <1>2, <2>1, Initial, Zenon
  <2>3. t \in Seq(0 .. 255) /\ Len(t) = i + 1 /\ \A k \in 1 .. i + 1 : t[k] = data[k]
    BY <1>2, <2>1, Initial, Zenon
  <2> QED
    BY <2>2, <2>3, Zenon
<1>4. t = Append(s, x)
  <2>1. \A k \in 1 .. i + 1 : t[k] = Append(s, x)[k]
    <3> SUFFICES ASSUME NEW k \in 1 .. i + 1 PROVE t[k] = Append(s, x)[k]
      OBVIOUS
    <3>1. CASE k = i + 1
      BY <1>1, <1>3, <3>1
    <3>2. CASE k # i + 1
      <4>1. k \in 1 .. i
        BY <1>1, <3>2
      <4> QED
        BY <1>3, <4>1
    <3> QED
      BY <3>1, <3>2
  <2>2. x \in 0 .. 255 /\ Append(s, x) \in Seq(0 .. 255) /\ Len(Append(s, x)) = i + 1
    BY <1>2, <1>3
  <2> HIDE DEF s, t, x
  <2> QED
    BY <1>3, <2>1, <2>2
<1>5. Append(b \o s, x) = b \o Append(s, x)
  <2>1. x \in 0 .. 255 /\ s \in Seq(0 .. 255)
    BY <1>2, <1>3
  <2>2. PICK V : V = 0 .. 255
    OBVIOUS
  <2> HIDE DEF s, t, x
  <2>3. b \in Seq(V) /\ s \in Seq(V) /\ x \in V
    BY <2>1, <2>2, Zenon
  <2> QED
    BY <2>3
<1>6. SubSeq(data, 1, Bytes) = data
  BY <1>1, <1>2
<1> QED
  BY <1>4, <1>5, <1>6

\* A byte of the data is in the buffer, and after the last one the CRC is read.
LEMMA AfterByteKeeps == CardInv /\ AfterByte => CardInv'
<1> SUFFICES ASSUME CardInv, AfterByte PROVE CardInv'
  OBVIOUS
<1>1. /\ call = "data" /\ ~GoesOn(len, wait, n, answer)
      /\ UNCHANGED <<sector, out, model, initialised, content, given>>
      /\ byte' = byte + 1 /\ dst' = Append(dst, status)
      /\ IF Lacks(byte') THEN Get(8, FALSE) /\ UNCHANGED call
                         ELSE Get(16, TRUE) /\ call' = "crc"
  BY DEF AfterByte, Got, sdcard
<1>2. /\ len = 8 /\ wait = FALSE /\ byte < Bytes /\ Sent(out, answer, Opened, Coming, byte, n)
      /\ call \in Answered /\ answer \in Nat /\ Bytes \in Nat \ {0} /\ Coming \in Data /\ Verdict = 0
      /\ dst = Before \o SubSeq(Coming, 1, byte)
  BY <1>1, Numbers DEF CardInv, Talk, InData, Packed, Answered, Order
<1>10. /\ Latest' = Latest /\ Verdict' = Verdict /\ Opened' = Opened /\ Coming' = Coming
       /\ Before' = Before
  BY <1>1, SameSector
<1>3. byte \in 0 .. Bytes - 1 /\ n = 8
  <2>1. byte \in 0 .. Bytes /\ n \in 0 .. 8
    BY DEF CardInv, Typed
  <2>2. ~GoesOn(8, FALSE, n, answer)
    BY <1>1, <1>2, Zenon
  <2>3. ~(n < 8)
    BY <1>2, <2>2, GoesOnIs
  <2> QED
    BY <1>2, <2>1, <2>3
<1>4. status = Coming[byte + 1] /\ Len(out) = 8 * Bytes + 16 - 8 * (byte + 1)
  <2>1. Sent(out, answer, Opened, Coming, byte, 8)
    BY <1>2, <1>3, Zenon
  <2>2. Rest(answer) = Coming[byte + 1] /\ Len(out) = 8 * Bytes + 16 - 8 * (byte + 1)
    BY <1>2, <1>3, <2>1, SentEnd
  <2> QED
    BY <2>2 DEF status, Rest
<1>5. out \in Stream /\ Ends(out, Opened)
  BY <1>2 DEF Sent
<1>6. Order'
  <2>1. Verdict' = Verdict /\ call' \in {"data", "crc"}
    BY <1>1, <1>10
  <2>2. call' \in Answered /\ call' \in Listening /\ call' # "read" /\ call # "read"
    BY <1>1, <2>1 DEF Answered, Listening
  <2> QED
    BY <1>1, <1>2, <2>1, <2>2 DEF CardInv, Order
<1>7. dst' = Before' \o SubSeq(Coming', 1, byte') /\ SubSeq(Coming, 1, Bytes) = Coming
  <2>2. Before \in Seq(0 .. 255)
    BY BeforeBytes
  <2>3. /\ Append(Before \o SubSeq(Coming, 1, byte), Coming[byte + 1])
             = Before \o SubSeq(Coming, 1, byte + 1)
        /\ SubSeq(Coming, 1, Bytes) = Coming
    BY <1>2, <1>3, <2>2, OneMore
  <2>4. dst' = Append(Before \o SubSeq(Coming, 1, byte), Coming[byte + 1])
    BY <1>1, <1>2, <1>4
  <2>5. Before' = Before /\ Coming' = Coming /\ byte' = byte + 1
    BY <1>1, <1>10
  <2> QED
    BY <2>3, <2>4, <2>5
<1>8. CASE Lacks(byte')
  <2>1. call' = "data" /\ len' = 8 /\ wait' = FALSE /\ n' = 0 /\ answer' = 255 /\ further' = 0
    BY <1>1, <1>8 DEF Get
  <2>2. byte + 1 \in 0 .. Bytes - 1
    BY <1>1, <1>2, <1>3, <1>8 DEF Lacks
  <2>3. Sent(out, 255, Opened, Coming, byte + 1, 0)
    BY <1>2, <1>4, <1>5, <2>2, SentStart
  <2>4. InData'
    <3>1. byte' < Bytes /\ Sent(out', answer', Opened', Coming', byte', n')
      BY <1>1, <1>8, <1>10, <2>1, <2>3 DEF Lacks
    <3> QED
      BY <2>1, <3>1 DEF InData
  <2>5. Typed'
    <3>1. 255 \in Word /\ 8 \in {0, 1, 8, 16, 40} /\ 0 \in 0 .. 8 /\ 0 \in 0 .. 4 /\ byte + 1 \in 0 .. Bytes
      BY <1>2, <2>2 DEF Word
    <3> QED
      BY <1>1, <2>1, <3>1, Zenon DEF CardInv, Typed
  <2>6. Packed'
    BY <1>7, <2>1 DEF Packed
  <2>7. Talk'
    BY <2>1, <2>4 DEF Talk, Asking
  <2> QED
    BY <1>6, <2>5, <2>6, <2>7 DEF CardInv
<1>9. CASE ~Lacks(byte')
  <2>1. call' = "crc" /\ len' = 16 /\ wait' = TRUE /\ n' = 0 /\ answer' = 255 /\ further' = 1
    <3>1. 16 \div 8 - 1 = 1
      OBVIOUS
    <3> QED
      BY <1>1, <1>9, <3>1 DEF Get
  <2>2. byte + 1 = Bytes
    BY <1>1, <1>2, <1>3, <1>9 DEF Lacks
  <2>3. InCrc'
    <3>1. Len(out') <= 16
      BY <1>1, <1>2, <1>4, <2>2
    <3> QED
      BY <2>1, <3>1 DEF InCrc
  <2>4. Typed'
    <3>1. 255 \in Word /\ 16 \in {0, 1, 8, 16, 40} /\ 0 \in 0 .. 8 /\ 1 \in 0 .. 4 /\ byte + 1 \in 0 .. Bytes
      BY <1>2, <2>2 DEF Word
    <3> QED
      BY <1>1, <2>1, <3>1, Zenon DEF CardInv, Typed
  <2>5. Packed'
    <3>1. SubSeq(Coming', 1, byte') = Coming'
      BY <1>1, <1>7, <1>10, <2>2
    <3>2. dst' = Before' \o Coming'
      BY <1>7, <3>1
    <3> QED
      BY <2>1, <3>2 DEF Packed
  <2>6. Talk'
    BY <2>1, <2>3 DEF Talk, Asking
  <2> QED
    BY <1>6, <2>4, <2>5, <2>6 DEF CardInv
<1> QED
  BY <1>8, <1>9

\* After the CRC comes the next sector.
LEMMA AfterCrcKeeps == CardInv /\ AfterCrc => CardInv'
<1> SUFFICES ASSUME CardInv, AfterCrc PROVE CardInv'
  OBVIOUS
<1>1. /\ call = "crc" /\ NextSector /\ idle
      /\ UNCHANGED <<byte, dst, out, model, initialised, content, given>>
  BY DEF AfterCrc, Got, sdcard
<1>2. call \in Answered /\ Verdict = 0 /\ Len(out) <= 16 /\ Len(out) \in Nat /\ dst = Before \o Coming
  BY <1>1, Numbers DEF CardInv, Order, Talk, InCrc, Packed, Answered
<1>3. /\ call' \in {"read", "cmd17?"} /\ Order'
      /\ Before' = Before \o Coming
  BY <1>1, <1>2, NextSectorIs
<1>4. Typed'
  BY <1>1, Zenon DEF CardInv, Typed, idle
<1>5. Packed'
  BY <1>1, <1>2, <1>3 DEF Packed
<1>6. Talk'
  <2>1. Len(out') <= 48
    BY <1>1, <1>2
  <2> QED
    BY <1>3, <2>1 DEF Talk, Asking
<1> QED
  BY <1>3, <1>4, <1>5, <1>6 DEF CardInv

\* Every step of the driver and of the card keeps the invariant.
LEMMA CardKeeps == CardInv /\ [SdNext]_sdvars => CardInv'
<1> SUFFICES ASSUME CardInv, [SdNext]_sdvars PROVE CardInv'
  OBVIOUS
<1>1. ASSUME UNCHANGED sdvars PROVE CardInv'
  <2>1. /\ UNCHANGED <<call, len, wait, n, answer, further, sector, byte, dst>>
        /\ UNCHANGED <<out, model, initialised, content, given>>
    BY <1>1 DEF sdvars, driver, sdcard
  <2>2. Typed'
    BY <2>1, Zenon DEF CardInv, Typed
  <2>6. /\ Verdict' = Verdict /\ Opened' = Opened /\ Coming' = Coming /\ Before' = Before
    BY <2>1, SameSector
  <2>3. Order'
    BY <2>1, <2>6 DEF CardInv, Order
  <2>4. Packed'
    BY <2>1, <2>6 DEF CardInv, Packed
  <2>5. Talk'
    BY <2>1, <2>6 DEF CardInv, Talk, Alone, Waiting, InCmd8, InCmd17, InToken, InData, InCrc
  <2> QED
    BY <2>2, <2>3, <2>4, <2>5 DEF CardInv
<1>2. Done => CardInv'
  BY <1>1 DEF Done
<1> QED
  BY <1>1, <1>2, Cmd0Keeps, Cmd8Keeps, Cmd55Keeps, Acmd41Keeps, Cmd16Keeps, Cmd17Keeps, ClockKeeps,
     NextByteKeeps, AfterInitKeeps, AfterCmd17Keeps, AfterTokenKeeps, AfterByteKeeps, AfterCrcKeeps,
     Zenon DEF SdNext

\* The invariant holds always.
LEMMA CardInvariant == SdSpec => []CardInv
<1> QED
  BY CardStarts, CardKeeps, PTL DEF SdSpec

\* What the invariant says of types.
LEMMA CardTyped == CardInv => SdTypeOK
<1> SUFFICES ASSUME CardInv PROVE SdTypeOK
  OBVIOUS
<1>1. /\ First \in Nat /\ Count \in Nat \ {0} /\ sector \in Nat /\ sector - First \in Nat
      /\ call # "read" => sector \in First .. First + Count - 1
      /\ call \in Answered => Len(given) = sector - First + 1
      /\ Len(given) \in Nat
  BY Numbers
<1>2. sector \in First .. First + Count /\ Len(given) <= Count
  <2>1. call = "read" => sector = First + Count /\ call \notin Answered
    BY DEF CardInv, Order, Answered
  <2>2. call \notin Answered => Len(given) = sector - First + 0
    BY DEF CardInv, Order
  <2> QED
    BY <1>1, <2>1, <2>2
<1>3. dst \in Seq(0 .. 255)
  <2>2. Before \in Seq(0 .. 255)
    BY BeforeBytes
  <2> DEFINE b == Before
  <2>3. CASE call \in {"data", "crc"}
    <3>1. Coming \in Data /\ Bytes \in Nat \ {0} /\ byte \in 0 .. Bytes
      BY <2>3, Numbers DEF CardInv, Typed, Order, Answered
    <3>2. Coming \in Seq(0 .. 255) /\ SubSeq(Coming, 1, byte) \in Seq(0 .. 255)
      <4>1. PICK c : c = Coming
        OBVIOUS
      <4>2. c \in Seq(0 .. 255) /\ Len(c) = Bytes
        BY <3>1, <4>1 DEF Data
      <4>3. SubSeq(c, 1, byte) \in Seq(0 .. 255)
        <5>1. byte \in Nat /\ byte <= Len(c)
          BY <3>1, <4>2
        <5> QED
          BY <4>2, <5>1, Initial
      <4> QED
        BY <4>1, <4>2, <4>3
    <3>3. dst = b \o SubSeq(Coming, 1, byte) \/ dst = b \o Coming
      BY <2>3 DEF CardInv, Packed
    <3> HIDE DEF b
    <3>4. b \in Seq(0 .. 255)
      BY <2>2 DEF b
    <3> DEFINE c == Coming
               d == SubSeq(c, 1, byte)
    <3>5. c \in Seq(0 .. 255) /\ d \in Seq(0 .. 255) /\ (dst = b \o d \/ dst = b \o c)
      BY <3>2, <3>3
    <3> HIDE DEF c, d
    <3>6. b \o d \in Seq(0 .. 255) /\ b \o c \in Seq(0 .. 255)
      BY <3>4, <3>5
    <3> QED
      BY <3>5, <3>6, Zenon
  <2>4. CASE call \notin {"data", "crc"}
    BY <2>2, <2>4 DEF CardInv, Packed
  <2> QED
    BY <2>3, <2>4
<1>4. /\ len \in {0, 1, 8, 16, 40} /\ wait \in BOOLEAN /\ n \in 0 .. 8 /\ further \in 0 .. 4
      /\ answer \in 0 .. 65535 /\ byte \in 0 .. Bytes /\ out \in Seq({0, 1})
  BY DEF CardInv, Typed, Word, Stream
<1> QED
  BY <1>2, <1>3, <1>4, SMT DEF SdTypeOK

\* Types, for every number of sectors and of bytes, all waits and all statuses.
THEOREM CardTypes == SdSpec => []SdTypeOK
<1> QED
  BY CardInvariant, CardTyped, PTL

\* What the invariant says of statuses.
LEMMA CardOwn == CardInv => OwnStatus
<1> SUFFICES ASSUME CardInv PROVE OwnStatus
  OBVIOUS
<1>1. ASSUME NEW r \in 0 .. 255, Alone(r), ~GoesOn(len, wait, n, answer) PROVE status = r
  BY <1>1, AloneEnd
<1>2. ASSUME Got("cmd17") PROVE status = given[Len(given)].status
  <2>1. call = "cmd17" /\ ~GoesOn(len, wait, n, answer) /\ InCmd17 /\ Verdict \in 0 .. 127 /\ answer \in Nat
    BY <1>2, Numbers DEF Got, CardInv, Talk, Answered
  <2>2. CASE Verdict # 0
    <3>1. PICK r \in 0 .. 255 : r = Verdict
      BY <2>1
    <3>2. Alone(r)
      BY <2>1, <2>2, <3>1 DEF InCmd17
    <3>3. status = r
      BY <2>1, <3>2, AloneEnd
    <3> QED
      BY <3>1, <3>3 DEF Verdict, Latest
  <2>3. CASE Verdict = 0
    <3>1. len = 8 /\ wait = TRUE
      BY <2>1, <2>3 DEF InCmd17
    <3>2. PICK w \in Nat : Heard(out, answer, 0, Bits(0) \o (Ones(w) \o Opened))
      BY <2>1, <2>3 DEF InCmd17, Waiting
    <3>3. PICK s : s = Bits(0) \o (Ones(w) \o Opened)
      OBVIOUS
    <3>4. ~(Rest(answer) >= 128)
      <4>1. ~GoesOn(8, TRUE, n, answer)
        BY <2>1, <3>1, Zenon
      <4> QED
        BY <2>1, <4>1, GoesOnIs
    <3>5. 0 \in 0 .. 255 /\ Heard(out, answer, 0, s)
      BY <3>2, <3>3
    <3>6. Rest(answer) = 0
      BY <2>1, <3>4, <3>5, HeardEnd
    <3> QED
      BY <2>3, <3>6 DEF status, Rest, Verdict, Latest
  <2> QED
    BY <2>2, <2>3
<1>3. ASSUME Got("acmd41") PROVE status = IF initialised THEN 0 ELSE 1
  <2>1. PICK r \in 0 .. 255 : r = IF initialised THEN 0 ELSE 1
    <3>1. 0 \in 0 .. 255 /\ 1 \in 0 .. 255
      OBVIOUS
    <3> QED
      BY <3>1, Zenon
  <2>2. Alone(r) /\ ~GoesOn(len, wait, n, answer)
    BY <1>3, <2>1 DEF Got, CardInv, Talk
  <2> QED
    BY <1>1, <2>1, <2>2
<1>4. ASSUME Got("cmd0") \/ Got("cmd55") PROVE status = 1
  <2>1. Alone(1) /\ ~GoesOn(len, wait, n, answer) /\ 1 \in 0 .. 255
    BY <1>4 DEF Got, CardInv, Talk
  <2> QED
    BY <1>1, <2>1
<1>5. ASSUME Got("cmd16") PROVE status = 0
  <2>1. Alone(0) /\ ~GoesOn(len, wait, n, answer) /\ 0 \in 0 .. 255
    BY <1>5 DEF Got, CardInv, Talk
  <2> QED
    BY <1>1, <2>1
<1> QED
  BY <1>2, <1>3, <1>4, <1>5, Zenon DEF OwnStatus

\* A status that the driver acts upon is the one the card gave to that command.
THEOREM StatusesOwned == SdSpec => []OwnStatus
<1> QED
  BY CardInvariant, CardOwn, PTL

\* What the invariant says of the buffer.
LEMMA CardPacked == CardInv => SectorsPacked
<1> SUFFICES ASSUME CardInv, call = "read"
             PROVE  dst = FlattenSeq([k \in 1 .. Count |-> Taken(given[k], First + k - 1)])
  BY DEF SectorsPacked
<1>1. First \in Nat /\ Count \in Nat \ {0}
  BY SdCardAssumption
<1>2. sector - First = Count /\ Len(given) = Count
  <2>1. sector = First + Count /\ call \notin Answered
    BY DEF CardInv, Order, Answered
  <2> QED
    BY <1>1, <2>1 DEF CardInv, Order
<1> DEFINE x == Pieces
<1>3. dst = Joined(x)[Count]
  BY <1>2 DEF CardInv, Packed, Before
<1>4. x[1] \in Seq(0 .. 255) /\ Len(x) = Count
  <2>1. Len(x) = Count /\ \A k \in 1 .. Count : x[k] \in Seq(0 .. 255)
    BY <1>2, PiecesBytes, Zenon
  <2>2. 1 \in 1 .. Count
    BY <1>1
  <2> HIDE DEF x
  <2> QED
    BY <2>1, <2>2
<1>5. x = [k \in 1 .. Count |-> Taken(given[k], First + k - 1)]
  BY <1>2, Zenon DEF Pieces
<1> HIDE DEF x
<1>6. FlattenSeq(x) = Joined(x)[Count]
  BY <1>1, <1>4, FlattenIs
<1>7. dst = FlattenSeq(x)
  BY <1>3, <1>6
<1> QED
  BY <1>5, <1>7

\* When sdcard_readsector returns, the buffer has what the card gave to each read, whole and in
\* order, and what is behind a refused one is in its place.
THEOREM SectorsArrive == SdSpec => []SectorsPacked
<1> QED
  BY CardInvariant, CardPacked, PTL

\* The block that a card of high capacity gives is the sector.
LEMMA SectorAsked ==
  ASSUME model = "SDHC", NEW k \in 1 .. Count
  PROVE  Asked(First + k - 1) = [i \in 1 .. Bytes |-> content[(First + k - 1) * Bytes + (i - 1)]]
<1> DEFINE s == First + k - 1
<1>1. s \in Sectors
  BY SdCardAssumption DEF Sectors
<1> HIDE DEF s
<1>2. Address(s) = s
  BY <1>1, Addressed
<1>3. From(s) = s * Bytes
  BY <1>2, Zenon DEF From
<1>4. Asked(s) = [i \in 1 .. Bytes |-> content[s * Bytes + (i - 1)]]
  BY <1>3, Zenon DEF Asked
<1> QED
  BY <1>4, Zenon DEF s

\* A card remains the card it is.
LEMMA CardStays == SdSpec => [](model \in Models)
<1>1. SdInit => model \in Models
  BY DEF SdInit
<1>2. model \in Models /\ [SdNext]_sdvars => (model \in Models)'
  <2> SUFFICES ASSUME [SdNext]_sdvars PROVE model' = model
    BY Zenon
  <2>1. CASE UNCHANGED sdvars
    BY <2>1 DEF sdvars, sdcard
  <2>5. CASE Cmd0 \/ Cmd8 \/ Cmd55
    <3>1. same
      BY <2>5, Zenon DEF Cmd0, Cmd8, Cmd55
    <3> QED
      BY <3>1 DEF same
  <2>6. CASE Acmd41 \/ Cmd16
    <3>1. same
      BY <2>6, Zenon DEF Acmd41, Cmd16
    <3> QED
      BY <3>1 DEF same
  <2>2. CASE Cmd17 \/ Clock
    <3>1. Cmd17 => model' = model
      BY DEF Cmd17
    <3>2. Clock => model' = model
      BY DEF Clock
    <3> QED
      BY <2>2, <3>1, <3>2
  <2>3. CASE NextByte \/ AfterInit \/ AfterCmd17 \/ AfterToken \/ AfterByte \/ AfterCrc
    BY <2>3, Zenon DEF NextByte, AfterInit, AfterCmd17, AfterToken, AfterByte, AfterCrc, sdcard
  <2>4. CASE Done
    BY <2>1, <2>4 DEF Done
  <2> QED
    BY <2>1, <2>2, <2>3, <2>4, <2>5, <2>6, Zenon DEF SdNext
<1> QED
  BY <1>1, <1>2, PTL DEF SdSpec

\* With cards of high capacity alone, a buffer that was filled with a block for every read has
\* the sectors that were asked for.
THEOREM SectorsRight == Models = {"SDHC"} => (SdSpec => []SectorsWanted)
<1>1. ASSUME Models = {"SDHC"}, SectorsPacked, model \in Models PROVE SectorsWanted
  <2> DEFINE x == [k \in 1 .. Count |-> Taken(given[k], First + k - 1)]
             y == [k \in 1 .. Count |->
                     [i \in 1 .. Bytes |-> content[(First + k - 1) * Bytes + (i - 1)]]]
  <2> SUFFICES ASSUME call = "read", \A k \in 1 .. Count : given[k] = [status |-> 0, token |-> StartToken]
               PROVE  dst = FlattenSeq(y)
    BY Zenon DEF SectorsWanted
  <2>1. dst = FlattenSeq(x)
    BY <1>1 DEF SectorsPacked
  <2>2. ASSUME NEW k \in 1 .. Count
        PROVE  Taken(given[k], First + k - 1)
                 = [i \in 1 .. Bytes |-> content[(First + k - 1) * Bytes + (i - 1)]]
    <3>1. given[k].status = 0 /\ given[k].token = StartToken
      BY SMT
    <3>2. Taken(given[k], First + k - 1) = Asked(First + k - 1)
      BY <3>1, Zenon DEF Taken
    <3> QED
      BY <1>1, <3>2, SectorAsked, Zenon
  <2>3. x = y
    BY <2>2, Zenon
  <2> QED
    BY <2>1, <2>3, Zenon
<1> SUFFICES ASSUME Models = {"SDHC"} PROVE SdSpec => []SectorsWanted
  OBVIOUS
<1>2. SectorsPacked /\ model \in Models => SectorsWanted
  BY <1>1
<1> QED
  BY <1>2, SectorsArrive, CardStays, PTL
=============================================================================
