-------------------------- MODULE PlayerMenuProofs --------------------------
(***************************************************************************)
(* Theorems about PlayerMenu, for any playlists and any number of lines on *)
(* the screen.                                                             *)
(***************************************************************************)
EXTENDS PlayerMenu, TLAPS

M == MAX_LISTED_ITEMS

\* Quotient and remainder by the number of lines of the screen, as in
\* step9_cabillot.c:142-145 and 156-157.
LEMMA Division ==
  ASSUME NEW a \in Nat
  PROVE  /\ a \div M \in Nat
         /\ a % M \in 0 .. M - 1
         /\ a = M * (a \div M) + (a % M)
  BY MenuAssumption, SMTT(30) DEF M

\* Quotient and remainder are unique.
LEMMA Quotient ==
  ASSUME NEW a \in Nat, NEW q \in Nat, NEW r \in 0 .. M - 1, a = M * q + r
  PROVE  a \div M = q /\ a % M = r
<1> DEFINE p == a \div M
           s == a % M
<1>0. M \in Nat /\ M > 0
  BY MenuAssumption DEF M
<1>1. p \in Nat /\ s \in 0 .. M - 1 /\ a = M * p + s
  BY Division
<1> HIDE DEF p, s
<1>2. M * (p - q) = r - s
  BY <1>0, <1>1, SMT
<1>3. p - q \in Int /\ r - s < M /\ s - r < M
  BY <1>0, <1>1
<1>4. ~(p - q >= 1)
  BY <1>0, <1>1, <1>2, <1>3, SMT
<1>5. ~(q - p >= 1)
  <2>1. M * (q - p) = s - r
    BY <1>0, <1>1, <1>2, SMT
  <2> QED
    BY <1>0, <1>1, <2>1, <1>3, SMT
<1>6. p = q
  BY <1>0, <1>1, <1>3, <1>4, <1>5
<1>7. s = r
  BY <1>0, <1>1, <1>6
<1> QED
  BY <1>6, <1>7 DEF p, s

\* A page starts at or before its items, and holds them.
LEMMA PageHolds ==
  ASSUME NEW a \in Nat
  PROVE  Page(a) \in 0 .. a /\ a \in Page(a) .. Page(a) + MAX_LISTED_ITEMS - 1
<1>0. M \in Nat /\ M > 0 /\ Page(a) = M * (a \div M)
  BY MenuAssumption DEF M, Page
<1>1. a \div M \in Nat /\ a % M \in 0 .. M - 1 /\ a = Page(a) + (a % M)
  BY <1>0, Division
<1>2. Page(a) \in Nat
  BY <1>0, <1>1, SMT
<1> QED
  BY <1>0, <1>1, <1>2 DEF M

\* The next item is on the same page or starts one.
LEMMA NextPage ==
  ASSUME NEW a \in Nat
  PROVE  /\ (a + 1) % M # 0 => Page(a + 1) = Page(a)
         /\ a % M = 0 => Page(a) = a
         /\ (a + 1) % M = 0 => Page(a) = a - M + 1
<1>0. M \in Nat /\ M > 0 /\ \A x \in Nat : Page(x) = M * (x \div M)
  BY MenuAssumption DEF M, Page
<1> DEFINE q == (a + 1) \div M
           r == (a + 1) % M
<1>1. q \in Nat /\ r \in 0 .. M - 1 /\ a + 1 = M * q + r
  BY Division
<1>2. a % M = 0 => Page(a) = a
  BY <1>0, Division
<1> HIDE DEF q, r
<1>3. ASSUME r # 0
      PROVE  a \div M = q
  <2>1. r - 1 \in 0 .. M - 1 /\ a = M * q + (r - 1)
    BY <1>0, <1>1, <1>3
  <2> QED
    BY <2>1, <1>1, Quotient
<1>4. ASSUME r = 0
      PROVE  M * (a \div M) = a - M + 1
  <2>1. q >= 1
    BY <1>0, <1>1, <1>4, SMT
  <2>2. q - 1 \in Nat /\ M - 1 \in 0 .. M - 1
    BY <1>0, <1>1, <2>1
  <2>3. M * (q - 1) = M * q - M
    BY <1>0, <1>1, SMT
  <2>4. a = M * (q - 1) + (M - 1)
    BY <1>0, <1>1, <1>4, <2>3
  <2>5. a \div M = q - 1
    BY <2>2, <2>4, Quotient
  <2> QED
    BY <1>0, <1>1, <2>5, <2>4
<1> QED
  BY <1>0, <1>2, <1>3, <1>4 DEF q, r

\* BTN_UP: the new item exists, and if the menu showed the page of the old one it shows
\* that of the new one (step9_cabillot.c:139-147, 192-200).
LEMMA AboveShown ==
  ASSUME NEW n \in Nat \ {0}, NEW item \in 0 .. n - 1, NEW start \in Nat
  PROVE  /\ Above(item, n) \in 0 .. n - 1
         /\ StartAbove(Above(item, n), n, start) \in {start, Page(Above(item, n))}
         /\ start = Page(item) =>
              StartAbove(Above(item, n), n, start) = Page(Above(item, n))
<1> DEFINE new == Above(item, n)
<1>1. new \in 0 .. n - 1 /\ new \in Nat
  BY DEF Above
<1>2. item # 0 => item = new + 1
  BY DEF Above
<1>3. item = 0 => new = n - 1
  BY DEF Above
<1> HIDE DEF new
<1>4. M \in Nat /\ M > 0
  BY MenuAssumption DEF M
<1>5. CASE (new + 1) % M = 0
  <2>1. StartAbove(new, n, start) = new - M + 1
    BY <1>5 DEF StartAbove, M
  <2> QED
    BY <1>1, <1>5, <2>1, NextPage DEF new
<1>6. CASE (new + 1) % M # 0 /\ new = n - 1
  <2>1. StartAbove(new, n, start) = n - (n % M)
    BY <1>6 DEF StartAbove, M
  <2>2. n = M * (n \div M) + (n % M) /\ Page(n) = M * (n \div M) /\ n = new + 1
        /\ n \div M \in Nat /\ n % M \in 0 .. M - 1
    BY <1>1, <1>6, Division DEF Page, M
  <2>3. Page(n) = n - (n % M)
    BY <1>4, <2>2, SMT
  <2>4. Page(new + 1) = Page(new)
    BY <1>1, <1>6, NextPage
  <2> QED
    BY <1>1, <2>1, <2>2, <2>3, <2>4 DEF new
<1>7. CASE (new + 1) % M # 0 /\ new # n - 1
  <2>1. StartAbove(new, n, start) = start
    BY <1>7 DEF StartAbove, M
  <2>2. Page(new + 1) = Page(new) /\ item = new + 1
    BY <1>1, <1>2, <1>3, <1>7, NextPage
  <2> QED
    BY <1>1, <2>1, <2>2 DEF new
<1> QED
  BY <1>5, <1>6, <1>7

\* BTN_DOWN: the same (step9_cabillot.c:152-159, 205-212).
LEMMA BelowShown ==
  ASSUME NEW n \in Nat \ {0}, NEW item \in 0 .. n - 1, NEW start \in Nat
  PROVE  /\ Below(item, n) \in 0 .. n - 1
         /\ StartBelow(Below(item, n), start) \in {start, Page(Below(item, n))}
         /\ start = Page(item) =>
              StartBelow(Below(item, n), start) = Page(Below(item, n))
<1> DEFINE new == Below(item, n)
<1>1. new \in 0 .. n - 1 /\ new \in Nat
  BY DEF Below
<1>2. new = item + 1 \/ new = 0
  BY DEF Below
<1> HIDE DEF new
<1>3. 0 % M = 0
  <2>1. M \in Nat /\ M > 0
    BY MenuAssumption DEF M
  <2> QED
    BY <2>1, SMT
<1>4. CASE new % M = 0
  <2>1. StartBelow(new, start) = new
    BY <1>4 DEF StartBelow, M
  <2> QED
    BY <1>1, <1>4, <2>1, NextPage DEF new
<1>5. CASE new % M # 0
  <2>1. StartBelow(new, start) = start
    BY <1>5 DEF StartBelow, M
  <2>2. new = item + 1 /\ item \in Nat
    BY <1>2, <1>3, <1>5
  <2>3. Page(item + 1) = Page(item)
    BY <1>5, <2>2, NextPage
  <2> QED
    BY <1>1, <2>1, <2>2, <2>3 DEF new
<1> QED
  BY <1>4, <1>5
---------------------------------------------------------------------------
\* The first line of each menu starts the page of its selected item, except
\* when a music has followed another one.
Pages ==
  /\ menu_start_pl_item = Page(selected_playlist)
  /\ ~auto => menu_start_item = Page(current_music)

\* The locals of the music menu do not exist in the other one.
Closed ==
  pc \in {"plUp", "plDown", "plRight", "plRelease"} =>
    current_music = 0 /\ menu_start_item = 0

\* Where a press of BTN_RIGHT or BTN_LEFT that is looked at has not been acted upon.
Fresh ==
  /\ pc \in {"plUp", "plDown", "plRight", "musUp", "musDown", "musRight", "musLeft",
             "musLeave", "afterLeft"} => "RIGHT" \notin used
  /\ pc \in {"plUp", "plDown", "plRight", "plRelease", "musUp", "musDown", "musRight",
             "musLeft"} => "LEFT" \notin used

IInv == TypeOK /\ Pages /\ Closed /\ Fresh

\* TypeOK by groups of variables, and what a step that leaves a group alone keeps.
MenusTyped == /\ selected_playlist \in 0 .. n_playlists - 1
              /\ menu_start_pl_item \in 0 .. n_playlists - 1
              /\ current_playlist \in 0 .. n_playlists - 1
              /\ current_music \in 0 .. size - 1
              /\ menu_start_item \in 0 .. size - 1
              /\ auto \in BOOLEAN

PlayerTyped == loop \in BOOLEAN /\ pause \in BOOLEAN /\ signal \in 0 .. 3

\* The groups make TypeOK.
LEMMA Typed ==
  ASSUME pc' \in Labels, MenusTyped', PlayerTyped', btn' \subseteq Buttons,
         used' \subseteq btn'
  PROVE  TypeOK'
  BY DEF TypeOK, MenusTyped, PlayerTyped

\* A step that does not move in the menus.
LEMMA MenusKept ==
  ASSUME TypeOK, Pages, UNCHANGED <<playlistMenu, musicMenu, auto>>
  PROVE  MenusTyped' /\ Pages'
<1>1. size' = size
  BY DEF size, Size, musicMenu
<1>2. UNCHANGED <<selected_playlist, menu_start_pl_item, current_playlist, current_music,
                  menu_start_item, auto>>
  BY DEF playlistMenu, musicMenu
<1>3. MenusTyped'
  BY <1>1, <1>2 DEF TypeOK, MenusTyped
<1>4. Pages'
  BY <1>2 DEF Pages
<1> QED
  BY <1>3, <1>4

\* A step that is not one of the playback.
LEMMA PlayerKept ==
  ASSUME TypeOK, UNCHANGED player
  PROVE  PlayerTyped'
  BY DEF TypeOK, PlayerTyped, player

\* There is a playlist, and every playlist has a music.
LEMMA SizesOK ==
  /\ n_playlists \in Nat \ {0}
  /\ \A p \in 0 .. n_playlists - 1 : Size(p) \in Nat \ {0}
  BY MenuAssumption DEF n_playlists, Size

\* Both menus start with a first page that holds their first item.
LEMMA PageOfZero == Page(0) = 0
  BY PageHolds

\* The invariant holds when the menus are entered.
LEMMA InitInv == Init => IInv
<1> SUFFICES ASSUME Init
             PROVE  IInv
  OBVIOUS
<1>1. current_playlist = 0 /\ n_playlists \in Nat \ {0} /\ size \in Nat \ {0}
  BY SizesOK DEF Init, size
<1>2. /\ selected_playlist \in 0 .. n_playlists - 1
      /\ menu_start_pl_item \in 0 .. n_playlists - 1
      /\ current_playlist \in 0 .. n_playlists - 1
      /\ current_music \in 0 .. size - 1 /\ menu_start_item \in 0 .. size - 1
      /\ signal \in 0 .. 3
  BY <1>1 DEF Init
<1>3. loop \in BOOLEAN /\ pause \in BOOLEAN /\ auto \in BOOLEAN
  BY DEF Init
<1>4. pc \in Labels /\ btn \subseteq Buttons /\ used \subseteq btn
  BY DEF Init, Labels
<1>5. Pages /\ Closed /\ Fresh
  BY PageOfZero DEF Init, Pages, Closed, Fresh
<1> QED
  BY <1>2, <1>3, <1>4, <1>5 DEF IInv, TypeOK

\* Every step of main, of the playback and of the user keeps it.
LEMMA StepInv == IInv /\ [Next]_vars => IInv'
<1> SUFFICES ASSUME IInv, [Next]_vars
             PROVE  IInv'
  OBVIOUS
<1> USE DEF IInv
<1>0. size \in Nat \ {0} /\ n_playlists \in Nat \ {0}
  BY SizesOK DEF TypeOK, size
<1>1. CASE UNCHANGED vars
  BY <1>1 DEF TypeOK, Pages, Closed, Fresh, vars, playlistMenu, musicMenu, player, user, size,
              Size
<1>2. CASE PlUp
  <2>1. UNCHANGED <<musicMenu, player, user, auto>> /\ pc = "plUp" /\ pc' = "plDown"
    BY <1>2 DEF PlUp
  <2>2. CASE Held("UP")
    <3>1. /\ selected_playlist' = Above(selected_playlist, n_playlists)
          /\ menu_start_pl_item' = StartAbove(selected_playlist', n_playlists, menu_start_pl_item)
      BY <1>2, <2>2 DEF PlUp
    <3>2. /\ selected_playlist' \in 0 .. n_playlists - 1
          /\ menu_start_pl_item' = Page(selected_playlist')
      BY <1>0, <3>1, AboveShown DEF TypeOK, Pages
    <3>3. menu_start_pl_item' \in 0 .. n_playlists - 1
      BY <1>0, <3>2, PageHolds
    <3> QED
      BY <2>1, <3>2, <3>3 DEF TypeOK, Pages, Closed, Fresh, musicMenu, player, user, size, Size, Labels
  <2>3. CASE ~Held("UP")
    BY <1>2, <2>1, <2>3 DEF PlUp, TypeOK, Pages, Closed, Fresh, playlistMenu, musicMenu, player, user,
                       size, Size, Labels
  <2> QED
    BY <2>2, <2>3
<1>3. CASE PlDown
  <2>1. UNCHANGED <<musicMenu, player, user, auto>> /\ pc = "plDown" /\ pc' = "plRight"
    BY <1>3 DEF PlDown
  <2>2. CASE Held("DOWN")
    <3>1. /\ selected_playlist' = Below(selected_playlist, n_playlists)
          /\ menu_start_pl_item' = StartBelow(selected_playlist', menu_start_pl_item)
      BY <1>3, <2>2 DEF PlDown
    <3>2. /\ selected_playlist' \in 0 .. n_playlists - 1
          /\ menu_start_pl_item' = Page(selected_playlist')
      BY <1>0, <3>1, BelowShown DEF TypeOK, Pages
    <3>3. menu_start_pl_item' \in 0 .. n_playlists - 1
      BY <1>0, <3>2, PageHolds
    <3> QED
      BY <2>1, <3>2, <3>3 DEF TypeOK, Pages, Closed, Fresh, musicMenu, player, user, size, Size, Labels
  <2>3. CASE ~Held("DOWN")
    BY <1>3, <2>1, <2>3 DEF PlDown, TypeOK, Pages, Closed, Fresh, playlistMenu, musicMenu, player, user,
                       size, Size, Labels
  <2> QED
    BY <2>2, <2>3
<1>4. CASE MusUp
  <2>1. /\ UNCHANGED <<playlistMenu, current_playlist, player, user>>
        /\ pc = "musUp" /\ pc' = "musDown"
    BY <1>4 DEF MusUp
  <2>2. CASE Held("UP")
    <3>1. /\ current_music' = Above(current_music, size)
          /\ menu_start_item' = StartAbove(current_music', size, menu_start_item)
          /\ auto' = (auto /\ menu_start_item' = menu_start_item)
      BY <1>4, <2>2 DEF MusUp
    <3>2. /\ current_music' \in 0 .. size - 1
          /\ menu_start_item' \in {menu_start_item, Page(current_music')}
          /\ ~auto => menu_start_item' = Page(current_music')
      BY <1>0, <3>1, AboveShown DEF TypeOK, Pages
    <3>3. menu_start_item' \in 0 .. size - 1
      BY <1>0, <3>2, PageHolds DEF TypeOK
    <3>4. auto' \in BOOLEAN /\ (~auto' => menu_start_item' = Page(current_music'))
      BY <3>1, <3>2 DEF TypeOK
    <3> QED
      BY <2>1, <3>2, <3>3, <3>4 DEF TypeOK, Pages, Closed, Fresh, playlistMenu, player, user, size, Size,
                                Labels
  <2>3. CASE ~Held("UP")
    BY <1>4, <2>1, <2>3 DEF MusUp, TypeOK, Pages, Closed, Fresh, playlistMenu, player, user,
                       size, Size, Labels
  <2> QED
    BY <2>2, <2>3
<1>5. CASE MusDown
  <2>1. /\ UNCHANGED <<playlistMenu, current_playlist, player, user>>
        /\ pc = "musDown" /\ pc' = "musRight"
    BY <1>5 DEF MusDown
  <2>2. CASE Held("DOWN")
    <3>1. /\ current_music' = Below(current_music, size)
          /\ menu_start_item' = StartBelow(current_music', menu_start_item)
          /\ auto' = (auto /\ menu_start_item' = menu_start_item)
      BY <1>5, <2>2 DEF MusDown
    <3>2. /\ current_music' \in 0 .. size - 1
          /\ menu_start_item' \in {menu_start_item, Page(current_music')}
          /\ ~auto => menu_start_item' = Page(current_music')
      BY <1>0, <3>1, BelowShown DEF TypeOK, Pages
    <3>3. menu_start_item' \in 0 .. size - 1
      BY <1>0, <3>2, PageHolds DEF TypeOK
    <3>4. auto' \in BOOLEAN /\ (~auto' => menu_start_item' = Page(current_music'))
      BY <3>1, <3>2 DEF TypeOK
    <3> QED
      BY <2>1, <3>2, <3>3, <3>4 DEF TypeOK, Pages, Closed, Fresh, playlistMenu, player, user, size, Size,
                                Labels
  <2>3. CASE ~Held("DOWN")
    BY <1>5, <2>1, <2>3 DEF MusDown, TypeOK, Pages, Closed, Fresh, playlistMenu, player, user,
                       size, Size, Labels
  <2> QED
    BY <2>2, <2>3
<1>6. CASE PlRight
  <2>1. /\ UNCHANGED <<playlistMenu, current_music, menu_start_item, player, auto>>
        /\ pc' \in {"plRelease", "plUp"}
    BY <1>6 DEF PlRight
  <2>2. current_music = 0 /\ menu_start_item = 0
    BY <1>6 DEF PlRight, Closed
  <2>3. current_playlist' \in 0 .. n_playlists - 1
    BY <1>6 DEF PlRight, TypeOK
  <2>4. size' \in Nat \ {0}
    <3>1. Size(current_playlist') \in Nat \ {0}
      BY <2>3, SizesOK
    <3>2. size' = Size(current_playlist')
      BY DEF size, Size
    <3> QED
      BY <3>1, <3>2
  <2>5. current_music' \in 0 .. size' - 1 /\ menu_start_item' \in 0 .. size' - 1
    <3>1. current_music' = 0 /\ menu_start_item' = 0
      BY <2>1, <2>2
    <3>2. \A n \in Nat \ {0} : 0 \in 0 .. n - 1
      OBVIOUS
    <3>3. 0 \in 0 .. size' - 1
      BY <2>4, <3>2
    <3> QED
      BY <3>1, <3>3
  <2>6. MenusTyped' /\ Pages'
    BY <2>1, <2>3, <2>5 DEF playlistMenu, TypeOK, MenusTyped, Pages
  <2>7. pc' \in Labels /\ Closed'
    BY <2>1, <2>2 DEF Labels, Closed
  <2>8. /\ btn' = btn
        /\ used' = used \/ \E b \in btn : used' = used \cup {b}
    BY <1>6 DEF PlRight, Act, Held, user
  <2>9. btn' \subseteq Buttons /\ used' \subseteq btn'
    BY <2>8 DEF TypeOK
  <2>10. Fresh'
    BY <1>6 DEF PlRight, Act, Held, user, Fresh
  <2> QED
    BY <2>1, <2>6, <2>7, <2>9, <2>10, PlayerKept, Typed
<1>7. CASE PlRelease \/ MusLeave
  <2>1. /\ UNCHANGED <<playlistMenu, current_playlist, player, user>>
        /\ current_music' = 0 /\ menu_start_item' = 0 /\ auto' = FALSE
    BY <1>7 DEF PlRelease, MusLeave
  <2>2. size' = size
    BY <2>1 DEF size, Size
  <2>3. current_music' \in 0 .. size' - 1 /\ menu_start_item' \in 0 .. size' - 1
    BY <1>0, <2>1, <2>2
  <2>4. MenusTyped'
    BY <2>1, <2>3 DEF playlistMenu, TypeOK, MenusTyped
  <2>5. Pages'
    BY <2>1, PageOfZero DEF playlistMenu, Pages
  <2>6. pc' \in Labels /\ Closed'
    BY <1>7, <2>1 DEF PlRelease, MusLeave, Labels, Closed
  <2>7. Fresh'
    <3>1. CASE PlRelease
      BY <3>1 DEF PlRelease, Held, user, TypeOK, Fresh
    <3>2. CASE MusLeave
      BY <3>2 DEF MusLeave, Held, user, TypeOK, Fresh
    <3> QED
      BY <1>7, <3>1, <3>2
  <2>8. btn' \subseteq Buttons /\ used' \subseteq btn'
    BY <2>1 DEF user, TypeOK
  <2> QED
    BY <2>1, <2>4, <2>5, <2>6, <2>7, <2>8, PlayerKept, Typed
<1>8. CASE MusRight \/ MusLeft
  <2>1. UNCHANGED <<playlistMenu, musicMenu, player, auto>>
    BY <1>8 DEF MusRight, MusLeft
  <2>2. MenusTyped' /\ Pages'
    BY <2>1, MenusKept
  <2>3. pc' \in Labels /\ used' \subseteq btn' /\ btn' \subseteq Buttons
    <3>1. pc' \in Labels
      BY <1>8 DEF MusRight, MusLeft, Labels
    <3>2. /\ btn' = btn
          /\ used' = used \/ \E b \in btn : used' = used \cup {b}
      BY <1>8 DEF MusRight, MusLeft, Act, Held, user
    <3> QED
      BY <3>1, <3>2 DEF TypeOK
  <2>4. Fresh'
    <3>1. CASE MusRight
      BY <3>1 DEF MusRight, Act, Held, user, Fresh
    <3>2. CASE MusLeft
      BY <3>2 DEF MusLeft, Act, Held, user, Fresh
    <3> QED
      BY <1>8, <3>1, <3>2
  <2>5. Closed'
    BY <1>8 DEF MusRight, MusLeft, Closed
  <2> QED
    BY <2>1, <2>2, <2>3, <2>4, <2>5, PlayerKept, Typed
<1>9. CASE Opened \/ NotOpened \/ ErrorLeft
  <2>1. UNCHANGED <<playlistMenu, musicMenu, user, auto>>
    BY <1>9 DEF Opened, NotOpened, ErrorLeft
  <2>2. MenusTyped' /\ Pages'
    BY <2>1, MenusKept
  <2>3. pc' \in {"playing", "error", "signal"} /\ PlayerTyped'
    <3>1. pc' \in {"playing", "error", "signal"} /\ signal' \in 0 .. 3
      BY <1>9 DEF Opened, NotOpened, ErrorLeft, player, TypeOK
    <3>2. CASE Opened
      <4>1. loop' \in BOOLEAN /\ pause' \in BOOLEAN
        BY <3>2, Zenon DEF Opened
      <4> QED
        BY <3>1, <4>1 DEF PlayerTyped
    <3>3. CASE NotOpened \/ ErrorLeft
      BY <3>1, <3>3 DEF NotOpened, ErrorLeft, player, PlayerTyped, TypeOK
    <3> QED
      BY <1>9, <3>2, <3>3
  <2> QED
    BY <2>1, <2>2, <2>3, Typed DEF user, TypeOK, Labels, Closed, Fresh
<1>10. ASSUME NEW b \in {"LEFT", "DOWN", "UP"}, Stop(b)
       PROVE  IInv'
  <2>1. SignalOf[b] \in 0 .. 3
    BY DEF SignalOf
  <2>2. UNCHANGED <<pc, playlistMenu, musicMenu, auto>> /\ pc = "playing"
    BY <1>10 DEF Stop
  <2>3. MenusTyped' /\ Pages'
    BY <2>2, MenusKept
  <2>4. PlayerTyped'
    BY <1>10, <2>1 DEF Stop, PlayerTyped
  <2>5. used' \subseteq btn' /\ btn' \subseteq Buttons
    BY <1>10 DEF Stop, Act, user, TypeOK
  <2> QED
    BY <2>2, <2>3, <2>4, <2>5, Typed DEF Labels, Closed, Fresh
<1>11. CASE TogglePause \/ PauseRelease
  <2>1. UNCHANGED <<playlistMenu, musicMenu, auto, loop, signal>>
    BY <1>11 DEF TogglePause, PauseRelease, player
  <2>2. MenusTyped' /\ Pages'
    BY <2>1, MenusKept
  <2>3. pc' \in {"pauseRelease", "playing"}
    BY <1>11 DEF TogglePause, PauseRelease
  <2>4. pause' \in BOOLEAN
    BY <1>11 DEF TogglePause, PauseRelease, player, TypeOK
  <2>5. PlayerTyped'
    BY <2>1, <2>4 DEF PlayerTyped, TypeOK
  <2>6. used' \subseteq btn' /\ btn' \subseteq Buttons
    BY <1>11 DEF TogglePause, PauseRelease, Act, user, TypeOK
  <2> QED
    BY <2>1, <2>2, <2>3, <2>5, <2>6, Typed DEF Labels, Closed, Fresh
<1>12. CASE Return \/ Stopped
  <2>1. UNCHANGED <<playlistMenu, musicMenu, player, user, auto>>
    BY <1>12 DEF Return, Stopped
  <2>2. MenusTyped' /\ Pages'
    BY <2>1, MenusKept
  <2>3. pc' \in {"signal", "afterRight"}
    BY <1>12 DEF Return, Stopped
  <2> QED
    BY <2>1, <2>2, <2>3, PlayerKept, Typed DEF user, TypeOK, Labels, Closed, Fresh
<1>13. CASE Following
  <2>1. UNCHANGED <<playlistMenu, current_playlist, player, user>>
    BY <1>13 DEF Following
  <2>2. current_music \in 0 .. size - 1 /\ menu_start_item \in 0 .. size - 1
    BY DEF TypeOK
  <2>3. \/ /\ current_music' = 0 /\ menu_start_item' = 0 /\ auto' = FALSE
           /\ pc' = "afterRight"
        \/ /\ current_music' = current_music + 1 /\ menu_start_item' = menu_start_item
           /\ current_music # size - 1 /\ auto' = TRUE /\ pc' = "opening"
    BY <1>13 DEF Following
  <2>4. /\ current_music' \in 0 .. size - 1 /\ menu_start_item' \in 0 .. size - 1
        /\ auto' \in BOOLEAN /\ pc' \in {"afterRight", "opening"}
    <3>1. current_music' \in 0 .. size - 1 /\ menu_start_item' \in 0 .. size - 1
      BY <1>0, <2>2, <2>3
    <3>2. auto' \in BOOLEAN
      BY <2>3, Zenon
    <3>3. pc' \in {"afterRight", "opening"}
      BY <2>3
    <3> QED
      BY <3>1, <3>2, <3>3
  <2>5. ~auto' => menu_start_item' = Page(current_music')
    BY <2>3, PageOfZero
  <2>6. MenusTyped' /\ Pages'
    BY <2>1, <2>4, <2>5 DEF playlistMenu, MenusTyped, Pages, TypeOK, size, Size
  <2> QED
    BY <2>1, <2>4, <2>6, PlayerKept, Typed DEF user, TypeOK, Labels, Closed, Fresh
<1>14. CASE Skip
  <2>1. current_music' \in 0 .. size - 1
    BY <1>0, <1>14 DEF Skip, Below, Above, TypeOK
  <2>2. menu_start_item' = Page(current_music') /\ menu_start_item' \in 0 .. size - 1
    BY <1>0, <1>14, <2>1, PageHolds DEF Skip
  <2> QED
    BY <1>14, <2>1, <2>2 DEF Skip, TypeOK, Pages, Closed, Fresh, playlistMenu, player, user, size, Size,
                    Labels
<1>15. CASE AfterRight \/ AfterLeft
  BY <1>15 DEF AfterRight, AfterLeft, Held, TypeOK, Pages, Closed, Fresh, playlistMenu, musicMenu,
               player, user, size, Size, Labels
<1>16. CASE User
  <2>1. PICK b \in Buttons : Press(b) \/ Release(b)
    BY <1>16 DEF User
  <2>2. used' \subseteq btn' /\ btn' \subseteq Buttons /\ used' \subseteq used
    BY <2>1 DEF Press, Release, TypeOK
  <2>3. UNCHANGED <<pc, playlistMenu, musicMenu, player, auto>>
    BY <2>1 DEF Press, Release
  <2> QED
    BY <2>2, <2>3 DEF TypeOK, Pages, Closed, Fresh, playlistMenu, musicMenu, player, size, Size
<1> QED
  BY <1>1, <1>2, <1>3, <1>4, <1>5, <1>6, <1>7, <1>8, <1>9, <1>10, <1>11, <1>12, <1>13, <1>14,
     <1>15, <1>16 DEF Next, Menus, Playing, Signals

---------------------------------------------------------------------------
\* The selected playlist and music always exist, whatever the wraps, the skips and
\* the change of playlist (step9_cabillot.c:139-165, 192-233).
THEOREM TypeCorrect == Spec => []TypeOK
<1>1. IInv => TypeOK
  BY DEF IInv
<1> QED
  BY <1>1, InitInv, StepInv, PTL DEF Spec

\* The selected item is always on the screen, for any number of lines and of items,
\* unless the music was reached because the one before had ended.
THEOREM SelectionOnScreen == Spec => []SelectionShown
<1>1. IInv => SelectionShown
  <2> SUFFICES ASSUME IInv
               PROVE  SelectionShown
    OBVIOUS
  <2>1. selected_playlist \in Nat /\ current_music \in Nat
    BY SizesOK DEF IInv, TypeOK, size
  <2> QED
    BY <2>1, PageHolds DEF IInv, Pages, SelectionShown, Shown
<1> QED
  BY <1>1, InitInv, StepInv, PTL DEF Spec

\* One press of BTN_RIGHT or BTN_LEFT does one thing in the menus, whenever the buttons
\* are pressed and released between two reads of their level.
THEOREM OnePressOneAction == Spec => MenusDebounced
<1>1. ASSUME IInv, [Next]_vars
      PROVE  [/\ (pc = "plRight" /\ pc' = "plRelease") => "RIGHT" \notin used
              /\ (pc = "musRight" /\ pc' = "opening") => "RIGHT" \notin used
              /\ (pc = "musLeft" /\ pc' = "musLeave") => "LEFT" \notin used]_vars
  BY <1>1 DEF IInv, Fresh
<1> QED
  BY <1>1, InitInv, StepInv, PTL DEF Spec, MenusDebounced
===========================================================================
