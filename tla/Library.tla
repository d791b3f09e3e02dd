------------------------------- MODULE Library -------------------------------
(***************************************************************************)
(* How the player finds its musics, their images and the playlists on the  *)
(* SD card when it starts (firmware/music.c and the start of main).  Names *)
(* are sequences of characters; what follows the first dot of a file name  *)
(* is left out.  The directories and files come from a FAT library that is *)
(* not in the repository: reading a directory gives its files one by one,  *)
(* reading a file gives its characters one by one, and opening may fail.   *)
(* A write out of an array is recorded and nothing is said of what follows *)
(* it.                                                                     *)
(***************************************************************************)
EXTENDS Integers, SequencesExt, FiniteSetsExt

CONSTANTS Chars,       \* the characters of names
          NameLen,     \* MAX_MUSIC_NAME_LENGTH
          MaxMusics,   \* MAX_MUSICS
          MaxFiles,    \* MAX_FILES
          BugLen,      \* PL_NAME_SIZE_THAT_CREATES_A_BUG
          Cards,       \* what the SD card may hold
          MayFail      \* what may fail to open: "musics", "images", "playlists", "playlist"

NL  == "newline"
NUL == "NUL"
Unset == "unset"

\* -1 returned in a char, which is unsigned on RISC-V.
Failed == 255

ASSUME LibraryAssumption ==
  /\ Chars \cap {NL, NUL, Unset} = {}
  /\ {NameLen, MaxMusics, MaxFiles} \subseteq Nat /\ NameLen > 0
  /\ MaxMusics < Failed /\ MaxFiles < Failed     \* they are counted in a char

VARIABLES card,       \* [musics, images : Seq(name), playlists : Seq([name, text])]
          phase,      \* what main is doing
          dir,        \* files already given by fl_readdir
          pos,        \* characters already given by fl_fread
          musics,     \* the musics found: [name, has_img]
          n_musics,   \* what list_music returned
          img_names,  \* the cells of img_names, row after row
          buffer,     \* the cells of buffer
          cursor,
          playlists,  \* the playlists found: [name, musics]
          n_playlists, \* how many of them the menu takes
          open,       \* the playlist being read: [name, musics]
          stray,      \* a write went out of an array
          failed,     \* the directories that have failed to open
          unopened    \* the playlists of the card that have failed to open

disk == <<card, dir, pos>>
lists == <<playlists, n_playlists, unopened>>
vars == <<card, phase, dir, pos, musics, n_musics, img_names, buffer, cursor,
          playlists, n_playlists, open, stray, failed, unopened>>

Init ==
  /\ card \in Cards
  /\ phase = "open musics" /\ dir = 0 /\ pos = 0
  /\ musics = <<>> /\ n_musics = 0
  /\ img_names = [c \in 0 .. MaxMusics * NameLen - 1 |-> Unset]
  /\ buffer = [c \in 0 .. NameLen - 1 |-> Unset] /\ cursor = 0
  /\ playlists = <<>> /\ n_playlists = 0 /\ unopened = {} /\ open = [name |-> <<>>, musics |-> <<>>]
  /\ stray = FALSE /\ failed = {}

At(p) == phase = p /\ ~stray

Fails(what) == what \in MayFail /\ failed' = failed \cup {what}

\* The part of a file name that makes a name.
Named(file) == SubSeq(file, 1, Min({Len(file), NameLen}))

OpenMusics ==
  /\ At("open musics")
  /\ \/ phase' = "list musics" /\ UNCHANGED <<n_musics, failed>>
     \/ Fails("musics") /\ phase' = "open images" /\ n_musics' = Failed
  /\ UNCHANGED <<disk, musics, img_names, buffer, cursor, lists, open, stray>>

\* One file of the loop of list_music.
ListMusic ==
  /\ At("list musics") /\ dir < Len(card.musics)
  /\ dir' = dir + 1
  /\ musics' = Append(musics, [name |-> Named(card.musics[dir']), has_img |-> FALSE])
  /\ stray' = (Len(musics') > MaxMusics)
  /\ UNCHANGED <<card, pos, phase, n_musics, img_names, buffer, cursor, lists, open, failed>>

MusicsListed ==
  /\ At("list musics") /\ dir = Len(card.musics)
  /\ phase' = "open images" /\ n_musics' = Len(musics) /\ dir' = 0
  /\ UNCHANGED <<card, pos, musics, img_names, buffer, cursor, lists, open, stray, failed>>

OpenImages ==
  /\ At("open images")
  /\ \/ phase' = "list images" /\ UNCHANGED failed
     \/ Fails("images") /\ phase' = "all musics"
  /\ UNCHANGED <<disk, musics, n_musics, img_names, buffer, cursor, lists, open, stray>>

\* Where row j of img_names begins.
Row(j) == j * NameLen

\* One file of the first loop of check_image.
ListImage ==
  LET name == Named(card.images[dir + 1])
      Cell(c) == Row(dir) <= c /\ c < Row(dir) + Len(name)
  IN
  /\ At("list images") /\ dir < Len(card.images)
  /\ dir' = dir + 1
  /\ img_names' = [c \in DOMAIN img_names |->
       IF Cell(c) THEN name[c - Row(dir) + 1]
       ELSE IF c = Row(dir) + Len(name) THEN NUL ELSE img_names[c]]
  /\ stray' = (Row(dir) + Len(name) \notin DOMAIN img_names)
  /\ UNCHANGED <<card, pos, phase, musics, n_musics, buffer, cursor, lists, open, failed>>

\* mutant: the prefix of a name is taken for the name.
strequPrefix(name, cells, at) ==
  \A k \in 1 .. Len(name) : at + k - 1 \in DOMAIN cells /\ cells[at + k - 1] = name[k]

\* strequ: the characters from a cell on, to the first NUL, are the name.
strequ(name, cells, at) ==
  LET C(k) == IF at + k - 1 \in DOMAIN cells THEN cells[at + k - 1] ELSE Unset IN
  C(Len(name) + 1) = NUL /\ \A k \in 1 .. Len(name) : C(k) = name[k]

\* The last loops of check_image, then the first playlist: all the musics found.
CheckImages ==
  /\ At("list images") /\ dir = Len(card.images)
  /\ musics' = [m \in DOMAIN musics |->
       [musics[m] EXCEPT !.has_img = \E j \in 0 .. dir - 1 : strequ(musics[m].name, img_names, Row(j))]]
  /\ phase' = "all musics"
  /\ UNCHANGED <<disk, n_musics, img_names, buffer, cursor, lists, open, stray, failed>>

AllMusics ==
  /\ At("all musics")
  /\ playlists' = <<[name |-> <<"All musics", NUL>>, musics |-> [m \in 1 .. n_musics |-> m]]>>
  /\ stray' = (n_musics > MaxMusics)
  /\ phase' = IF n_musics = 0 THEN "No music found"
              ELSE IF n_musics = -1 THEN "SD card error" ELSE "open playlists"
  /\ dir' = 0
  /\ UNCHANGED <<card, pos, musics, n_musics, img_names, buffer, cursor, n_playlists, unopened, open, failed>>

\* When the directory does not open, -1 is not below zero either: the menu takes one
\* playlist more than Failed.
OpenPlaylists ==
  /\ At("open playlists")
  /\ \/ phase' = "list playlists" /\ UNCHANGED <<n_playlists, failed>>
     \/ Fails("playlists") /\ phase' = "menu" /\ n_playlists' = Failed + 1
  /\ UNCHANGED <<disk, musics, n_musics, img_names, buffer, cursor, playlists, unopened, open, stray>>

\* The cells of the name of a playlist that strncpy writes: it ends a name of NameLen
\* characters or more with none.
Copied(name) == IF Len(name) < NameLen THEN Append(name, NUL) ELSE SubSeq(name, 1, NameLen)

\* The start of create_playlist for one file of the loop of list_playlist.  When
\* the file does not open, -1 is not below zero: the playlist is kept as it is.
CreatePlaylist ==
  LET file == card.playlists[dir + 1]
      new  == [name |-> Copied(file.name), musics |-> <<>>]
  IN
  /\ At("list playlists") /\ dir < Len(card.playlists)
  /\ dir' = dir + 1
  /\ \/ /\ Len(file.name) = BugLen
        /\ UNCHANGED <<phase, open, pos, cursor, playlists, unopened>>
     \/ /\ Len(file.name) # BugLen /\ "playlist" \in MayFail
        /\ playlists' = Append(playlists, new) /\ unopened' = unopened \cup {dir'}
        /\ UNCHANGED <<phase, open, pos, cursor>>
     \/ /\ Len(file.name) # BugLen
        /\ phase' = "read playlist" /\ open' = new /\ pos' = 0 /\ cursor' = 0
        /\ UNCHANGED <<playlists, unopened>>
  /\ stray' = (Len(file.name) # BugLen /\ Len(playlists) = MaxFiles)
  /\ UNCHANGED <<card, musics, n_musics, img_names, buffer, n_playlists, failed>>

\* mutant: the position in the line is not reset.
AfterLineNext(c, char) == c + 1

AfterLine(c, char) == IF char = NL THEN 0 ELSE c + 1

\* The musics of the name that a line holds.
Found(cells) == {m \in DOMAIN musics : strequ(musics[m].name, cells, 0)}

InOrder(S) == SetToSortSeq(S, <)

\* mutant: only the first music of that name.
AddedFirst(cells) == IF Found(cells) = {} THEN <<>> ELSE <<Min(Found(cells))>>

\* The musics that a line adds: all those of that name.
Added(cells) == InOrder(Found(cells))

\* One character of the loop of create_playlist.
ReadChar ==
  LET text == card.playlists[dir].text
      char == text[pos + 1]
      read == [buffer EXCEPT ![cursor] = IF char = NL THEN NUL ELSE char]
  IN
  /\ At("read playlist") /\ pos < Len(text)
  /\ pos' = pos + 1
  /\ IF cursor \notin DOMAIN buffer
     THEN stray' = TRUE /\ UNCHANGED <<buffer, cursor, open>>
     ELSE /\ buffer' = read
          /\ cursor' = AfterLine(cursor, char)
          /\ open' = [open EXCEPT !.musics = @ \o IF char = NL THEN Added(read) ELSE <<>>]
          /\ stray' = (Len(open'.musics) > MaxMusics)
  /\ UNCHANGED <<card, dir, phase, musics, n_musics, img_names, lists, failed>>

\* mutant: empty playlists are kept.
KeepsAll(list) == TRUE

Keeps(list) == list.musics # <<>>

PlaylistRead ==
  /\ At("read playlist") /\ pos = Len(card.playlists[dir].text)
  /\ playlists' = IF Keeps(open) THEN Append(playlists, open) ELSE playlists
  /\ phase' = "list playlists"
  /\ UNCHANGED <<disk, musics, n_musics, img_names, buffer, cursor, n_playlists, unopened, open, stray,
                 failed>>

PlaylistsListed ==
  /\ At("list playlists") /\ dir = Len(card.playlists)
  /\ phase' = "menu" /\ n_playlists' = Len(playlists)
  /\ UNCHANGED <<disk, musics, n_musics, img_names, buffer, cursor, playlists, unopened, open, stray, failed>>

\* The menus, the end of main, or a write that went out of an array.
Over == (phase \in {"menu", "No music found", "SD card error"} \/ stray) /\ UNCHANGED vars

Next ==
  \/ OpenMusics    \/ ListMusic      \/ MusicsListed
  \/ OpenImages    \/ ListImage      \/ CheckImages  \/ AllMusics
  \/ OpenPlaylists \/ CreatePlaylist \/ ReadChar
  \/ PlaylistRead  \/ PlaylistsListed
  \/ Over

Spec == Init /\ [][Next]_vars
-----------------------------------------------------------------------------
TypeOK ==
  /\ dir \in Nat /\ pos \in Nat /\ cursor \in 0 .. NameLen
  /\ n_musics \in 0 .. 255
  /\ \A m \in DOMAIN musics : Len(musics[m].name) <= NameLen
  /\ Len(musics) <= MaxMusics + 1 /\ Len(playlists) <= MaxFiles
  /\ n_playlists \in 0 .. Failed + 1
  /\ \A p \in DOMAIN playlists : Len(playlists[p].name) <= NameLen + 1

\* The last newline among the first k characters.
LastEnd(text, k) == Max({j \in 1 .. k : text[j] = NL} \cup {0})

\* What may be written out of an array on a card whose names have the lengths that the
\* README allows: 255 musics when they cannot be read (see ErrorShown), the newline of a line
\* of MAX_MUSIC_NAME_LENGTH characters (music.c:99, 114), the terminator of such a name in the
\* last row of img_names (music.c:41, 47).  Nothing else is.
NoStray ==
  stray => \/ "musics" \in failed
           \/ LET text == card.playlists[dir].text IN
              phase = "read playlist" /\ text[pos] = NL /\ pos - 1 - LastEnd(text, pos - 1) = NameLen
           \/ phase = "list images" /\ dir = MaxMusics /\ Len(Named(card.images[dir])) = NameLen

\* The terminator of row j of img_names is still there when the images are looked for: that of
\* a name of MAX_MUSIC_NAME_LENGTH characters is the first cell of the next name.
Ended(j) ==
  \/ Len(Named(card.images[j])) < NameLen
  \/ j = Len(card.images)
  \/ Named(card.images[j + 1]) = <<>>

\* A music has an image when there is an image file of its name (README.md:75), with its
\* terminator.
ImagesFound ==
  phase = "menu" /\ ~stray /\ "images" \notin failed =>
    \A m \in DOMAIN musics :
      musics[m].has_img <=>
        \E j \in DOMAIN card.images : Named(card.images[j]) = musics[m].name /\ Ended(j)

\* The sequences of x one behind the other, up to each of them.
Joined(x) == LET upTo[k \in 0 .. Len(x)] == IF k = 0 THEN <<>> ELSE upTo[k - 1] \o x[k]
             IN  upTo

\* The musics of the name that ends before the character k.
Line(c, text, k) ==
  InOrder({m \in DOMAIN c.musics :
             Named(c.musics[m]) = SubSeq(text, LastEnd(text, k - 1) + 1, k - 1)})

\* The musics that a text names up to each of its characters.
Listed(c, text) == Joined([k \in 1 .. Len(text) |-> IF text[k] = NL THEN Line(c, text, k) ELSE <<>>])

\* What the player should make of file p: nothing of a name whose length is ignored nor of
\* a file that names no music, a list without musics of a file that did not open.
Offered(c, lost, p) ==
  LET file == c.playlists[p]
      heard == IF p \in lost THEN <<>> ELSE Listed(c, file.text)[Len(file.text)]
  IN  IF Len(file.name) = BugLen \/ (p \notin lost /\ heard = <<>>) THEN <<>>
      ELSE <<[name |-> Copied(file.name), musics |-> heard]>>

\* The playlists of the first files of the card, in order.
Expected(c, lost) == Joined([p \in 1 .. Len(c.playlists) |-> Offered(c, lost, p)])

\* The menu offers all the musics, and then every playlist with the musics that its
\* file names, in their order, as often as they are named (README.md:79-82), or
\* nothing else if the playlists could not be read.
PlaylistsComplete ==
  phase = "menu" /\ ~stray =>
    Tail(playlists) = IF "playlists" \in failed THEN <<>>
                      ELSE Expected(card, unopened)[Len(card.playlists)]

\* What the menus take (MenuAssumption of PlayerMenu): as many playlists as were made, or
\* Failed + 1 if they could not be read (step9_cabillot.c:87), with at least one music in each
\* of them unless its file did not open (music.c:97, 131).
MenuReady ==
  phase = "menu" /\ ~stray =>
    /\ n_playlists = IF "playlists" \in failed THEN Failed + 1 ELSE Len(playlists)
    /\ \A p \in DOMAIN playlists :
         playlists[p].musics = <<>> =>
           \E q \in unopened : playlists[p].name = Copied(card.playlists[q].name)

\* A card whose names have the lengths that README.md:69 allows, in playlists too, and with as
\* many files and musics in a playlist as the arrays have (music.h:10; no document states it).
Fitting(c) ==
  /\ c.musics \in Seq(Seq(Chars)) /\ Len(c.musics) <= MaxMusics
  /\ c.images \in Seq(Seq(Chars)) /\ Len(c.images) <= MaxMusics
  /\ c.playlists \in Seq([name : Seq(Chars), text : Seq(Chars \cup {NL})])
  /\ Len(c.playlists) < MaxFiles
  /\ \A p \in DOMAIN c.playlists :
       LET text == c.playlists[p].text IN
       /\ \A k \in 1 .. Len(text) - NameLen : \E j \in k .. k + NameLen : text[j] = NL
       /\ \A k \in 0 .. Len(text) : Len(Listed(c, text)[k]) <= MaxMusics

(***************************************************************************)
(* What a document, a comment or a test of the code says and the code does *)
(* not do.                                                                 *)
(***************************************************************************)

\* A name has less than 26 characters (README.md:69, 83): no array is left.
NothingStray == ~stray

\* The image of a music is the image file of its name (README.md:75).
ImagesShown ==
  phase = "menu" /\ "images" \notin failed =>
    \A m \in DOMAIN musics :
      musics[m].has_img <=> \E j \in DOMAIN card.images : Named(card.images[j]) = musics[m].name

\* Names are separated by a newline (README.md:79), not ended by one.
PlaylistsSeparated ==
  LET ended(text) == IF text = <<>> \/ text[Len(text)] = NL THEN text ELSE Append(text, NL)
      c == [card EXCEPT !.playlists =
              [p \in DOMAIN @ |-> [name |-> @[p].name, text |-> ended(@[p].text)]]]
  IN  phase = "menu" /\ ~stray => Tail(playlists) = Expected(c, unopened)[Len(c.playlists)]

\* A name has less than 26 characters (README.md:83) and is printed up to its end.
NamesEnded == \A p \in DOMAIN playlists : NUL \in Range(playlists[p].name)

\* A playlist has at most MAX_MUSICS musics (step9_cabillot.c:128).
PlaylistFits == Len(open.musics) <= MaxMusics

\* Empty playlists are ignored (music.c:133).
NoneEmpty == \A p \in DOMAIN playlists : playlists[p].musics # <<>>

\* When the musics cannot be read the player says so (step9_cabillot.c:82-85).
ErrorShown == n_musics = Failed => phase \in {"open images", "list images", "all musics", "SD card error"}

\* When the playlists cannot be read the player says so (step9_cabillot.c:88-90): the menu
\* never takes playlists that were not made.
OnlyMade == phase = "menu" => n_playlists = Len(playlists)
=============================================================================
