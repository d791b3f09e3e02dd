---------------------------- MODULE PlayerMenu ----------------------------
(***************************************************************************)
(* The two menus of the player: the endless loop of main in                *)
(* step9_cabillot.c, after the playlists have been read.                   *)
(*                                                                         *)
(* Every if and while that reads *BUTTONS is a step of its own, so that a  *)
(* button may be pressed or released between any two of them.  play_music  *)
(* is reduced to what it does with the buttons and to the signal it        *)
(* returns (StreamPlayer has the rest): play_music_callback is called any  *)
(* number of times, then the function returns.                             *)
(***************************************************************************)
EXTENDS Integers, Sequences

CONSTANTS MAX_LISTED_ITEMS,  \* lines of a menu on the screen (12)
          Sizes              \* the sizes of the playlists, "All musics" first

ASSUME MenuAssumption == /\ MAX_LISTED_ITEMS \in Nat \ {0}
                         /\ Sizes \in Seq(Nat \ {0})
                         /\ Sizes # <<>>

\* n_playlists, and playlists[p].size
n_playlists == Len(Sizes)
Size(p) == Sizes[p + 1]

Buttons == {"UP", "DOWN", "LEFT", "RIGHT"}

VARIABLES pc,
          selected_playlist, menu_start_pl_item,
          current_playlist, current_music, menu_start_item,
          loop, pause, signal,  \* the locals of read_audio_file
          btn,                  \* the buttons held by the user
          used,                 \* history: those whose press was acted upon
          auto                  \* history: a music followed another one since
                                \* menu_start_item last changed

playlistMenu == <<selected_playlist, menu_start_pl_item>>
musicMenu == <<current_playlist, current_music, menu_start_item>>
player == <<loop, pause, signal>>
user == <<btn, used>>
vars == <<pc, playlistMenu, musicMenu, player, user, auto>>

Init == /\ pc = "plUp"
        /\ selected_playlist = 0 /\ menu_start_pl_item = 0
        /\ current_playlist = 0 /\ current_music = 0 /\ menu_start_item = 0
        /\ loop = FALSE /\ pause = FALSE /\ signal = 0
        /\ btn = {} /\ used = {} /\ auto = FALSE

Held(b) == b \in btn
Act(b) == used' = used \cup {b} /\ UNCHANGED btn

---------------------------------------------------------------------------
(* The user.                                                               *)

Press(b) == /\ ~Held(b)
            /\ btn' = btn \cup {b}
            /\ UNCHANGED <<pc, playlistMenu, musicMenu, player, used, auto>>

Release(b) == /\ Held(b)
              /\ btn' = btn \ {b} /\ used' = used \ {b}
              /\ UNCHANGED <<pc, playlistMenu, musicMenu, player, auto>>

---------------------------------------------------------------------------
(* Moves in a list of n items shown from line start.                    *)

\* (Mutant of Above: the wrap forgotten.)
AboveNoWrap(item, n) == item - 1

Above(item, n) == (IF item = 0 THEN n ELSE item) - 1
Below(item, n) == IF item = n - 1 THEN 0 ELSE item + 1

\* After BTN_UP: the first line of the menu, given the item now selected.
\* (Mutant: the page left when its first item is reached.)
StartAboveFirst(item, n, start) ==
  IF item % MAX_LISTED_ITEMS = 0 THEN item
  ELSE IF item = n - 1 THEN n - (n % MAX_LISTED_ITEMS)
  ELSE start

StartAbove(item, n, start) ==
  IF (item + 1) % MAX_LISTED_ITEMS = 0 THEN item - MAX_LISTED_ITEMS + 1
  ELSE IF item = n - 1 THEN n - (n % MAX_LISTED_ITEMS)
  ELSE start

\* After BTN_DOWN.
StartBelow(item, start) == IF item % MAX_LISTED_ITEMS = 0 THEN item ELSE start

\* After BTN_UP or BTN_DOWN during a music.
Page(item) == MAX_LISTED_ITEMS * (item \div MAX_LISTED_ITEMS)

---------------------------------------------------------------------------
(* The menu of the playlists.                                              *)

PlUp ==
  /\ pc = "plUp" /\ pc' = "plDown"
  /\ IF Held("UP")
     THEN LET item == Above(selected_playlist, n_playlists) IN
          /\ selected_playlist' = item
          /\ menu_start_pl_item' = StartAbove(item, n_playlists, menu_start_pl_item)
     ELSE UNCHANGED playlistMenu
  /\ UNCHANGED <<musicMenu, player, user, auto>>

PlDown ==
  /\ pc = "plDown" /\ pc' = "plRight"
  /\ IF Held("DOWN")
     THEN LET item == Below(selected_playlist, n_playlists) IN
          /\ selected_playlist' = item
          /\ menu_start_pl_item' = StartBelow(item, menu_start_pl_item)
     ELSE UNCHANGED playlistMenu
  /\ UNCHANGED <<musicMenu, player, user, auto>>

PlRight ==
  /\ pc = "plRight"
  /\ IF Held("RIGHT")
     THEN /\ current_playlist' = selected_playlist
          /\ pc' = "plRelease" /\ Act("RIGHT")
     ELSE pc' = "plUp" /\ UNCHANGED <<current_playlist, user>>
  /\ UNCHANGED <<playlistMenu, current_music, menu_start_item, player, auto>>

\* while(*BUTTONS & BTN_RIGHT), then the locals of the music menu.
\* (Mutant: no wait for the release.)
PlNoRelease ==
  /\ pc = "plRelease"
  /\ current_music' = 0 /\ menu_start_item' = 0 /\ auto' = FALSE
  /\ pc' = "musUp"
  /\ UNCHANGED <<playlistMenu, current_playlist, player, user>>

PlRelease ==
  /\ pc = "plRelease" /\ ~Held("RIGHT")
  /\ current_music' = 0 /\ menu_start_item' = 0 /\ auto' = FALSE
  /\ pc' = "musUp"
  /\ UNCHANGED <<playlistMenu, current_playlist, player, user>>

---------------------------------------------------------------------------
(* The menu of the musics of the current playlist.                         *)

size == Size(current_playlist)

MusUp ==
  /\ pc = "musUp" /\ pc' = "musDown"
  /\ IF Held("UP")
     THEN LET item == Above(current_music, size) IN
          /\ current_music' = item
          /\ menu_start_item' = StartAbove(item, size, menu_start_item)
          /\ auto' = (auto /\ menu_start_item' = menu_start_item)
     ELSE UNCHANGED <<current_music, menu_start_item, auto>>
  /\ UNCHANGED <<playlistMenu, current_playlist, player, user>>

MusDown ==
  /\ pc = "musDown" /\ pc' = "musRight"
  /\ IF Held("DOWN")
     THEN LET item == Below(current_music, size) IN
          /\ current_music' = item
          /\ menu_start_item' = StartBelow(item, menu_start_item)
          /\ auto' = (auto /\ menu_start_item' = menu_start_item)
     ELSE UNCHANGED <<current_music, menu_start_item, auto>>
  /\ UNCHANGED <<playlistMenu, current_playlist, player, user>>

MusRight ==
  /\ pc = "musRight"
  /\ IF Held("RIGHT") THEN pc' = "opening" /\ Act("RIGHT")
                      ELSE pc' = "musLeft" /\ UNCHANGED user
  /\ UNCHANGED <<playlistMenu, musicMenu, player, auto>>

MusLeft ==
  /\ pc = "musLeft"
  /\ IF Held("LEFT") THEN pc' = "musLeave" /\ Act("LEFT")
                     ELSE pc' = "musUp" /\ UNCHANGED user
  /\ UNCHANGED <<playlistMenu, musicMenu, player, auto>>

\* while(*BUTTONS & BTN_LEFT), and the end of the scope of the locals.
MusLeave ==
  /\ pc = "musLeave" /\ ~Held("LEFT")
  /\ current_music' = 0 /\ menu_start_item' = 0 /\ auto' = FALSE
  /\ pc' = "plUp"
  /\ UNCHANGED <<playlistMenu, current_playlist, player, user>>

---------------------------------------------------------------------------
(* play_music(current_playlist->musics[current_music], play_music_callback) *)

Opened == /\ pc = "opening"
          /\ loop' = TRUE /\ pause' = FALSE /\ signal' = 1
          /\ pc' = "playing"
          /\ UNCHANGED <<playlistMenu, musicMenu, user, auto>>

\* The file is not found, and the message says so ...
NotOpened == /\ pc = "opening"
             /\ pc' = "error"
             /\ UNCHANGED <<playlistMenu, musicMenu, player, user, auto>>

\* ... until BTN_ZERO is pressed and released, which no other loop looks at (it is
\* not one of Buttons): read_audio_file returns 0.
ErrorLeft == /\ pc = "error"
             /\ signal' = 0
             /\ pc' = "signal"
             /\ UNCHANGED <<playlistMenu, musicMenu, loop, pause, user, auto>>

SignalOf == [b \in {"LEFT", "DOWN", "UP"} |-> CASE b = "LEFT" -> 0
                                                [] b = "DOWN" -> 2
                                                [] b = "UP" -> 3]

\* The callback sees one of BTN_LEFT, BTN_DOWN, BTN_UP alone.
Stop(b) == /\ pc = "playing" /\ btn = {b}
           /\ loop' = FALSE /\ pause' = FALSE /\ signal' = SignalOf[b]
           /\ IF loop THEN Act(b) ELSE UNCHANGED user
           /\ UNCHANGED <<pc, playlistMenu, musicMenu, auto>>

\* The callback sees BTN_RIGHT alone, and waits for its release.
TogglePause == /\ pc = "playing" /\ btn = {"RIGHT"}
               /\ pause' = ~pause
               /\ pc' = "pauseRelease" /\ Act("RIGHT")
               /\ UNCHANGED <<playlistMenu, musicMenu, loop, signal, auto>>

PauseRelease == /\ pc = "pauseRelease" /\ ~Held("RIGHT")
                /\ pc' = "playing"
                /\ UNCHANGED <<playlistMenu, musicMenu, player, user, auto>>

\* The end of the file, or the swap after a stop; never while paused.
Return == /\ pc = "playing" /\ ~pause
          /\ pc' = "signal"
          /\ UNCHANGED <<playlistMenu, musicMenu, player, user, auto>>

---------------------------------------------------------------------------
(* while(signal): what to play next.                                       *)

\* (Mutant: the playlist played in circles.)
FollowingInCircles ==
  /\ pc = "signal" /\ signal = 1
  /\ current_music' = Below(current_music, size)
  /\ auto' = TRUE /\ pc' = "opening"
  /\ UNCHANGED <<playlistMenu, current_playlist, menu_start_item, player, user>>

Following ==
  /\ pc = "signal" /\ signal = 1
  /\ IF current_music = size - 1
     THEN current_music' = 0 /\ menu_start_item' = 0 /\ auto' = FALSE /\ pc' = "afterRight"
     ELSE /\ current_music' = current_music + 1
          /\ auto' = TRUE /\ pc' = "opening"
          /\ UNCHANGED menu_start_item
  /\ UNCHANGED <<playlistMenu, current_playlist, player, user>>

Skip ==
  /\ pc = "signal" /\ signal \in {2, 3}
  /\ current_music' = IF signal = 2 THEN Below(current_music, size)
                                    ELSE Above(current_music, size)
  /\ menu_start_item' = Page(current_music') /\ auto' = FALSE
  /\ pc' = "opening"
  /\ UNCHANGED <<playlistMenu, current_playlist, player, user>>

Stopped ==
  /\ pc = "signal" /\ signal = 0
  /\ pc' = "afterRight"
  /\ UNCHANGED <<playlistMenu, musicMenu, player, user, auto>>

\* while(*BUTTONS & BTN_RIGHT); while(*BUTTONS & BTN_LEFT);
AfterRight ==
  /\ pc = "afterRight" /\ ~Held("RIGHT")
  /\ pc' = "afterLeft"
  /\ UNCHANGED <<playlistMenu, musicMenu, player, user, auto>>

\* (Mutant: no wait for the release of BTN_LEFT.)
AfterLeftAtOnce ==
  /\ pc = "afterLeft"
  /\ pc' = "musLeft"
  /\ UNCHANGED <<playlistMenu, musicMenu, player, user, auto>>

AfterLeft ==
  /\ pc = "afterLeft" /\ ~Held("LEFT")
  /\ pc' = "musLeft"
  /\ UNCHANGED <<playlistMenu, musicMenu, player, user, auto>>

---------------------------------------------------------------------------
Menus == PlUp \/ PlDown \/ PlRight \/ PlRelease
         \/ MusUp \/ MusDown \/ MusRight \/ MusLeft \/ MusLeave
Playing == Opened \/ NotOpened \/ (\E b \in {"LEFT", "DOWN", "UP"} : Stop(b))
           \/ TogglePause \/ PauseRelease \/ Return \/ ErrorLeft
Signals == Following \/ Skip \/ Stopped \/ AfterRight \/ AfterLeft

User == \E b \in Buttons : Press(b) \/ Release(b)

Next == Menus \/ Playing \/ Signals \/ User

Spec == Init /\ [][Next]_vars

\* The processor goes on, a music that is not paused ends (StreamPlayer's
\* ImplementsPlay), a button is not held for ever.  Nothing makes the user leave
\* an error.
FairSpec == /\ Spec
            /\ WF_vars(Menus) /\ WF_vars(Signals)
            /\ WF_vars(Opened \/ NotOpened) /\ WF_vars(Return)
            /\ WF_vars(PauseRelease)
            /\ \A b \in Buttons : WF_vars(Release(b))

---------------------------------------------------------------------------
(***************************************************************************)
(* Properties.                                                             *)
(***************************************************************************)
Labels == {"plUp", "plDown", "plRight", "plRelease", "musUp", "musDown",
           "musRight", "musLeft", "musLeave", "opening", "error", "playing",
           "pauseRelease", "signal", "afterRight", "afterLeft"}

\* The selected items exist: musics[current_music] is a music of the playlist.
TypeOK == /\ pc \in Labels
          /\ selected_playlist \in 0 .. n_playlists - 1
          /\ menu_start_pl_item \in 0 .. n_playlists - 1
          /\ current_playlist \in 0 .. n_playlists - 1
          /\ current_music \in 0 .. size - 1
          /\ menu_start_item \in 0 .. size - 1
          /\ loop \in BOOLEAN /\ pause \in BOOLEAN /\ signal \in 0 .. 3
          /\ btn \subseteq Buttons /\ used \subseteq btn /\ auto \in BOOLEAN

Shown(item, start) == item \in start .. start + MAX_LISTED_ITEMS - 1

\* The selected item is one of the lines on the screen, whatever the moves and
\* the wraps in both menus (step9_cabillot.c:139-159, 192-212, 224-231), unless
\* the music was reached because the one before had ended.
SelectionShown ==
  /\ pc = "plUp" => Shown(selected_playlist, menu_start_pl_item)
  /\ (pc = "musUp" /\ ~auto) => Shown(current_music, menu_start_item)

\* One press does one thing in the menus: the press of BTN_RIGHT that opened a
\* playlist or paused a music does not start one, and the press of BTN_LEFT that
\* stopped a music does not also leave the menu, although the code reads the
\* level of the buttons.
MenusDebounced ==
  [][/\ (pc = "plRight" /\ pc' = "plRelease") => "RIGHT" \notin used
     /\ (pc = "musRight" /\ pc' = "opening") => "RIGHT" \notin used
     /\ (pc = "musLeft" /\ pc' = "musLeave") => "LEFT" \notin used]_vars

\* A playlist nobody touches is played to its last music and the menu is back
\* (README.md: "If it's the last music, we go back in the menu"), or stops at the
\* message of a music that cannot be opened.
PlaylistEnds == (pc = "opening") ~> (pc \in {"afterRight", "error"} \/ btn # {})

\* README.md: "If a menu is too long for the screen, it can be scrolled": the
\* selected music is on the screen when the menu is.
MenuScrolled == pc = "musUp" => Shown(current_music, menu_start_item)

\* README.md: "Elsewhere, buttons must be pressed and released to be taken into
\* account": one press of BTN_UP or BTN_DOWN skips one music.
SkipDebounced ==
  [][\A b \in {"UP", "DOWN"} : (Stop(b) /\ loop) => b \notin used]_vars

\* The same sentence: the press of BTN_RIGHT that starts a music does not pause it.
PauseDebounced == [][TogglePause => "RIGHT" \notin used]_vars
===========================================================================
