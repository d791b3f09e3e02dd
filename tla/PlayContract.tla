--------------------------- MODULE PlayContract ---------------------------
(***************************************************************************)
(* What a call of play_music (music.c:69-86) is for the user and for who    *)
(* calls it: a music that cannot be opened is an error which the user has  *)
(* to leave; a music that plays is paused and resumed by one button and    *)
(* stopped by the others, and the call returns, with the signal that tells *)
(* what to do next, unless it is paused.                                   *)
(*                                                                         *)
(* Nothing is said of samples or of banks.                                 *)
(***************************************************************************)

VARIABLES phase,               \* where the call is
          loop, pause, signal  \* the locals of read_audio_file

play == <<phase, loop, pause, signal>>

Phases == {"idle", "opening", "error", "playing", "release"}

\* 1 goes on with the next music; these leave it, and tell where to.
StopSignals == {0, 2, 3}

Init == /\ phase = "idle"
        /\ loop = FALSE /\ pause = FALSE /\ signal = 0

Call == /\ phase = "idle" /\ phase' = "opening"
        /\ UNCHANGED <<loop, pause, signal>>

Opened == /\ phase = "opening" /\ phase' = "playing"
          /\ loop' = TRUE /\ pause' = FALSE /\ signal' = 1

Failed == /\ phase = "opening" /\ phase' = "error"
          /\ UNCHANGED <<loop, pause, signal>>

\* The user has read the message.
ErrorLeft == /\ phase = "error" /\ phase' = "idle"
             /\ signal' = 0
             /\ UNCHANGED <<loop, pause>>

Stop == /\ phase = "playing"
        /\ loop' = FALSE /\ pause' = FALSE /\ signal' \in StopSignals
        /\ UNCHANGED phase

\* Nothing else happens until the button is released.
TogglePause == /\ phase = "playing" /\ phase' = "release"
               /\ pause' = ~pause
               /\ UNCHANGED <<loop, signal>>

PauseRelease == /\ phase = "release" /\ phase' = "playing"
                /\ UNCHANGED <<loop, pause, signal>>

\* The end of the file, or the swap that follows a stop.
Return == /\ phase = "playing" /\ ~pause /\ phase' = "idle"
          /\ UNCHANGED <<loop, pause, signal>>

Next == \/ Call \/ Opened \/ Failed \/ ErrorLeft
        \/ Stop \/ TogglePause \/ PauseRelease \/ Return

Spec == Init /\ [][Next]_play

\* A file is opened or not, and a music that is not paused comes to its end or
\* stops.  Nothing is said of the user, who may leave a music paused or an error
\* on the screen for ever.
FairSpec == Spec /\ WF_play(Opened \/ Failed) /\ WF_play(Return)
===========================================================================
