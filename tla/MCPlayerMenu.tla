--------------------------- MODULE MCPlayerMenu ---------------------------
(* Bounds for PlayerMenu: two lines on the screen; lists that fill their    *)
(* last page, lists that do not, and one that fits on the screen.          *)
EXTENDS PlayerMenu

MCSizes == <<4, 3, 1>>
===========================================================================
