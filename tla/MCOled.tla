------------------------------- MODULE MCOled -------------------------------
(* Instances of Oled for TLC.  A store takes 4 cycles and an instruction 3 *)
(* (projects/ice-v/IceV.md:18): oled_wait and a store take 25 cycles; in   *)
(* the dual core, where every instruction takes 4, they take 32.           *)
EXTENDS Oled, TLC

MCGap == (2 :> 7 * 3 + 4) @@ (4 :> 7 * 4 + 4)
=============================================================================
