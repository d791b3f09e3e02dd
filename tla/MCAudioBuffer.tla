-------------------------- MODULE MCAudioBuffer --------------------------
(* Bounds for AudioBuffer: samples are bits; the two bus values differ on   *)
(* every lane, and each of them on neighbouring lanes, so that a byte taken *)
(* from another lane or stored on another one shows.                        *)
EXTENDS AudioBuffer

MCData == {[l \in Lanes |-> l % 2], [l \in Lanes |-> 1 - (l % 2)]}
===========================================================================
