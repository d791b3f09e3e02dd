------------------------------ MODULE MCSdram ------------------------------
(***************************************************************************)
(* The SDRAM for TLC: two rows of one bank, with different columns, and a  *)
(* bank that no address uses.                                              *)
(***************************************************************************)
EXTENDS Sdram

MCAddr == {[bank |-> 0, row |-> 0, col |-> 0],
           [bank |-> 0, row |-> 1, col |-> 1]}
=============================================================================
