--------------------------- MODULE MCVdiskDriver ---------------------------
(***************************************************************************)
(* Two blocks: one that is there, one that is new.                         *)
(***************************************************************************)
EXTENDS VdiskProperties

TwoBlocks == {1, 2}
=============================================================================
