----------------------------- MODULE MCHmacSha2 -----------------------------
(***************************************************************************)
(* Blocks of 4 and 5 bytes, two and three of them for the length.  Twelve  *)
(* bytes, in one update or in several, are three of the first and more     *)
(* than two of the second.  An unsigned int counts to 128: the bits of a   *)
(* block and of eleven bytes behind it, or of ten with the second size,    *)
(* but no more.                                                            *)
(***************************************************************************)
EXTENDS HmacSha2

SomeMacs == {1, 4, 6}
=============================================================================
