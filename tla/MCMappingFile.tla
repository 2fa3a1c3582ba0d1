--------------------------- MODULE MCMappingFile ---------------------------
(***************************************************************************)
(* Blocks next to each other and one apart from them.                      *)
(***************************************************************************)
EXTENDS MappingFile

FourBlocks == {1, 2, 3, 5}
=============================================================================
