---------------------------- MODULE MCAlgorithms ----------------------------
(***************************************************************************)
(* Texts of five characters: white space, a quote, the two slashes and a   *)
(* letter; numbers of ten bits; five pieces; three lines.                  *)
(***************************************************************************)
EXTENDS Algorithms

SomeCharacters == {" ", "q", "/", "\\", "a"}
SomeKeys       == {"#", "DISKS", "BLOCKSIZE", "ACCOUNT", "PASSWD"}
SomeValues     == {NULL, ":", "vdisk", "VDISK", "vdisk:oss", "other", "1", "2"}
SomeBounds     == [text |-> 5, bits |-> 10, sizes |-> 5, lines |-> 3]
=============================================================================
