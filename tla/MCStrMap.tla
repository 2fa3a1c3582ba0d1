------------------------------ MODULE MCStrMap ------------------------------
(***************************************************************************)
(* Three keys, two of which collide, in two buckets; values of length 1    *)
(* and 2, a buffer too small for each and one large enough for both.       *)
(***************************************************************************)
EXTENDS StrMap

ThreeKeys  == {"k1", "k2", "k3"}
TwoValues  == {"v1", "v2"}
SomeLength == [v \in TwoValues |-> IF v = "v1" THEN 1 ELSE 2]
SomeHash   == [k \in ThreeKeys |-> CASE k = "k1" -> 3 [] k = "k2" -> 5 [] k = "k3" -> 6]
SomeRooms  == 1 .. 3
=============================================================================
