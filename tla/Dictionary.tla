----------------------------- MODULE Dictionary -----------------------------
(***************************************************************************)
(* What hashtable/strmap.h promises: associations of keys with values, an  *)
(* operation either done and answered 1 or refused with no effect.         *)
(***************************************************************************)
EXTENDS Naturals, Sequences, FiniteSets

CONSTANTS Key, Value, Length, Room

VARIABLES
  dict,   \* key -> value
  there,  \* whether there is a map
  answer  \* of the last operation

vars == <<dict, there, answer>>

Answer(op, ret) == [op |-> op, ret |-> ret]
Nothing == [k \in {} |-> k]

Init == dict = Nothing /\ ~there /\ answer = Answer("none", 0)

New == /\ ~there
       /\ UNCHANGED dict
       /\ \/ there' = TRUE /\ answer' = Answer("new", 1)
          \/ UNCHANGED there /\ answer' = Answer("new", 0)

Delete == there' = FALSE /\ dict' = Nothing /\ answer' = Answer("delete", 0)

Put(key, value) ==
    /\ UNCHANGED there
    /\ \/ /\ there
          /\ dict' = [k \in DOMAIN dict \cup {key} |-> IF k = key THEN value ELSE dict[k]]
          /\ answer' = Answer("put", 1)
       \/ UNCHANGED dict /\ answer' = Answer("put", 0)

\* room is the size of the buffer.
Get(key, room) ==
    /\ UNCHANGED <<dict, there>>
    /\ answer' = IF key \in DOMAIN dict /\ Length[dict[key]] < room
                 THEN [op |-> "get", ret |-> 1, out |-> dict[key]]
                 ELSE Answer("get", 0)

\* Without a buffer.
GetSize(key) ==
    /\ UNCHANGED <<dict, there>>
    /\ answer' = Answer("size", IF key \in DOMAIN dict THEN Length[dict[key]] + 1 ELSE 0)

Exists(key) ==
    /\ UNCHANGED <<dict, there>>
    /\ answer' = Answer("exists", IF key \in DOMAIN dict THEN 1 ELSE 0)

Count ==
    /\ UNCHANGED <<dict, there>>
    /\ answer' = Answer("count", Cardinality(DOMAIN dict))

\* Every association once, in any order.
Enum ==
    /\ UNCHANGED <<dict, there>>
    /\ \E seen \in [1 .. Cardinality(DOMAIN dict) -> DOMAIN dict] :
         /\ \A k \in DOMAIN dict : \E i \in DOMAIN seen : seen[i] = k
         /\ answer' = [op |-> "enum", ret |-> IF there THEN 1 ELSE 0,
                       seen |-> [i \in DOMAIN seen |-> [key |-> seen[i], value |-> dict[seen[i]]]]]

Next == \/ New \/ Delete \/ Count \/ Enum
        \/ \E key \in Key : \/ \E value \in Value : Put(key, value)
                            \/ \E room \in Room : Get(key, room)
                            \/ GetSize(key) \/ Exists(key)

Spec == Init /\ [][Next]_vars
=============================================================================
