------------------------------- MODULE StrMap -------------------------------
(***************************************************************************)
(* hashtable/strmap.c: buckets of pairs, allocated as they are needed.     *)
(* Every malloc and realloc may fail.  A map that is NULL is a sequence    *)
(* without buckets.                                                        *)
(***************************************************************************)
EXTENDS Integers, Sequences, FiniteSets

CONSTANTS
  Key, Value,
  Length,    \* strlen of a value
  Hash,      \* the hash code of a key
  capacity,  \* buckets
  Room       \* sizes of the buffers given to sm_get

ASSUME MapAssumption ==
    /\ Length \in [Value -> Nat]
    /\ IsFiniteSet(Key)          \* they are strings that fit in memory
    /\ Hash \in [Key -> Nat]
    /\ capacity \in Nat \ {0}
    /\ Room \subseteq Nat

VARIABLES
  buckets,  \* of pairs [key, value, size]; size is that of the value's memory
  heap,     \* the live allocations, each named for what it was made for
  step,     \* where the operation under way is
  answer    \* of the last operation

vars == <<buckets, heap, step, answer>>

NULL == <<>>
Answer(op, ret) == [op |-> op, ret |-> ret]

\* No operation is under way.
Idle     == [at |-> "idle"]
Between  == step = Idle
Answers(op, ret) == step' = Idle /\ answer' = Answer(op, ret)

map_mem        == <<"map">>
buckets_mem    == <<"buckets">>
pairs_mem(i)   == <<"pairs", i>>
key_mem(key)   == <<"key", key>>
value_mem(key) == <<"value", key>>

hash(key) == Hash[key]
index(key) == (hash(key) % capacity) + 1

Found(bucket, key) == {j \in DOMAIN bucket : bucket[j].key = key}

\* Mutated: the last pair is not compared.
get_pair_short(key) ==
    IF buckets = NULL THEN {}
    ELSE {j \in Found(buckets[index(key)], key) : j < Len(buckets[index(key)])}

\* The place of the pair in its bucket, or none.
get_pair(key) == IF buckets = NULL THEN {} ELSE Found(buckets[index(key)], key)

Pair(key) == LET bucket == buckets[index(key)]
             IN  bucket[CHOOSE j \in get_pair(key) : TRUE]

Places == {p \in (DOMAIN buckets) \X (1 .. Cardinality(Key)) : p[2] \in DOMAIN buckets[p[1]]}
Pairs  == {buckets[p[1]][p[2]] : p \in Places}

(***************************************************************************)
(* sm_new: the map, then its buckets                                       *)
(***************************************************************************)
sm_new ==
    /\ Between /\ buckets = NULL
    /\ UNCHANGED buckets
    /\ \/ heap' = heap \cup {map_mem} /\ step' = [at |-> "buckets"] /\ UNCHANGED answer
       \/ UNCHANGED heap /\ Answers("new", 0)

new_buckets ==
    /\ step.at = "buckets"
    /\ \/ /\ heap' = heap \cup {buckets_mem}
          /\ buckets' = [i \in 1 .. capacity |-> <<>>]
          /\ Answers("new", 1)
       \/ heap' = heap \ {map_mem} /\ UNCHANGED buckets /\ Answers("new", 0)

(***************************************************************************)
(* sm_delete: bucket after bucket the pairs, one after the other           *)
(***************************************************************************)
sm_delete ==
    /\ Between
    /\ UNCHANGED <<buckets, heap>>
    /\ IF buckets = NULL THEN Answers("delete", 0)
       ELSE step' = [at |-> "free", i |-> 1, j |-> 1] /\ UNCHANGED answer

\* Mutated: free(bucket->pairs) inside the loop over them.
free_pair_early ==
    /\ step.at = "free" /\ step.i <= capacity
    /\ LET bucket == buckets[step.i]
       IN  /\ step.j <= Len(bucket)
           /\ heap' = heap \ {key_mem(bucket[step.j].key), value_mem(bucket[step.j].key),
                              pairs_mem(step.i)}
    /\ step' = [step EXCEPT !.j = @ + 1]
    /\ UNCHANGED <<buckets, answer>>

free_pair ==
    /\ step.at = "free" /\ step.i <= capacity
    /\ LET bucket == buckets[step.i]
       IN  /\ step.j <= Len(bucket)
           /\ heap' = heap \ {key_mem(bucket[step.j].key), value_mem(bucket[step.j].key)}
    /\ step' = [step EXCEPT !.j = @ + 1]
    /\ UNCHANGED <<buckets, answer>>

\* An empty bucket has no pairs to free.
free_pairs ==
    /\ step.at = "free" /\ step.i <= capacity
    /\ step.j > Len(buckets[step.i])
    /\ heap' = heap \ {pairs_mem(step.i)}
    /\ step' = [at |-> "free", i |-> step.i + 1, j |-> 1]
    /\ UNCHANGED <<buckets, answer>>

free_map ==
    /\ step.at = "free" /\ step.i > capacity
    /\ heap' = heap \ {buckets_mem, map_mem}
    /\ buckets' = NULL
    /\ Answers("delete", 0)

(***************************************************************************)
(* What only reads                                                         *)
(***************************************************************************)
Reads == Between /\ UNCHANGED <<buckets, heap, step>>

sm_get(key, room) ==
    /\ Reads
    /\ answer' = IF get_pair(key) # {} /\ Length[Pair(key).value] < room
                 THEN [op |-> "get", ret |-> 1, out |-> Pair(key).value]
                 ELSE Answer("get", 0)

\* sm_get without a buffer
sm_get_size(key) ==
    /\ Reads
    /\ answer' = Answer("size", IF get_pair(key) # {} THEN Length[Pair(key).value] + 1 ELSE 0)

sm_exists(key) ==
    /\ Reads
    /\ answer' = Answer("exists", IF get_pair(key) # {} THEN 1 ELSE 0)

(***************************************************************************)
(* sm_put                                                                  *)
(***************************************************************************)
put_null == Between /\ buckets = NULL /\ UNCHANGED <<buckets, heap>> /\ Answers("put", 0)

\* Mutated: the memory stays as it is.
put_value_in_place(key, value) ==
    LET j == CHOOSE j \in get_pair(key) : TRUE
    IN  /\ Between /\ get_pair(key) # {}
        /\ buckets' = [buckets EXCEPT ![index(key)][j].value = value]
        /\ UNCHANGED heap
        /\ Answers("put", 1)

\* The key is there: its value is replaced, in its memory or in larger one.
put_value(key, value) ==
    LET j   == CHOOSE j \in get_pair(key) : TRUE
        old == Pair(key)
        size == IF Length[old.value] < Length[value] THEN Length[value] + 1 ELSE old.size
    IN  /\ Between /\ get_pair(key) # {}
        /\ UNCHANGED heap
        /\ \/ Length[old.value] < Length[value] /\ UNCHANGED buckets /\ Answers("put", 0)
           \/ /\ buckets' = [buckets EXCEPT ![index(key)][j] =
                                [key |-> key, value |-> value, size |-> size]]
              /\ Answers("put", 1)

\* It is not: memory for the key, ...
new_key(key, value) ==
    /\ Between /\ buckets # NULL /\ get_pair(key) = {}
    /\ UNCHANGED buckets
    /\ \/ /\ heap' = heap \cup {key_mem(key)}
          /\ step' = [at |-> "value", key |-> key, value |-> value]
          /\ UNCHANGED answer
       \/ UNCHANGED heap /\ Answers("put", 0)

\* Mutated: the key is not freed.
new_value_leak ==
    /\ step.at = "value"
    /\ UNCHANGED buckets
    /\ \/ /\ heap' = heap \cup {value_mem(step.key)}
          /\ step' = [step EXCEPT !.at = "pairs"]
          /\ UNCHANGED answer
       \/ UNCHANGED heap /\ Answers("put", 0)

\* ... for the value, ...
new_value ==
    /\ step.at = "value"
    /\ UNCHANGED buckets
    /\ \/ /\ heap' = heap \cup {value_mem(step.key)}
          /\ step' = [step EXCEPT !.at = "pairs"]
          /\ UNCHANGED answer
       \/ heap' = heap \ {key_mem(step.key)} /\ Answers("put", 0)

put_failed == /\ heap' = heap \ {key_mem(step.key), value_mem(step.key)}
              /\ UNCHANGED buckets
              /\ Answers("put", 0)

last_pair ==
    /\ buckets' = [buckets EXCEPT ![index(step.key)] = Append(@,
          [key |-> step.key, value |-> step.value, size |-> Length[step.value] + 1])]
    /\ Answers("put", 1)

\* ... for the first pair of the bucket ...
first_pair ==
    /\ step.at = "pairs" /\ buckets[index(step.key)] = <<>>
    /\ \/ heap' = heap \cup {pairs_mem(index(step.key))} /\ last_pair
       \/ put_failed

\* ... or larger memory for its pairs.
more_pairs ==
    /\ step.at = "pairs" /\ buckets[index(step.key)] # <<>>
    /\ \/ UNCHANGED heap /\ last_pair
       \/ put_failed

(***************************************************************************)
(* What walks over the buckets                                             *)
(***************************************************************************)
sm_get_count ==
    /\ Reads
    /\ answer' = Answer("count", Cardinality(Places))

\* The calls of enum_func, bucket after bucket.
Order(p) == Cardinality({q \in Places : q[1] < p[1] \/ (q[1] = p[1] /\ q[2] <= p[2])})

sm_enum ==
    /\ Reads
    /\ answer' = [op |-> "enum", ret |-> IF buckets = NULL THEN 0 ELSE 1,
                  seen |-> [n \in 1 .. Cardinality(Places) |->
                      LET p == CHOOSE p \in Places : Order(p) = n
                      IN  [key |-> buckets[p[1]][p[2]].key, value |-> buckets[p[1]][p[2]].value]]]

Init == buckets = NULL /\ heap = {} /\ step = Idle /\ answer = Answer("none", 0)

Next == \/ sm_new \/ new_buckets \/ sm_delete \/ free_pair \/ free_pairs \/ free_map
        \/ new_value \/ first_pair \/ more_pairs \/ sm_get_count \/ sm_enum
        \/ \E key \in Key :
              \/ \E value \in Value : put_null \/ put_value(key, value) \/ new_key(key, value)
              \/ \E room \in Room : sm_get(key, room)
              \/ sm_get_size(key) \/ sm_exists(key)

Spec == Init /\ [][Next]_vars

(***************************************************************************)
(* Properties                                                              *)
(***************************************************************************)
\* No key has two pairs, a pair is in the bucket its key hashes to, and the
\* memory of a value, which a put may shorten and lengthen again, has room for
\* it and for its end.
WellFormed ==
    \A i \in DOMAIN buckets : \A j \in DOMAIN buckets[i] :
        LET pair == buckets[i][j]
        IN  /\ index(pair.key) = i
            /\ Length[pair.value] < pair.size
            /\ Found(buckets[i], pair.key) = {j}

\* Between operations the live allocations are those of the map, of its
\* buckets and pairs: whichever allocation fails in the middle of sm_new or
\* sm_put, what was taken before it is freed, and sm_delete leaves nothing.
NoLeak ==
    Between => heap =
        IF buckets = NULL THEN {}
        ELSE {map_mem, buckets_mem}
             \cup {pairs_mem(i) : i \in {h \in DOMAIN buckets : buckets[h] # <<>>}}
             \cup {key_mem(pair.key) : pair \in Pairs} \cup {value_mem(pair.key) : pair \in Pairs}

\* Nothing is freed twice and nothing that is freed is read: sm_delete goes
\* over a map, buckets and pairs that are all there until it has passed them
\* and a put fills memory it holds.
FreedOnce ==
    /\ step.at = "value" => key_mem(step.key) \in heap
    /\ step.at = "pairs" => {key_mem(step.key), value_mem(step.key)} \subseteq heap
    /\ step.at = "free" =>
          /\ {map_mem, buckets_mem} \subseteq heap
          /\ step.i <= capacity =>
                LET bucket == buckets[step.i]
                IN  /\ bucket # <<>> => pairs_mem(step.i) \in heap
                    /\ \A j \in step.j .. Len(bucket) :
                          {key_mem(bucket[j].key), value_mem(bucket[j].key)} \subseteq heap

Associations == [k \in {pair.key : pair \in Pairs} |->
                    (CHOOSE pair \in Pairs : pair.key = k).value]

Dict == INSTANCE Dictionary WITH dict <- Associations, there <- buckets # NULL

\* The header's promise: a put that is answered 0 has changed nothing, one
\* answered 1 is what the next get answers, each association is counted and
\* enumerated once.
ImplementsDictionary == Dict!Spec
=============================================================================
