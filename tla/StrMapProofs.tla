---------------------------- MODULE StrMapProofs ----------------------------
(***************************************************************************)
(* Theorems about strmap.c for any keys, values, hash codes and number of  *)
(* buckets: the buckets stay well formed, no allocation is lost, and the   *)
(* map implements the dictionary of strmap.h.                              *)
(***************************************************************************)
EXTENDS StrMap, FiniteSetTheorems, TLAPS

PairType == [key : Key, value : Value, size : Nat]
Bucket   == Seq(PairType)

(***************************************************************************)
(* Sound(B): B is the buckets of a well-formed map, or NULL.  The facts    *)
(* about buckets are stated of a value B, to be used of both states of a   *)
(* step.                                                                   *)
(***************************************************************************)
Distinct(bucket) ==
    \A j, k \in 1 .. Len(bucket) : bucket[j].key = bucket[k].key => j = k

Fits(i, bucket) ==
    \A j \in 1 .. Len(bucket) :
        /\ index(bucket[j].key) = i
        /\ Length[bucket[j].value] < bucket[j].size

Sound(B) ==
    \/ B = NULL
    \/ /\ B \in [1 .. capacity -> Bucket]
       /\ \A i \in 1 .. capacity : Distinct(B[i]) /\ Fits(i, B[i])

PlacesOf(B) == {p \in (DOMAIN B) \X (1 .. Cardinality(Key)) : p[2] \in DOMAIN B[p[1]]}
UsedOf(B)   == {i \in DOMAIN B : B[i] # <<>>}
PairsOf(B)  == {B[p[1]][p[2]] : p \in PlacesOf(B)}
KeysOf(B)   == {pair.key : pair \in PairsOf(B)}
DictOf(B)   == [k \in KeysOf(B) |-> (CHOOSE pair \in PairsOf(B) : pair.key = k).value]

\* The memory of a map with pairs in the buckets U for the keys K.
Memory(U, K) == {map_mem, buckets_mem} \cup {pairs_mem(i) : i \in U}
                \cup {key_mem(k) : k \in K} \cup {value_mem(k) : k \in K}

HeapOf(B) == IF B = NULL THEN {} ELSE Memory(UsedOf(B), KeysOf(B))

\* What sm_delete has not passed when it is at pair j of bucket i.
UsedFrom(B, i)    == {h \in UsedOf(B) : h >= i}
KeysFrom(B, i, j) == {B[p[1]][p[2]].key :
                         p \in {q \in PlacesOf(B) : q[1] > i \/ (q[1] = i /\ q[2] >= j)}}

\* What a put makes of B: a new value in place j of bucket i, or a new pair
\* at the end of a bucket, the only one to grow.
Replaced(B, i, j, value, size) ==
    [B EXCEPT ![i][j] = [key |-> B[i][j].key, value |-> value, size |-> size]]

Appended(B, key, value) ==
    [B EXCEPT ![index(key)] =
        Append(@, [key |-> key, value |-> value, size |-> Length[value] + 1])]

Kept(B, C) == \A h \in 1 .. capacity : \A k \in 1 .. Len(B[h]) : C[h][k] = B[h][k]

SameLengths(B, C) == \A h \in 1 .. capacity : Len(C[h]) = Len(B[h])

Revalued(B, C, i, j, value) ==
    \A h \in 1 .. capacity : \A k \in 1 .. Len(B[h]) :
        /\ C[h][k].key = B[h][k].key
        /\ C[h][k].value = IF h = i /\ k = j THEN value ELSE B[h][k].value

Grown(B, C, i) ==
    \A h \in 1 .. capacity : Len(C[h]) = IF h = i THEN Len(B[h]) + 1 ELSE Len(B[h])

(***************************************************************************)
(* Buckets                                                                 *)
(***************************************************************************)
LEMMA Index == \A k \in Key : index(k) \in 1 .. capacity
BY MapAssumption DEF index, hash

LEMMA NullIsEmpty == DOMAIN NULL = {} /\ PlacesOf(NULL) = {} /\ UsedOf(NULL) = {}
<1>1. DOMAIN NULL = {}
  BY DEF NULL
<1> QED
  BY <1>1 DEF PlacesOf, UsedOf

LEMMA NotNull ==
  ASSUME NEW B \in [1 .. capacity -> Bucket]
  PROVE  B # NULL
<1>1. 1 \in DOMAIN B
  BY MapAssumption
<1>2. DOMAIN NULL = {}
  BY NullIsEmpty
<1> QED
  BY <1>1, <1>2

\* A bucket whose keys differ has no more pairs than there are keys.
LEMMA BucketBound ==
  ASSUME NEW b \in Bucket, Distinct(b)
  PROVE  Len(b) <= Cardinality(Key)
<1> DEFINE f == [j \in 1 .. Len(b) |-> b[j].key]
<1>1. Len(b) \in Nat /\ \A j \in 1 .. Len(b) : b[j] \in PairType
  BY DEF Bucket
<1>2. f \in [1 .. Len(b) -> Key]
  BY <1>1 DEF PairType
<1>3. f \in Injection(1 .. Len(b), Key)
  BY <1>2 DEF Injection, IsInjective, Distinct
<1>4. Cardinality(1 .. Len(b)) <= Cardinality(Key)
  <2> HIDE DEF f
  <2> QED
    BY <1>3, FS_Injection, MapAssumption
<1>5. Cardinality(1 .. Len(b)) = Len(b)
  <2>1. 1 \in Int /\ Len(b) \in Int /\ Len(b) >= 0
    BY <1>1
  <2>2. Cardinality(1 .. Len(b)) = IF 1 > Len(b) THEN 0 ELSE Len(b) - 1 + 1
    BY <2>1, FS_Interval
  <2> QED
    BY <2>1, <2>2
<1> QED
  BY <1>4, <1>5

\* The places of a sound map are all those its buckets have.
LEMMA PlacesAre ==
  ASSUME NEW B \in [1 .. capacity -> Bucket], Sound(B)
  PROVE  /\ \A i \in 1 .. capacity : \A j \in 1 .. Len(B[i]) : <<i, j>> \in PlacesOf(B)
         /\ \A p \in PlacesOf(B) : /\ p = <<p[1], p[2]>>
                                   /\ p[1] \in 1 .. capacity
                                   /\ p[2] \in 1 .. Len(B[p[1]])
<1>1. \A i \in 1 .. capacity : B[i] \in Bucket /\ Distinct(B[i])
  BY NotNull DEF Sound
<1>2. \A i \in 1 .. capacity : Len(B[i]) \in Nat /\ DOMAIN B[i] = 1 .. Len(B[i])
  BY <1>1 DEF Bucket
<1>3. \A i \in 1 .. capacity : Len(B[i]) <= Cardinality(Key)
  BY <1>1, BucketBound
<1>4. Cardinality(Key) \in Nat
  BY MapAssumption, FS_CardinalityType
<1>5. ASSUME NEW i \in 1 .. capacity, NEW j \in 1 .. Len(B[i])
      PROVE  <<i, j>> \in PlacesOf(B)
  <2>1. j \in 1 .. Cardinality(Key)
    BY <1>2, <1>3, <1>4, <1>5
  <2> QED
    BY <2>1, <1>2, <1>5 DEF PlacesOf
<1>6. ASSUME NEW p \in PlacesOf(B)
      PROVE  p = <<p[1], p[2]>> /\ p[1] \in 1 .. capacity /\ p[2] \in 1 .. Len(B[p[1]])
  BY <1>2, <1>6 DEF PlacesOf
<1> QED
  BY <1>5, <1>6

LEMMA PlacesFinite ==
  ASSUME NEW B, Sound(B)
  PROVE  /\ IsFiniteSet(PlacesOf(B)) /\ Cardinality(PlacesOf(B)) \in Nat
         /\ IsFiniteSet(UsedOf(B)) /\ Cardinality(UsedOf(B)) \in Nat
<1> USE MapAssumption
<1>1. IsFiniteSet(DOMAIN B)
  <2>1. CASE B = NULL
    BY <2>1, NullIsEmpty, FS_EmptySet
  <2>2. CASE B # NULL
    BY <2>2, FS_Interval DEF Sound
  <2> QED
    BY <2>1, <2>2
<1>2. IsFiniteSet(1 .. Cardinality(Key))
  BY FS_CardinalityType, FS_Interval
<1>3. IsFiniteSet((DOMAIN B) \X (1 .. Cardinality(Key)))
  BY <1>1, <1>2, FS_Product
<1>4. PlacesOf(B) \in SUBSET ((DOMAIN B) \X (1 .. Cardinality(Key)))
  BY DEF PlacesOf
<1>5. UsedOf(B) \in SUBSET (DOMAIN B)
  BY DEF UsedOf
<1> QED
  BY <1>1, <1>3, <1>4, <1>5, FS_Subset, FS_CardinalityType

(***************************************************************************)
(* The two changes an operation makes to a map                             *)
(***************************************************************************)
\* A put of a key that is there.
LEMMA ReplacePair ==
  ASSUME NEW B \in [1 .. capacity -> Bucket], Sound(B),
         NEW i \in 1 .. capacity, NEW j \in 1 .. Len(B[i]),
         NEW value \in Value, NEW size \in Nat, Length[value] < size,
         NEW C, C = Replaced(B, i, j, value, size)
  PROVE  /\ C \in [1 .. capacity -> Bucket]
         /\ Sound(C)
         /\ SameLengths(B, C)
         /\ Revalued(B, C, i, j, value)
<1> DEFINE pair == [key |-> B[i][j].key, value |-> value, size |-> size]
           b    == [B[i] EXCEPT ![j] = pair]
<1>1. \A h \in 1 .. capacity : B[h] \in Bucket /\ Distinct(B[h]) /\ Fits(h, B[h])
  BY NotNull DEF Sound
<1>2. B[i][j] \in PairType
  BY <1>1 DEF Bucket
<1>3. pair \in PairType /\ pair.key = B[i][j].key /\ pair.value = value /\ pair.size = size
  BY <1>2 DEF PairType
<1>4. /\ b \in Bucket /\ Len(b) = Len(B[i])
      /\ \A k \in 1 .. Len(B[i]) : b[k] = IF k = j THEN pair ELSE B[i][k]
  <2> HIDE DEF pair
  <2> QED
    BY <1>1, <1>3 DEF Bucket
<1>5. C = [B EXCEPT ![i] = b]
  BY DEF Replaced
<1>6. \A h \in 1 .. capacity : C[h] = IF h = i THEN b ELSE B[h]
  BY <1>5
<1>7. C \in [1 .. capacity -> Bucket]
  <2> HIDE DEF b
  <2> QED
    BY <1>1, <1>4, <1>5
<1>8. \A k \in 1 .. Len(b) : b[k].key = B[i][k].key
  BY <1>3, <1>4
<1>9. Distinct(b) /\ Fits(i, b)
  <2>1. Distinct(b)
    BY <1>1, <1>4, <1>8 DEF Distinct
  <2>2. Fits(i, b)
    <3> SUFFICES ASSUME NEW k \in 1 .. Len(b)
                 PROVE  index(b[k].key) = i /\ Length[b[k].value] < b[k].size
      BY DEF Fits
    <3>1. index(b[k].key) = i
      BY <1>1, <1>4, <1>8 DEF Fits
    <3>2. CASE k = j
      BY <3>1, <3>2, <1>3, <1>4
    <3>3. CASE k # j
      BY <3>1, <3>3, <1>1, <1>4 DEF Fits
    <3> QED
      BY <3>2, <3>3
  <2> QED
    BY <2>1, <2>2
<1>10. Sound(C)
  <2> HIDE DEF b
  <2> QED
    BY <1>1, <1>6, <1>7, <1>9 DEF Sound
<1>11. ASSUME NEW h \in 1 .. capacity
       PROVE  Len(C[h]) = Len(B[h])
  BY <1>4, <1>6, <1>11
<1>12. ASSUME NEW h \in 1 .. capacity, NEW k \in 1 .. Len(B[h])
       PROVE  /\ C[h][k].key = B[h][k].key
              /\ C[h][k].value = IF h = i /\ k = j THEN value ELSE B[h][k].value
  <2>1. CASE h = i
    BY <2>1, <1>3, <1>4, <1>6, <1>12
  <2>2. CASE h # i
    BY <2>2, <1>6, <1>12
  <2> QED
    BY <2>1, <2>2
<1> QED
  BY <1>7, <1>10, <1>11, <1>12 DEF SameLengths, Revalued

\* A put of a key that is not.
LEMMA AppendPair ==
  ASSUME NEW B \in [1 .. capacity -> Bucket], Sound(B),
         NEW key \in Key, Found(B[index(key)], key) = {},
         NEW value \in Value, NEW C, C = Appended(B, key, value)
  PROVE  /\ C \in [1 .. capacity -> Bucket]
         /\ Sound(C)
         /\ Grown(B, C, index(key))
         /\ Kept(B, C)
         /\ C[index(key)][Len(B[index(key)]) + 1] =
               [key |-> key, value |-> value, size |-> Length[value] + 1]
<1> DEFINE i    == index(key)
           pair == [key |-> key, value |-> value, size |-> Length[value] + 1]
           b    == Append(B[i], pair)
<1>0. i \in 1 .. capacity
  BY Index
<1>1. \A h \in 1 .. capacity : B[h] \in Bucket /\ Distinct(B[h]) /\ Fits(h, B[h])
  BY NotNull DEF Sound
<1>2. Length[value] \in Nat
  BY MapAssumption
<1>3. pair \in PairType /\ pair.key = key /\ Length[pair.value] < pair.size
  BY <1>2 DEF PairType
<1>4. /\ b \in Bucket /\ Len(b) = Len(B[i]) + 1 /\ Len(B[i]) \in Nat
      /\ \A k \in 1 .. Len(B[i]) : b[k] = B[i][k]
      /\ b[Len(B[i]) + 1] = pair
  <2> HIDE DEF pair, i
  <2> QED
    BY <1>0, <1>1, <1>3 DEF Bucket
<1>5. \A h \in 1 .. capacity : C[h] = IF h = i THEN b ELSE B[h]
  BY DEF Appended
<1>6. C \in [1 .. capacity -> Bucket]
  <2>1. C = [B EXCEPT ![i] = b]
    BY DEF Appended
  <2> HIDE DEF b
  <2> QED
    BY <2>1, <1>0, <1>1, <1>4
<1>7. \A k \in 1 .. Len(B[i]) : B[i][k].key # key
  <2>1. DOMAIN B[i] = 1 .. Len(B[i])
    BY <1>0, <1>1 DEF Bucket
  <2> QED
    BY <2>1 DEF Found
<1>8. Distinct(b)
  <2> SUFFICES ASSUME NEW j \in 1 .. Len(b), NEW k \in 1 .. Len(b), b[j].key = b[k].key
               PROVE  j = k
    BY DEF Distinct
  <2> HIDE DEF b, pair, i
  <2>1. \A l \in 1 .. Len(b) : l \in 1 .. Len(B[i]) \/ l = Len(B[i]) + 1
    BY <1>4
  <2>2. CASE j \in 1 .. Len(B[i]) /\ k \in 1 .. Len(B[i])
    BY <2>2, <1>0, <1>1, <1>4 DEF Distinct
  <2>3. CASE j \in 1 .. Len(B[i]) /\ k = Len(B[i]) + 1
    BY <2>3, <1>3, <1>4, <1>7
  <2>4. CASE k \in 1 .. Len(B[i]) /\ j = Len(B[i]) + 1
    BY <2>4, <1>3, <1>4, <1>7
  <2> QED
    BY <2>1, <2>2, <2>3, <2>4
<1>9. Fits(i, b)
  <2> SUFFICES ASSUME NEW k \in 1 .. Len(b)
               PROVE  index(b[k].key) = i /\ Length[b[k].value] < b[k].size
    BY DEF Fits
  <2>1. CASE k = Len(B[i]) + 1
    <3> HIDE DEF b
    <3>1. b[k] = pair
      BY <2>1, <1>4
    <3> HIDE DEF pair
    <3>2. index(pair.key) = i
      BY <1>3
    <3> QED
      BY <3>1, <3>2, <1>3
  <2>2. CASE k \in 1 .. Len(B[i])
    <3> HIDE DEF b, pair, i
    <3> QED
      BY <2>2, <1>0, <1>1, <1>4 DEF Fits
  <2>3. k \in 1 .. Len(B[i]) \/ k = Len(B[i]) + 1
    <3> HIDE DEF b, pair, i
    <3> QED
      BY <1>4
  <2> QED
    BY <2>1, <2>2, <2>3
<1>10. Sound(C)
  <2> HIDE DEF b, i
  <2> QED
    BY <1>1, <1>5, <1>6, <1>8, <1>9 DEF Sound
<1>11. Grown(B, C, i)
  <2> HIDE DEF b, i
  <2> QED
    BY <1>4, <1>5 DEF Grown
<1>12. Kept(B, C)
  <2> HIDE DEF b, i
  <2> QED
    BY <1>4, <1>5 DEF Kept
<1>13. C[i][Len(B[i]) + 1] = pair
  <2> HIDE DEF b
  <2>1. C[i] = b
    BY <1>0, <1>5
  <2> QED
    BY <2>1, <1>4
<1> QED
  BY <1>6, <1>10, <1>11, <1>12, <1>13

\* The places and the used buckets after either.
LEMMA ReplacePlaces ==
  ASSUME NEW B \in [1 .. capacity -> Bucket], Sound(B),
         NEW C \in [1 .. capacity -> Bucket], Sound(C), SameLengths(B, C)
  PROVE  PlacesOf(C) = PlacesOf(B) /\ UsedOf(C) = UsedOf(B)
<1>1. PlacesOf(C) \subseteq PlacesOf(B)
  <2> SUFFICES ASSUME NEW p \in PlacesOf(C) PROVE p \in PlacesOf(B)
    OBVIOUS
  <2>1. p = <<p[1], p[2]>> /\ p[1] \in 1 .. capacity /\ p[2] \in 1 .. Len(C[p[1]])
    BY PlacesAre
  <2>2. <<p[1], p[2]>> \in PlacesOf(B)
    BY <2>1, PlacesAre DEF SameLengths
  <2> QED
    BY <2>1, <2>2
<1>2. PlacesOf(B) \subseteq PlacesOf(C)
  <2> SUFFICES ASSUME NEW p \in PlacesOf(B) PROVE p \in PlacesOf(C)
    OBVIOUS
  <2>1. p = <<p[1], p[2]>> /\ p[1] \in 1 .. capacity /\ p[2] \in 1 .. Len(B[p[1]])
    BY PlacesAre
  <2>2. <<p[1], p[2]>> \in PlacesOf(C)
    BY <2>1, PlacesAre DEF SameLengths
  <2> QED
    BY <2>1, <2>2
<1>3. \A h \in 1 .. capacity : B[h] = <<>> <=> C[h] = <<>>
  BY DEF Bucket, SameLengths
<1> QED
  BY <1>1, <1>2, <1>3 DEF UsedOf

LEMMA AppendPlaces ==
  ASSUME NEW B \in [1 .. capacity -> Bucket], Sound(B),
         NEW C \in [1 .. capacity -> Bucket], Sound(C),
         NEW i \in 1 .. capacity, Grown(B, C, i)
  PROVE  /\ PlacesOf(C) = PlacesOf(B) \cup {<<i, Len(B[i]) + 1>>}
         /\ <<i, Len(B[i]) + 1>> \notin PlacesOf(B)
         /\ UsedOf(C) = UsedOf(B) \cup {i}
<1>1. \A h \in 1 .. capacity : Len(B[h]) \in Nat /\ Len(C[h]) \in Nat
  BY DEF Bucket
<1>2. PlacesOf(C) \subseteq PlacesOf(B) \cup {<<i, Len(B[i]) + 1>>}
  <2> SUFFICES ASSUME NEW p \in PlacesOf(C), p # <<i, Len(B[i]) + 1>>
               PROVE  p \in PlacesOf(B)
    OBVIOUS
  <2>1. p = <<p[1], p[2]>> /\ p[1] \in 1 .. capacity /\ p[2] \in 1 .. Len(C[p[1]])
    BY PlacesAre
  <2>2. p[2] \in 1 .. Len(B[p[1]])
    BY <1>1, <2>1 DEF Grown
  <2>3. <<p[1], p[2]>> \in PlacesOf(B)
    BY <2>1, <2>2, PlacesAre
  <2> QED
    BY <2>1, <2>3
<1>3. PlacesOf(B) \cup {<<i, Len(B[i]) + 1>>} \subseteq PlacesOf(C)
  <2>1. ASSUME NEW p \in PlacesOf(B)
        PROVE  p \in PlacesOf(C)
    <3>1. p = <<p[1], p[2]>> /\ p[1] \in 1 .. capacity /\ p[2] \in 1 .. Len(B[p[1]])
      BY PlacesAre
    <3>2. p[2] \in 1 .. Len(C[p[1]])
      BY <1>1, <3>1 DEF Grown
    <3>3. <<p[1], p[2]>> \in PlacesOf(C)
      BY <3>1, <3>2, PlacesAre
    <3> QED
      BY <3>1, <3>3
  <2>2. Len(B[i]) + 1 \in 1 .. Len(C[i])
    BY <1>1 DEF Grown
  <2>3. <<i, Len(B[i]) + 1>> \in PlacesOf(C)
    BY <2>2, PlacesAre
  <2> QED
    BY <2>1, <2>3
<1>4. <<i, Len(B[i]) + 1>> \notin PlacesOf(B)
  <2> SUFFICES ASSUME <<i, Len(B[i]) + 1>> \in PlacesOf(B) PROVE FALSE
    OBVIOUS
  <2>1. Len(B[i]) + 1 \in 1 .. Len(B[i])
    BY PlacesAre
  <2> QED
    BY <1>1, <2>1 DEF Grown
<1>5. \A h \in 1 .. capacity : /\ B[h] = <<>> <=> Len(B[h]) = 0
                              /\ C[h] = <<>> <=> Len(C[h]) = 0
  BY DEF Bucket
<1>6. UsedOf(C) = UsedOf(B) \cup {i}
  BY <1>1, <1>5 DEF UsedOf, Grown
<1> QED
  BY <1>2, <1>3, <1>4, <1>6

(***************************************************************************)
(* The dictionary of a map                                                 *)
(***************************************************************************)
LEMMA OnePlace ==
  ASSUME NEW B \in [1 .. capacity -> Bucket], Sound(B),
         NEW p \in PlacesOf(B), NEW q \in PlacesOf(B),
         B[p[1]][p[2]].key = B[q[1]][q[2]].key
  PROVE  p = q
<1>1. /\ p = <<p[1], p[2]>> /\ p[1] \in 1 .. capacity /\ p[2] \in 1 .. Len(B[p[1]])
      /\ q = <<q[1], q[2]>> /\ q[1] \in 1 .. capacity /\ q[2] \in 1 .. Len(B[q[1]])
  BY PlacesAre
<1>2. \A h \in 1 .. capacity : Distinct(B[h]) /\ Fits(h, B[h])
  BY NotNull DEF Sound
<1>3. p[1] = q[1]
  BY <1>1, <1>2 DEF Fits
<1>4. p[2] = q[2]
  BY <1>1, <1>2, <1>3 DEF Distinct
<1> QED
  BY <1>1, <1>3, <1>4

LEMMA DictOfMap ==
  ASSUME NEW B \in [1 .. capacity -> Bucket], Sound(B)
  PROVE  /\ DOMAIN DictOf(B) = KeysOf(B)
         /\ \A p \in PlacesOf(B) : /\ B[p[1]][p[2]].key \in KeysOf(B)
                                   /\ DictOf(B)[B[p[1]][p[2]].key] = B[p[1]][p[2]].value
         /\ \A k \in KeysOf(B) : \E p \in PlacesOf(B) : B[p[1]][p[2]].key = k
<1>1. DOMAIN DictOf(B) = KeysOf(B)
  BY DEF DictOf
<1>2. ASSUME NEW p \in PlacesOf(B)
      PROVE  /\ B[p[1]][p[2]].key \in KeysOf(B)
             /\ DictOf(B)[B[p[1]][p[2]].key] = B[p[1]][p[2]].value
  <2> DEFINE k == B[p[1]][p[2]].key
             pair == CHOOSE pair \in PairsOf(B) : pair.key = k
  <2>1. B[p[1]][p[2]] \in PairsOf(B)
    BY DEF PairsOf
  <2>2. k \in KeysOf(B)
    BY <2>1 DEF KeysOf
  <2>3. pair \in PairsOf(B) /\ pair.key = k
    <3> HIDE DEF k
    <3>1. \E r \in PairsOf(B) : r.key = k
      BY <2>1 DEF k
    <3> QED
      BY <3>1
  <2>4. PICK q \in PlacesOf(B) : pair = B[q[1]][q[2]]
    <3> HIDE DEF pair
    <3> QED
      BY <2>3 DEF PairsOf
  <2>5. q = p
    <3> HIDE DEF pair
    <3>1. B[q[1]][q[2]].key = B[p[1]][p[2]].key
      BY <2>3, <2>4
    <3> QED
      BY <3>1, OnePlace
  <2>6. DictOf(B)[k] = pair.value
    BY <2>2 DEF DictOf
  <2> QED
    BY <2>2, <2>4, <2>5, <2>6
<1>3. ASSUME NEW k \in KeysOf(B)
      PROVE  \E p \in PlacesOf(B) : B[p[1]][p[2]].key = k
  BY <1>3 DEF KeysOf, PairsOf
<1> QED
  BY <1>1, <1>2, <1>3

\* What a search finds is what the dictionary has.
LEMMA SearchFinds ==
  ASSUME NEW B \in [1 .. capacity -> Bucket], Sound(B), NEW key \in Key
  PROVE  /\ key \in KeysOf(B) <=> Found(B[index(key)], key) # {}
         /\ \A j \in Found(B[index(key)], key) :
               j \in 1 .. Len(B[index(key)]) /\ B[index(key)][j].key = key
               /\ DictOf(B)[key] = B[index(key)][j].value
<1> DEFINE i == index(key)
<1>1. i \in 1 .. capacity
  BY Index
<1>2. DOMAIN B[i] = 1 .. Len(B[i]) /\ Fits(i, B[i])
  BY <1>1, NotNull DEF Sound, Bucket
<1>3. ASSUME NEW j \in Found(B[i], key)
      PROVE  /\ j \in 1 .. Len(B[i]) /\ B[i][j].key = key
             /\ key \in KeysOf(B)
             /\ DictOf(B)[key] = B[i][j].value
  <2>1. j \in 1 .. Len(B[i]) /\ B[i][j].key = key
    BY <1>2, <1>3 DEF Found
  <2>2. <<i, j>> \in PlacesOf(B)
    BY <1>1, <2>1, PlacesAre
  <2>3. /\ B[i][j].key \in KeysOf(B)
        /\ DictOf(B)[B[i][j].key] = B[i][j].value
    <3> DEFINE p == <<i, j>>
    <3>1. p \in PlacesOf(B) /\ p[1] = i /\ p[2] = j
      BY <2>2
    <3> HIDE DEF p
    <3>2. /\ B[p[1]][p[2]].key \in KeysOf(B)
          /\ DictOf(B)[B[p[1]][p[2]].key] = B[p[1]][p[2]].value
      BY <3>1, DictOfMap
    <3> QED
      BY <3>1, <3>2
  <2> QED
    BY <2>1, <2>3
<1>4. ASSUME key \in KeysOf(B)
      PROVE  Found(B[i], key) # {}
  <2>1. PICK p \in PlacesOf(B) : B[p[1]][p[2]].key = key
    BY <1>4, DictOfMap
  <2>2. p[1] \in 1 .. capacity /\ p[2] \in 1 .. Len(B[p[1]])
    BY PlacesAre
  <2>3. Fits(p[1], B[p[1]])
    BY <2>2, NotNull DEF Sound
  <2>4. p[1] = i
    BY <2>1, <2>2, <2>3 DEF Fits
  <2>5. p[2] \in Found(B[i], key)
    BY <1>2, <2>1, <2>2, <2>4 DEF Found
  <2> QED
    BY <2>5
<1> QED
  BY <1>3, <1>4

(***************************************************************************)
(* The invariants                                                          *)
(***************************************************************************)
\* What the operation under way has taken, or not yet freed.
Putting(at, more) ==
    \E key \in Key, value \in Value :
        /\ step = [at |-> at, key |-> key, value |-> value]
        /\ buckets # NULL /\ Found(buckets[index(key)], key) = {}
        /\ heap = HeapOf(buckets) \cup {key_mem(key)} \cup (IF more THEN {value_mem(key)} ELSE {})

Freeing ==
    \E i \in 1 .. capacity + 1, j \in Nat \ {0} :
        /\ step = [at |-> "free", i |-> i, j |-> j]
        /\ buckets # NULL
        /\ heap = Memory(UsedFrom(buckets, i), KeysFrom(buckets, i, j))

Holds ==
    \/ step = Idle /\ heap = HeapOf(buckets)
    \/ step = [at |-> "buckets"] /\ buckets = NULL /\ heap = {map_mem}
    \/ Putting("value", FALSE)
    \/ Putting("pairs", TRUE)
    \/ Freeing

IInv == Sound(buckets) /\ Holds

LEMMA SoundIsWellFormed == Sound(buckets) => WellFormed
<1> SUFFICES ASSUME Sound(buckets),
                    NEW i \in DOMAIN buckets, NEW j \in DOMAIN buckets[i]
             PROVE  LET pair == buckets[i][j]
                    IN  /\ index(pair.key) = i
                        /\ Length[pair.value] < pair.size
                        /\ Found(buckets[i], pair.key) = {j}
  BY DEF WellFormed
<1>1. buckets # NULL
  BY NullIsEmpty
<1>2. i \in 1 .. capacity /\ buckets[i] \in Bucket /\ Distinct(buckets[i]) /\ Fits(i, buckets[i])
  BY <1>1 DEF Sound
<1>3. DOMAIN buckets[i] = 1 .. Len(buckets[i])
  BY <1>2 DEF Bucket
<1>4. Found(buckets[i], buckets[i][j].key) = {j}
  BY <1>2, <1>3 DEF Found, Distinct
<1> QED
  BY <1>2, <1>3, <1>4 DEF Fits

(***************************************************************************)
(* Memory                                                                  *)
(***************************************************************************)
LEMMA MemoriesDiffer ==
  /\ \A k, l : /\ key_mem(k) = key_mem(l) => k = l
               /\ value_mem(k) = value_mem(l) => k = l
               /\ pairs_mem(k) = pairs_mem(l) => k = l
               /\ key_mem(k) # value_mem(l)
               /\ key_mem(k) # pairs_mem(l)
               /\ value_mem(k) # pairs_mem(l)
  /\ \A k : /\ map_mem \notin {key_mem(k), value_mem(k), pairs_mem(k)}
            /\ buckets_mem \notin {key_mem(k), value_mem(k), pairs_mem(k)}
  /\ map_mem # buckets_mem
BY DEF key_mem, value_mem, pairs_mem, map_mem, buckets_mem

LEMMA KeyMemory ==
  ASSUME NEW U, NEW K, NEW k, k \notin K
  PROVE  key_mem(k) \notin Memory(U, K) /\ value_mem(k) \notin Memory(U, K)
BY MemoriesDiffer DEF Memory

LEMMA NoMemory == Memory({}, {}) = {map_mem, buckets_mem}
BY DEF Memory

\* sm_delete starts with all of it, ...
LEMMA FreeAll ==
  ASSUME NEW B \in [1 .. capacity -> Bucket], Sound(B)
  PROVE  UsedFrom(B, 1) = UsedOf(B) /\ KeysFrom(B, 1, 1) = KeysOf(B)
<1>1. \A p \in PlacesOf(B) : p[1] > 1 \/ (p[1] = 1 /\ p[2] >= 1)
  BY PlacesAre, MapAssumption
<1>2. {q \in PlacesOf(B) : q[1] > 1 \/ (q[1] = 1 /\ q[2] >= 1)} = PlacesOf(B)
  BY <1>1
<1>3. \A h \in UsedOf(B) : h >= 1
  BY DEF UsedOf
<1> QED
  BY <1>2, <1>3 DEF UsedFrom, KeysFrom, KeysOf, PairsOf

\* ... frees a pair, ...
LEMMA FreePair ==
  ASSUME NEW B \in [1 .. capacity -> Bucket], Sound(B),
         NEW i \in 1 .. capacity, NEW j \in Nat \ {0}, j <= Len(B[i])
  PROVE  KeysFrom(B, i, j + 1) = KeysFrom(B, i, j) \ {B[i][j].key}
<1> DEFINE P(l) == {q \in PlacesOf(B) : q[1] > i \/ (q[1] = i /\ q[2] >= l)}
           key(p) == B[p[1]][p[2]].key
           here == <<i, j>>
<1>0. B[i] \in Bucket
  OBVIOUS
<1>1. here \in PlacesOf(B)
  <2>1. j \in 1 .. Len(B[i])
    BY <1>0 DEF Bucket
  <2> QED
    BY <2>1, PlacesAre
<1>2. ASSUME NEW p \in PlacesOf(B), key(p) = key(here)
      PROVE  p = here
  <2> HIDE DEF here
  <2> QED
    BY <1>1, <1>2, OnePlace
<1>3. P(j + 1) = P(j) \ {here}
  <2>1. \A p \in PlacesOf(B) : p = here <=> p[1] = i /\ p[2] = j
    <3> SUFFICES ASSUME NEW p \in PlacesOf(B) PROVE p = here <=> p[1] = i /\ p[2] = j
      OBVIOUS
    <3>1. p = <<p[1], p[2]>>
      BY PlacesAre
    <3> QED
      BY <3>1
  <2>2. \A p \in PlacesOf(B) : p[1] \in Int /\ p[2] \in Int
    <3> SUFFICES ASSUME NEW p \in PlacesOf(B) PROVE p[1] \in Int /\ p[2] \in Int
      OBVIOUS
    <3>1. p[1] \in 1 .. capacity /\ p[2] \in 1 .. Len(B[p[1]])
      BY PlacesAre
    <3> QED
      BY <3>1
  <2>3. \A p \in PlacesOf(B) : p \in P(j + 1) <=> p \in P(j) /\ p # here
    <3> HIDE DEF here
    <3> QED
      BY <2>1, <2>2
  <2>4. P(j) \subseteq PlacesOf(B) /\ P(j + 1) \subseteq PlacesOf(B)
    OBVIOUS
  <2> HIDE DEF P, here
  <2> QED
    BY <2>3, <2>4
<1>4. here \in P(j)
  BY <1>1
<1>5. KeysFrom(B, i, j + 1) = {key(p) : p \in P(j + 1)} /\ KeysFrom(B, i, j) = {key(p) : p \in P(j)}
  BY DEF KeysFrom
<1>6. key(here) = B[i][j].key
  OBVIOUS
<1>7. P(j) \subseteq PlacesOf(B)
  OBVIOUS
<1> HIDE DEF P, key, here
<1>9. {key(p) : p \in P(j) \ {here}} = {key(p) : p \in P(j)} \ {key(here)}
  BY <1>2, <1>4, <1>7
<1> QED
  BY <1>3, <1>5, <1>6, <1>9

\* ... goes on to the next bucket, ...
LEMMA FreeBucket ==
  ASSUME NEW B \in [1 .. capacity -> Bucket], Sound(B),
         NEW i \in 1 .. capacity, NEW j \in Nat, j > Len(B[i])
  PROVE  /\ KeysFrom(B, i + 1, 1) = KeysFrom(B, i, j)
         /\ UsedFrom(B, i + 1) = UsedFrom(B, i) \ {i}
<1>1. \A p \in PlacesOf(B) : p[1] > i \/ (p[1] = i /\ p[2] >= j)
                             <=> p[1] > i + 1 \/ (p[1] = i + 1 /\ p[2] >= 1)
  <2> SUFFICES ASSUME NEW p \in PlacesOf(B)
               PROVE  p[1] > i \/ (p[1] = i /\ p[2] >= j)
                      <=> p[1] > i + 1 \/ (p[1] = i + 1 /\ p[2] >= 1)
    OBVIOUS
  <2>1. p[1] \in 1 .. capacity /\ p[2] \in 1 .. Len(B[p[1]])
    BY PlacesAre
  <2>2. B[p[1]] \in Bucket
    BY <2>1
  <2>3. Len(B[p[1]]) \in Nat
    BY <2>2 DEF Bucket
  <2>4. p[1] = i => ~ (p[2] >= j)
    BY <2>1, <2>3
  <2> QED
    BY <2>1, <2>3, <2>4, MapAssumption
<1>2. \A h \in UsedOf(B) : h \in Int
  BY DEF UsedOf
<1> QED
  BY <1>1, <1>2 DEF KeysFrom, UsedFrom

\* ... and ends with none of them left.
LEMMA FreedAll ==
  ASSUME NEW B \in [1 .. capacity -> Bucket], Sound(B), NEW j \in Nat
  PROVE  UsedFrom(B, capacity + 1) = {} /\ KeysFrom(B, capacity + 1, j) = {}
<1>1. \A p \in PlacesOf(B) : ~ (p[1] > capacity + 1 \/ (p[1] = capacity + 1 /\ p[2] >= j))
  BY PlacesAre, MapAssumption
<1>2. \A h \in UsedOf(B) : ~ (h >= capacity + 1)
  BY MapAssumption DEF UsedOf
<1> QED
  BY <1>1, <1>2 DEF KeysFrom, UsedFrom

\* The keys and the used buckets after either put.
LEMMA ReplaceKeys ==
  ASSUME NEW B \in [1 .. capacity -> Bucket], Sound(B),
         NEW C \in [1 .. capacity -> Bucket], Sound(C),
         NEW i, NEW j, NEW value, SameLengths(B, C), Revalued(B, C, i, j, value)
  PROVE  KeysOf(C) = KeysOf(B) /\ UsedOf(C) = UsedOf(B)
<1>1. PlacesOf(C) = PlacesOf(B) /\ UsedOf(C) = UsedOf(B)
  BY ReplacePlaces
<1>2. \A p \in PlacesOf(B) : C[p[1]][p[2]].key = B[p[1]][p[2]].key
  BY PlacesAre DEF Revalued
<1> QED
  BY <1>1, <1>2 DEF KeysOf, PairsOf

LEMMA AppendKeys ==
  ASSUME NEW B \in [1 .. capacity -> Bucket], Sound(B),
         NEW C \in [1 .. capacity -> Bucket], Sound(C),
         NEW key \in Key, Grown(B, C, index(key)), Kept(B, C),
         C[index(key)][Len(B[index(key)]) + 1].key = key
  PROVE  HeapOf(C) = HeapOf(B) \cup {key_mem(key), value_mem(key)} \cup {pairs_mem(index(key))}
<1> DEFINE i   == index(key)
           new == <<i, Len(B[i]) + 1>>
<1>0. i \in 1 .. capacity
  BY Index
<1>1. PlacesOf(C) = PlacesOf(B) \cup {new} /\ UsedOf(C) = UsedOf(B) \cup {i}
  <2> HIDE DEF i
  <2> QED
    BY <1>0, AppendPlaces DEF i
<1>2. \A p \in PlacesOf(B) : C[p[1]][p[2]].key = B[p[1]][p[2]].key
  BY PlacesAre DEF Kept
<1>3. C[new[1]][new[2]].key = key
  OBVIOUS
<1> HIDE DEF new, i
<1>4. KeysOf(C) = KeysOf(B) \cup {key}
  BY <1>1, <1>2, <1>3 DEF KeysOf, PairsOf
<1>5. HeapOf(B) = Memory(UsedOf(B), KeysOf(B)) /\ HeapOf(C) = Memory(UsedOf(C), KeysOf(C))
  BY NotNull DEF HeapOf
<1>6. Memory(UsedOf(B) \cup {i}, KeysOf(B) \cup {key})
         = Memory(UsedOf(B), KeysOf(B)) \cup {key_mem(key), value_mem(key)} \cup {pairs_mem(i)}
  BY DEF Memory
<1>7. HeapOf(C) = HeapOf(B) \cup {key_mem(key), value_mem(key)} \cup {pairs_mem(i)}
  BY <1>1, <1>4, <1>5, <1>6
<1> QED
  BY <1>7 DEF i

(***************************************************************************)
(* The steps keep the invariant                                            *)
(***************************************************************************)
LEMMA InitIInv == Init => IInv
BY DEF Init, IInv, Sound, Holds, HeapOf

LEMMA NewIInv == IInv /\ (sm_new \/ new_buckets) => IInv'
<1> SUFFICES ASSUME IInv, sm_new \/ new_buckets PROVE IInv'
  OBVIOUS
<1>1. CASE sm_new
  <2>1. step = Idle /\ buckets = NULL /\ buckets' = NULL /\ heap = {}
    BY <1>1 DEF sm_new, Between, IInv, Holds, HeapOf, Idle, Putting, Freeing
  <2>2. Sound(buckets') /\ HeapOf(buckets') = {}
    BY <2>1 DEF Sound, HeapOf
  <2> QED
    BY <1>1, <2>1, <2>2 DEF sm_new, IInv, Holds, Answers
<1>2. CASE new_buckets
  <2>1. buckets = NULL /\ heap = {map_mem}
    BY <1>2 DEF new_buckets, IInv, Holds, Idle, Putting, Freeing
  <2>2. CASE /\ heap' = heap \cup {buckets_mem} /\ step' = Idle
             /\ buckets' = [i \in 1 .. capacity |-> <<>>]
    <3>1. buckets' \in [1 .. capacity -> Bucket] /\ \A i \in 1 .. capacity : buckets'[i] = <<>>
      BY <2>2 DEF Bucket
    <3>2. Sound(buckets')
      BY <3>1 DEF Sound, Distinct, Fits
    <3>3. UsedOf(buckets') = {} /\ KeysOf(buckets') = {}
      BY <3>1 DEF PlacesOf, UsedOf, KeysOf, PairsOf
    <3>4. HeapOf(buckets') = {map_mem, buckets_mem}
      BY <3>1, <3>3, NotNull, NoMemory DEF HeapOf
    <3>5. heap' = {map_mem, buckets_mem}
      BY <2>1, <2>2
    <3> QED
      BY <2>2, <3>2, <3>4, <3>5 DEF IInv, Holds
  <2>3. CASE heap' = heap \ {map_mem} /\ step' = Idle /\ UNCHANGED buckets
    <3>1. heap' = {} /\ HeapOf(buckets') = {}
      BY <2>1, <2>3 DEF HeapOf
    <3> QED
      BY <2>1, <2>3, <3>1 DEF IInv, Holds, Sound
  <2> QED
    BY <1>2, <2>2, <2>3 DEF new_buckets, Answers
<1> QED
  BY <1>1, <1>2

LEMMA FreeStep ==
  ASSUME IInv, step.at = "free"
  PROVE  /\ step.i \in 1 .. capacity + 1 /\ step.j \in Nat \ {0}
         /\ step = [at |-> "free", i |-> step.i, j |-> step.j]
         /\ buckets \in [1 .. capacity -> Bucket] /\ buckets # NULL
         /\ heap = Memory(UsedFrom(buckets, step.i), KeysFrom(buckets, step.i, step.j))
<1>1. Freeing
  BY DEF IInv, Holds, Idle, Putting
<1>2. PICK i \in 1 .. capacity + 1, j \in Nat \ {0} :
         /\ step = [at |-> "free", i |-> i, j |-> j]
         /\ buckets # NULL
         /\ heap = Memory(UsedFrom(buckets, i), KeysFrom(buckets, i, j))
  BY <1>1 DEF Freeing
<1>3. step.i = i /\ step.j = j
  BY <1>2
<1>4. buckets \in [1 .. capacity -> Bucket]
  BY <1>2 DEF IInv, Sound
<1> QED
  BY <1>2, <1>3, <1>4

LEMMA DeleteIInv == IInv /\ (sm_delete \/ free_pair \/ free_pairs \/ free_map) => IInv'
<1> SUFFICES ASSUME IInv, sm_delete \/ free_pair \/ free_pairs \/ free_map PROVE IInv'
  OBVIOUS
<1>0. Sound(buckets)
  BY DEF IInv
<1>1. CASE sm_delete
  <2>1. step = Idle /\ heap = HeapOf(buckets) /\ UNCHANGED <<buckets, heap>>
    BY <1>1 DEF sm_delete, Between, IInv, Holds, Idle, Putting, Freeing
  <2>2. CASE buckets = NULL
    BY <1>1, <2>1, <2>2 DEF sm_delete, Answers, IInv, Holds
  <2>3. CASE buckets # NULL
    <3>1. buckets \in [1 .. capacity -> Bucket]
      BY <1>0, <2>3 DEF Sound
    <3>2. heap' = Memory(UsedFrom(buckets', 1), KeysFrom(buckets', 1, 1))
      BY <1>0, <2>1, <2>3, <3>1, FreeAll DEF HeapOf
    <3>3. step' = [at |-> "free", i |-> 1, j |-> 1] /\ 1 \in 1 .. capacity + 1
      BY <1>1, <2>3, MapAssumption DEF sm_delete
    <3>4. Freeing'
      BY <2>1, <2>3, <3>2, <3>3 DEF Freeing
    <3> QED
      BY <1>0, <2>1, <3>4 DEF IInv, Holds
  <2> QED
    BY <2>2, <2>3
<1>2. CASE free_pair
  <2> DEFINE i == step.i
             j == step.j
             k == buckets[i][j].key
  <2>1. /\ i \in 1 .. capacity + 1 /\ j \in Nat \ {0}
        /\ step = [at |-> "free", i |-> i, j |-> j]
        /\ buckets \in [1 .. capacity -> Bucket] /\ buckets # NULL
        /\ heap = Memory(UsedFrom(buckets, i), KeysFrom(buckets, i, j))
    BY <1>2, FreeStep DEF free_pair
  <2> HIDE DEF k
  <2>2. /\ i <= capacity /\ j <= Len(buckets[i]) /\ UNCHANGED buckets
        /\ heap' = heap \ {key_mem(k), value_mem(k)}
        /\ step' = [step EXCEPT !.j = @ + 1]
    BY <1>2 DEF free_pair, k
  <2>3. step' = [at |-> "free", i |-> i, j |-> j + 1]
    BY <2>1, <2>2
  <2>4. i \in 1 .. capacity
    BY <2>1, <2>2, MapAssumption
  <2> HIDE DEF i, j
  <2>5. KeysFrom(buckets, i, j + 1) = KeysFrom(buckets, i, j) \ {k}
    BY <1>0, <2>1, <2>2, <2>4, FreePair DEF k, i, j
  <2>6. heap' = Memory(UsedFrom(buckets', i), KeysFrom(buckets', i, j + 1))
    <3> DEFINE U == UsedFrom(buckets, i)
               K == KeysFrom(buckets, i, j)
    <3>1. heap = Memory(U, K)
      BY <2>1
    <3>2. UsedFrom(buckets', i) = U /\ KeysFrom(buckets', i, j + 1) = K \ {k}
      BY <2>2, <2>5
    <3> HIDE DEF U, K, k
    <3>3. Memory(U, K \ {k}) = Memory(U, K) \ {key_mem(k), value_mem(k)}
      BY MemoriesDiffer DEF Memory
    <3> QED
      BY <2>2, <3>1, <3>2, <3>3
  <2>7. j + 1 \in Nat \ {0}
    BY <2>1
  <2>8. Freeing'
    BY <2>1, <2>2, <2>3, <2>6, <2>7 DEF Freeing
  <2> QED
    BY <1>0, <2>2, <2>8 DEF IInv, Holds
<1>3. CASE free_pairs
  <2> DEFINE i == step.i
             j == step.j
  <2>1. /\ i \in 1 .. capacity + 1 /\ j \in Nat \ {0}
        /\ buckets \in [1 .. capacity -> Bucket] /\ buckets # NULL
        /\ heap = Memory(UsedFrom(buckets, i), KeysFrom(buckets, i, j))
    BY <1>3, FreeStep DEF free_pairs
  <2>2. /\ i <= capacity /\ j > Len(buckets[i]) /\ UNCHANGED buckets
        /\ heap' = heap \ {pairs_mem(i)}
        /\ step' = [at |-> "free", i |-> i + 1, j |-> 1]
    BY <1>3 DEF free_pairs
  <2>3. i \in 1 .. capacity /\ i + 1 \in 1 .. capacity + 1
    BY <2>1, <2>2, MapAssumption
  <2> HIDE DEF i, j
  <2>4. /\ KeysFrom(buckets, i + 1, 1) = KeysFrom(buckets, i, j)
        /\ UsedFrom(buckets, i + 1) = UsedFrom(buckets, i) \ {i}
    BY <1>0, <2>1, <2>2, <2>3, FreeBucket
  <2>5. heap' = Memory(UsedFrom(buckets', i + 1), KeysFrom(buckets', i + 1, 1))
    <3> DEFINE U == UsedFrom(buckets, i)
               K == KeysFrom(buckets, i, j)
    <3>1. heap = Memory(U, K)
      BY <2>1
    <3>2. UsedFrom(buckets', i + 1) = U \ {i} /\ KeysFrom(buckets', i + 1, 1) = K
      BY <2>2, <2>4
    <3> HIDE DEF U, K
    <3>3. Memory(U \ {i}, K) = Memory(U, K) \ {pairs_mem(i)}
      BY MemoriesDiffer DEF Memory
    <3> QED
      BY <2>2, <3>1, <3>2, <3>3
  <2>6. Freeing'
    BY <2>1, <2>2, <2>3, <2>5 DEF Freeing
  <2> QED
    BY <1>0, <2>2, <2>6 DEF IInv, Holds
<1>4. CASE free_map
  <2> DEFINE i == step.i
             j == step.j
  <2>1. /\ i \in 1 .. capacity + 1 /\ j \in Nat \ {0}
        /\ buckets \in [1 .. capacity -> Bucket]
        /\ heap = Memory(UsedFrom(buckets, i), KeysFrom(buckets, i, j))
    BY <1>4, FreeStep DEF free_map
  <2>2. /\ i > capacity /\ buckets' = NULL /\ heap' = heap \ {buckets_mem, map_mem}
        /\ step' = Idle
    BY <1>4 DEF free_map, Answers
  <2>3. i = capacity + 1
    BY <2>1, <2>2, MapAssumption
  <2> HIDE DEF i, j
  <2>4. heap' = {}
    BY <1>0, <2>1, <2>2, <2>3, FreedAll, NoMemory
  <2> QED
    BY <2>2, <2>4 DEF IInv, Sound, Holds, HeapOf
<1> QED
  BY <1>1, <1>2, <1>3, <1>4

\* A put of a key that is there.
LEMMA PutValueIInv ==
  ASSUME NEW key \in Key, NEW value \in Value
  PROVE  IInv /\ put_value(key, value) => IInv'
<1> SUFFICES ASSUME IInv, put_value(key, value) PROVE IInv'
  OBVIOUS
<1> DEFINE i == index(key)
           j == CHOOSE j \in get_pair(key) : TRUE
           old == Pair(key)
           size == IF Length[old.value] < Length[value] THEN Length[value] + 1 ELSE old.size
<1>1. /\ step = Idle /\ step' = Idle /\ heap = HeapOf(buckets) /\ UNCHANGED heap
      /\ get_pair(key) # {}
      /\ \/ UNCHANGED buckets
         \/ buckets' = [buckets EXCEPT ![i][j] = [key |-> key, value |-> value, size |-> size]]
  BY DEF put_value, Answers, Between, IInv, Holds, Idle, Putting, Freeing
<1>2. CASE UNCHANGED buckets
  BY <1>1, <1>2 DEF IInv, Holds
<1>3. CASE buckets' = [buckets EXCEPT ![i][j] = [key |-> key, value |-> value, size |-> size]]
  <2>2. buckets # NULL /\ j \in Found(buckets[i], key) /\ old = buckets[i][j]
    BY <1>1 DEF get_pair, Pair
  <2>3. buckets \in [1 .. capacity -> Bucket] /\ i \in 1 .. capacity
    BY <2>2, Index DEF IInv, Sound
  <2>4. j \in 1 .. Len(buckets[i]) /\ buckets[i][j].key = key
    <3> HIDE DEF j
    <3> QED
      BY <2>2, <2>3, SearchFinds DEF IInv
  <2>5. old \in PairType /\ Length[old.value] < old.size
    <3> HIDE DEF j, old
    <3>1. Fits(i, buckets[i]) /\ buckets[i] \in Bucket
      BY <2>2, <2>3 DEF IInv, Sound
    <3> QED
      BY <3>1, <2>2, <2>4 DEF Fits, Bucket
  <2>6. size \in Nat /\ Length[value] < size
    <3> HIDE DEF old
    <3>1. Length[value] \in Nat /\ Length[old.value] \in Nat /\ old.size \in Nat
      BY <2>5, MapAssumption DEF PairType
    <3> QED
      BY <3>1, <2>5
  <2> HIDE DEF i, j, size, old
  <2>7. buckets' = Replaced(buckets, i, j, value, size)
    BY <1>3, <2>4 DEF Replaced
  <2>8. /\ buckets' \in [1 .. capacity -> Bucket]
        /\ Sound(buckets')
        /\ SameLengths(buckets, buckets')
        /\ Revalued(buckets, buckets', i, j, value)
    <3>1. Sound(buckets)
      BY DEF IInv
    <3> QED
      BY <3>1, <2>3, <2>4, <2>6, <2>7, ReplacePair
  <2>9. KeysOf(buckets') = KeysOf(buckets) /\ UsedOf(buckets') = UsedOf(buckets)
    BY <2>3, <2>8, ReplaceKeys DEF IInv
  <2>10. buckets' # NULL
    BY <2>8, NotNull
  <2> QED
    BY <1>1, <2>2, <2>8, <2>9, <2>10 DEF IInv, Holds, HeapOf
<1> QED
  BY <1>1, <1>2, <1>3

\* A put of one that is not, allocation after allocation.
LEMMA NewKeyIInv ==
  ASSUME NEW key \in Key, NEW value \in Value
  PROVE  IInv /\ new_key(key, value) => IInv'
<1> SUFFICES ASSUME IInv, new_key(key, value) PROVE IInv'
  OBVIOUS
<1>1. /\ step = Idle /\ heap = HeapOf(buckets) /\ UNCHANGED buckets
      /\ buckets # NULL /\ Found(buckets[index(key)], key) = {}
  BY DEF new_key, get_pair, Between, IInv, Holds, Idle, Putting, Freeing
<1>2. CASE UNCHANGED heap /\ step' = Idle
  BY <1>1, <1>2 DEF IInv, Holds
<1>3. CASE heap' = heap \cup {key_mem(key)} /\ step' = [at |-> "value", key |-> key, value |-> value]
  <2>1. Putting("value", FALSE)'
    BY <1>1, <1>3 DEF Putting
  <2> QED
    BY <1>1, <2>1 DEF IInv, Holds
<1> QED
  BY <1>2, <1>3 DEF new_key, Answers

\* Memory for a key or value that is not in the map is no part of the map's.
LEMMA NotYetThere ==
  ASSUME IInv, buckets # NULL, NEW key \in Key, Found(buckets[index(key)], key) = {}
  PROVE  key_mem(key) \notin HeapOf(buckets) /\ value_mem(key) \notin HeapOf(buckets)
<1>1. buckets \in [1 .. capacity -> Bucket] /\ Sound(buckets)
  BY DEF IInv, Sound
<1>2. key \notin KeysOf(buckets)
  BY <1>1, SearchFinds
<1> QED
  BY <1>2, KeyMemory DEF HeapOf

LEMMA NewValueIInv == IInv /\ new_value => IInv'
<1> SUFFICES ASSUME IInv, new_value PROVE IInv'
  OBVIOUS
<1>1. PICK key \in Key, value \in Value :
         /\ step = [at |-> "value", key |-> key, value |-> value]
         /\ buckets # NULL /\ Found(buckets[index(key)], key) = {}
         /\ heap = HeapOf(buckets) \cup {key_mem(key)}
  BY DEF new_value, IInv, Holds, Idle, Putting, Freeing
<1>2. step.key = key /\ [step EXCEPT !.at = "pairs"] = [at |-> "pairs", key |-> key, value |-> value]
  BY <1>1
<1>3. UNCHANGED buckets
  BY DEF new_value
<1>4. CASE heap' = heap \cup {value_mem(step.key)} /\ step' = [step EXCEPT !.at = "pairs"]
  <2>1. Putting("pairs", TRUE)'
    BY <1>1, <1>2, <1>3, <1>4 DEF Putting
  <2> QED
    BY <1>3, <2>1 DEF IInv, Holds
<1>5. CASE heap' = heap \ {key_mem(step.key)} /\ step' = Idle
  <2>1. heap' = HeapOf(buckets)
    BY <1>1, <1>2, <1>5, NotYetThere
  <2> QED
    BY <1>3, <1>5, <2>1 DEF IInv, Holds
<1> QED
  BY <1>4, <1>5 DEF new_value, Answers

LEMMA PairsStep ==
  ASSUME IInv, step.at = "pairs"
  PROVE  /\ step.key \in Key /\ step.value \in Value
         /\ buckets # NULL /\ buckets \in [1 .. capacity -> Bucket] /\ Sound(buckets)
         /\ Found(buckets[index(step.key)], step.key) = {}
         /\ heap = HeapOf(buckets) \cup {key_mem(step.key), value_mem(step.key)}
<1>1. PICK key \in Key, value \in Value :
         /\ step = [at |-> "pairs", key |-> key, value |-> value]
         /\ buckets # NULL /\ Found(buckets[index(key)], key) = {}
         /\ heap = HeapOf(buckets) \cup {key_mem(key)} \cup {value_mem(key)}
  BY DEF IInv, Holds, Idle, Putting, Freeing
<1>2. step.key = key /\ step.value = value
  BY <1>1
<1> QED
  BY <1>1, <1>2 DEF IInv, Sound

LEMMA NewPairsIInv == IInv /\ (first_pair \/ more_pairs) => IInv'
<1> SUFFICES ASSUME IInv, first_pair \/ more_pairs PROVE IInv'
  OBVIOUS
<1> DEFINE key == step.key
           value == step.value
           i == index(key)
<1>1. /\ key \in Key /\ value \in Value
      /\ buckets # NULL /\ buckets \in [1 .. capacity -> Bucket] /\ Sound(buckets)
      /\ Found(buckets[i], key) = {}
      /\ heap = HeapOf(buckets) \cup {key_mem(key), value_mem(key)}
  BY PairsStep DEF first_pair, more_pairs
<1>2. \/ /\ \/ heap' = heap \cup {pairs_mem(i)}
            \/ heap' = heap /\ buckets[i] # <<>>
         /\ buckets' = Appended(buckets, key, value)
         /\ step' = Idle
      \/ /\ heap' = heap \ {key_mem(key), value_mem(key)}
         /\ UNCHANGED buckets
         /\ step' = Idle
  BY DEF first_pair, more_pairs, last_pair, put_failed, Answers, Appended
<1> HIDE DEF key, value
<1>3. CASE /\ \/ heap' = heap \cup {pairs_mem(i)}
              \/ heap' = heap /\ buckets[i] # <<>>
           /\ buckets' = Appended(buckets, key, value)
           /\ step' = Idle
  <2>0. i \in 1 .. capacity
    BY <1>1, Index
  <2>1. /\ buckets' \in [1 .. capacity -> Bucket]
        /\ Sound(buckets')
        /\ Grown(buckets, buckets', i)
        /\ Kept(buckets, buckets')
        /\ buckets'[i][Len(buckets[i]) + 1] =
              [key |-> key, value |-> value, size |-> Length[value] + 1]
    BY <1>1, <1>3, AppendPair
  <2>2. buckets'[i][Len(buckets[i]) + 1].key = key
    BY <2>1
  <2>3. HeapOf(buckets')
           = HeapOf(buckets) \cup {key_mem(key), value_mem(key)} \cup {pairs_mem(i)}
    BY <1>1, <2>1, <2>2, AppendKeys
  <2> HIDE DEF i
  <2>4. buckets[i] # <<>> => pairs_mem(i) \in HeapOf(buckets)
    BY <1>1, <2>0 DEF HeapOf, Memory, UsedOf
  <2>5. heap' = HeapOf(buckets')
    BY <1>1, <1>3, <2>3, <2>4
  <2> QED
    BY <1>3, <2>1, <2>5 DEF IInv, Holds
<1>4. CASE /\ heap' = heap \ {key_mem(key), value_mem(key)}
           /\ UNCHANGED buckets
           /\ step' = Idle
  <2>1. heap' = HeapOf(buckets)
    BY <1>1, <1>4, NotYetThere
  <2> QED
    BY <1>1, <1>4, <2>1 DEF IInv, Holds
<1> QED
  BY <1>2, <1>3, <1>4

LEMMA ReadIInv == IInv /\ UNCHANGED <<buckets, heap, step>> => IInv'
BY DEF IInv, Holds, Putting, Freeing

LEMMA NextIInv == IInv /\ [Next]_vars => IInv'
<1> SUFFICES ASSUME IInv, [Next]_vars PROVE IInv'
  OBVIOUS
<1>1. CASE sm_new \/ new_buckets
  BY <1>1, NewIInv
<1>2. CASE sm_delete \/ free_pair \/ free_pairs \/ free_map
  BY <1>2, DeleteIInv
<1>3. CASE put_null
  <2>1. step = Idle /\ UNCHANGED <<buckets, heap, step>>
    BY <1>3 DEF put_null, Between, Answers
  <2> QED
    BY <2>1, ReadIInv
<1>4. CASE new_value
  BY <1>4, NewValueIInv
<1>5. CASE first_pair \/ more_pairs
  BY <1>5, NewPairsIInv
<1>6. ASSUME NEW key \in Key, NEW value \in Value, put_value(key, value) \/ new_key(key, value)
      PROVE  IInv'
  BY <1>6, PutValueIInv, NewKeyIInv
<1>7. CASE UNCHANGED <<buckets, heap, step>>
  BY <1>7, ReadIInv
<1> QED
  BY <1>1, <1>2, <1>3, <1>4, <1>5, <1>6, <1>7
  DEF Next, vars, Reads, sm_get_count, sm_enum, sm_get, sm_get_size, sm_exists
\* However many allocations fail, each key has at most one pair, in the bucket
\* it hashes to, and the memory of a value has room for it (strmap.c:218-316).
THEOREM MapWellFormed == Spec => []WellFormed
<1>1. IInv => WellFormed
  BY SoundIsWellFormed DEF IInv
<1> QED
  BY <1>1, InitIInv, NextIInv, PTL DEF Spec

LEMMA NothingLeaks == IInv => NoLeak
<1> SUFFICES ASSUME IInv, step = Idle PROVE NoLeak
  BY DEF NoLeak, Between
<1>1. heap = HeapOf(buckets)
  BY DEF IInv, Holds, Idle, Putting, Freeing
<1>2. Places = PlacesOf(buckets) /\ Pairs = PairsOf(buckets)
  BY DEF Places, PlacesOf, Pairs, PairsOf
<1>3. /\ {key_mem(pair.key) : pair \in Pairs} = {key_mem(k) : k \in KeysOf(buckets)}
      /\ {value_mem(pair.key) : pair \in Pairs} = {value_mem(k) : k \in KeysOf(buckets)}
  BY <1>2 DEF KeysOf
<1> QED
  BY <1>1, <1>3 DEF NoLeak, HeapOf, Memory, UsedOf

\* Whichever allocation of sm_new or sm_put fails, what was allocated before it
\* is freed (strmap.c:60-76, 202-232); between operations the live allocations
\* are exactly those of the map, its buckets and pairs, and none after sm_delete.
THEOREM MapLosesNothing == Spec => []NoLeak
BY NothingLeaks, InitIInv, NextIInv, PTL DEF Spec

LEMMA PassedOnce == IInv => FreedOnce
<1> SUFFICES ASSUME IInv PROVE FreedOnce
  OBVIOUS
<1>1. ASSUME step.at = "value" PROVE key_mem(step.key) \in heap
  BY <1>1 DEF IInv, Holds, Idle, Putting, Freeing
<1>2. ASSUME step.at = "pairs" PROVE {key_mem(step.key), value_mem(step.key)} \subseteq heap
  BY <1>2, PairsStep
<1>3. ASSUME step.at = "free" PROVE {map_mem, buckets_mem} \subseteq heap
  BY <1>3, FreeStep DEF Memory
<1>4. ASSUME step.at = "free", step.i <= capacity
      PROVE  /\ buckets[step.i] # <<>> => pairs_mem(step.i) \in heap
             /\ \A j \in step.j .. Len(buckets[step.i]) :
                   {key_mem(buckets[step.i][j].key), value_mem(buckets[step.i][j].key)}
                   \subseteq heap
  <2> DEFINE i == step.i
  <2>1. /\ i \in 1 .. capacity + 1 /\ step.j \in Nat \ {0}
        /\ buckets \in [1 .. capacity -> Bucket] /\ Sound(buckets)
        /\ heap = Memory(UsedFrom(buckets, i), KeysFrom(buckets, i, step.j))
    BY <1>4, FreeStep DEF IInv
  <2>2. i \in 1 .. capacity /\ Len(buckets[i]) \in Nat
    BY <1>4, <2>1, MapAssumption DEF Bucket
  <2> HIDE DEF i
  <2>3. buckets[i] # <<>> => pairs_mem(i) \in heap
    BY <2>1, <2>2 DEF UsedFrom, UsedOf, Memory
  <2>4. ASSUME NEW j \in step.j .. Len(buckets[i])
        PROVE  {key_mem(buckets[i][j].key), value_mem(buckets[i][j].key)} \subseteq heap
    <3> DEFINE here == <<i, j>>
    <3>0. j \in 1 .. Len(buckets[i]) /\ j >= step.j
      BY <2>1, <2>2, <2>4
    <3>1. here \in PlacesOf(buckets) /\ here[1] = i /\ here[2] >= step.j
      BY <2>1, <2>2, <3>0, PlacesAre
    <3>2. buckets[here[1]][here[2]].key = buckets[i][j].key
      OBVIOUS
    <3> HIDE DEF here
    <3>3. buckets[i][j].key \in KeysFrom(buckets, i, step.j)
      BY <3>1, <3>2 DEF KeysFrom
    <3> QED
      BY <2>1, <3>3 DEF Memory
  <2> QED
    BY <2>3, <2>4 DEF i
<1> QED
  BY <1>1, <1>2, <1>3, <1>4 DEF FreedOnce

\* sm_delete frees no allocation twice and reads no pair that is freed
\* (strmap.c:78-107), and what a put gives back it still holds.
THEOREM MapFreesOnce == Spec => []FreedOnce
BY PassedOnce, InitIInv, NextIInv, PTL DEF Spec

(***************************************************************************)
(* The map implements the dictionary of strmap.h                           *)
(***************************************************************************)
LEMMA Mapped ==
  /\ Associations = DictOf(buckets)
  /\ Associations' = DictOf(buckets')
<1>1. Associations = DictOf(buckets)
  BY Zenon DEF Associations, Pairs, Places, DictOf, KeysOf, PairsOf, PlacesOf
<1>2. Associations' = DictOf(buckets')
  BY Zenon DEF Associations, Pairs, Places, DictOf, KeysOf, PairsOf, PlacesOf
<1> QED
  BY <1>1, <1>2

LEMMA EmptyDict ==
  ASSUME NEW B, PlacesOf(B) = {}
  PROVE  DictOf(B) = Dict!Nothing
<1>1. PairsOf(B) = {}
  BY DEF PairsOf
<1>2. KeysOf(B) = {}
  BY <1>1 DEF KeysOf
<1> QED
  BY <1>2 DEF DictOf, Dict!Nothing

\* No pairs, no associations.
LEMMA InitDict == Init => Dict!Init
<1> SUFFICES ASSUME Init PROVE Dict!Init
  OBVIOUS
<1>1. buckets = NULL /\ answer = Answer("none", 0)
  BY DEF Init
<1>2. Associations = Dict!Nothing
  BY <1>1, Mapped, NullIsEmpty, EmptyDict
<1> QED
  BY <1>1, <1>2 DEF Dict!Init, Dict!Answer, Answer

\* A step that leaves the buckets and the answer is none of the dictionary.
LEMMA Stutters == UNCHANGED <<buckets, answer>> => UNCHANGED Dict!vars
BY Mapped DEF Dict!vars

LEMMA NewDict == IInv /\ (sm_new \/ new_buckets) => Dict!New \/ UNCHANGED Dict!vars
<1> SUFFICES ASSUME IInv, sm_new \/ new_buckets PROVE Dict!New \/ UNCHANGED Dict!vars
  OBVIOUS
<1>0. buckets = NULL
  BY DEF sm_new, new_buckets, IInv, Holds, Idle, Putting, Freeing
<1>1. Associations = Dict!Nothing
  BY <1>0, Mapped, NullIsEmpty, EmptyDict
<1>2. CASE buckets' = [i \in 1 .. capacity |-> <<>>] /\ answer' = Answer("new", 1)
  <2>1. buckets' \in [1 .. capacity -> Bucket] /\ \A i \in 1 .. capacity : buckets'[i] = <<>>
    BY <1>2 DEF Bucket
  <2>2. buckets' # NULL
    BY <2>1, NotNull
  <2>3. PlacesOf(buckets') = {}
    BY <2>1 DEF PlacesOf
  <2>4. Associations' = Dict!Nothing
    BY <2>3, Mapped, EmptyDict
  <2> QED
    BY <1>0, <1>1, <1>2, <2>2, <2>4 DEF Dict!New, Dict!Answer, Answer
<1>3. CASE UNCHANGED buckets /\ answer' = Answer("new", 0)
  BY <1>0, <1>1, <1>3, Mapped DEF Dict!New, Dict!Answer, Answer
<1>4. CASE UNCHANGED <<buckets, answer>>
  BY <1>4, Stutters
<1> QED
  BY <1>2, <1>3, <1>4 DEF sm_new, new_buckets, Answers

LEMMA DeleteDict ==
  sm_delete \/ free_pair \/ free_pairs \/ free_map => Dict!Delete \/ UNCHANGED Dict!vars
<1> SUFFICES ASSUME sm_delete \/ free_pair \/ free_pairs \/ free_map
             PROVE  Dict!Delete \/ UNCHANGED Dict!vars
  OBVIOUS
<1>1. CASE buckets' = NULL /\ answer' = Answer("delete", 0)
  <2>1. Associations' = Dict!Nothing
    BY <1>1, Mapped, NullIsEmpty, EmptyDict
  <2> QED
    BY <1>1, <2>1 DEF Dict!Delete, Dict!Answer, Answer
<1>2. CASE UNCHANGED <<buckets, answer>>
  BY <1>2, Stutters
<1> QED
  BY <1>1, <1>2 DEF sm_delete, free_pair, free_pairs, free_map, Answers

\* The search of a map that is there, in the words of the dictionary.
LEMMA Search ==
  ASSUME IInv, NEW key \in Key
  PROVE  /\ key \in DOMAIN Associations <=> get_pair(key) # {}
         /\ get_pair(key) # {} => Associations[key] = Pair(key).value
<1>1. CASE buckets = NULL
  <2>1. Associations = Dict!Nothing
    BY <1>1, Mapped, NullIsEmpty, EmptyDict
  <2> QED
    BY <1>1, <2>1 DEF get_pair, Dict!Nothing
<1>2. CASE buckets # NULL
  <2>1. buckets \in [1 .. capacity -> Bucket] /\ Sound(buckets)
    BY <1>2 DEF IInv, Sound
  <2>2. DOMAIN Associations = KeysOf(buckets)
    BY <2>1, Mapped, DictOfMap
  <2>3. get_pair(key) = Found(buckets[index(key)], key)
    BY <1>2 DEF get_pair
  <2>4. ASSUME get_pair(key) # {}
        PROVE  Associations[key] = Pair(key).value
    <3> DEFINE j == CHOOSE j \in get_pair(key) : TRUE
    <3>1. j \in Found(buckets[index(key)], key) /\ Pair(key) = buckets[index(key)][j]
      BY <2>3, <2>4 DEF Pair
    <3> HIDE DEF j
    <3>2. DictOf(buckets)[key] = buckets[index(key)][j].value
      BY <2>1, <3>1, SearchFinds
    <3> QED
      BY <3>1, <3>2, Mapped
  <2> QED
    BY <2>1, <2>2, <2>3, <2>4, SearchFinds
<1> QED
  BY <1>1, <1>2

LEMMA ReadDict ==
  ASSUME IInv, NEW key \in Key
  PROVE  /\ \A room \in Room : sm_get(key, room) => Dict!Get(key, room)
         /\ sm_get_size(key) => Dict!GetSize(key)
         /\ sm_exists(key) => Dict!Exists(key)
<1>1. UNCHANGED buckets => UNCHANGED <<Associations, buckets # NULL>>
  BY Mapped
<1>2. \A room \in Room : sm_get(key, room) => Dict!Get(key, room)
  BY <1>1, Search DEF sm_get, Reads, Dict!Get, Answer, Dict!Answer
<1>3. sm_get_size(key) => Dict!GetSize(key)
  BY <1>1, Search DEF sm_get_size, Reads, Dict!GetSize, Answer, Dict!Answer
<1>4. sm_exists(key) => Dict!Exists(key)
  BY <1>1, Search DEF sm_exists, Reads, Dict!Exists, Answer, Dict!Answer
<1> QED
  BY <1>2, <1>3, <1>4

\* With a value put in its place, or a pair at the end of its bucket, the
\* dictionary has the new association beside the others.
With(D, key, value) ==
    [k \in DOMAIN D \cup {key} |-> IF k = key THEN value ELSE D[k]]

LEMMA ReplaceDict ==
  ASSUME NEW B \in [1 .. capacity -> Bucket], Sound(B),
         NEW C \in [1 .. capacity -> Bucket], Sound(C), SameLengths(B, C),
         NEW i \in 1 .. capacity, NEW j \in 1 .. Len(B[i]), NEW value \in Value,
         Revalued(B, C, i, j, value)
  PROVE  DictOf(C) = With(DictOf(B), B[i][j].key, value)
<1> DEFINE key == B[i][j].key
           At(p) == B[p[1]][p[2]]
<1>1. PlacesOf(C) = PlacesOf(B)
  BY ReplacePlaces
<1>2. \A p \in PlacesOf(B) :
         /\ p = <<p[1], p[2]>>
         /\ C[p[1]][p[2]].key = At(p).key
         /\ C[p[1]][p[2]].value = IF p = <<i, j>> THEN value ELSE At(p).value
  <2> SUFFICES ASSUME NEW p \in PlacesOf(B)
               PROVE  /\ p = <<p[1], p[2]>>
                      /\ C[p[1]][p[2]].key = At(p).key
                      /\ C[p[1]][p[2]].value = IF p = <<i, j>> THEN value ELSE At(p).value
    OBVIOUS
  <2>1. p = <<p[1], p[2]>> /\ p[1] \in 1 .. capacity /\ p[2] \in 1 .. Len(B[p[1]])
    BY PlacesAre
  <2>2. p = <<i, j>> <=> p[1] = i /\ p[2] = j
    BY <2>1
  <2> QED
    BY <2>1, <2>2 DEF Revalued
<1>3. <<i, j>> \in PlacesOf(B)
  BY PlacesAre
<1>4. key \in KeysOf(B)
  <2> DEFINE p == <<i, j>>
  <2>1. p \in PlacesOf(B) /\ p[1] = i /\ p[2] = j
    BY <1>3
  <2> HIDE DEF p
  <2>2. B[p[1]][p[2]].key \in KeysOf(B)
    BY <2>1, DictOfMap
  <2> QED
    BY <2>1, <2>2
<1>5. KeysOf(C) = KeysOf(B)
  <2>1. ASSUME NEW k \in KeysOf(C) PROVE k \in KeysOf(B)
    <3>1. PICK p \in PlacesOf(C) : C[p[1]][p[2]].key = k
      BY <2>1, DictOfMap
    <3>2. p \in PlacesOf(B) /\ B[p[1]][p[2]].key = k
      BY <1>1, <1>2, <3>1
    <3> QED
      BY <3>2, DictOfMap
  <2>2. ASSUME NEW k \in KeysOf(B) PROVE k \in KeysOf(C)
    <3>1. PICK p \in PlacesOf(B) : B[p[1]][p[2]].key = k
      BY <2>2, DictOfMap
    <3>2. p \in PlacesOf(C) /\ C[p[1]][p[2]].key = k
      BY <1>1, <1>2, <3>1
    <3> QED
      BY <3>2, DictOfMap
  <2> QED
    BY <2>1, <2>2
<1>6. ASSUME NEW k \in KeysOf(B)
      PROVE  DictOf(C)[k] = IF k = key THEN value ELSE DictOf(B)[k]
  <2>1. PICK p \in PlacesOf(B) : B[p[1]][p[2]].key = k
    BY <1>6, DictOfMap
  <2>2. DictOf(B)[k] = B[p[1]][p[2]].value
    BY <2>1, DictOfMap
  <2>3. p \in PlacesOf(C) /\ C[p[1]][p[2]].key = k
    BY <1>1, <1>2, <2>1
  <2>4. DictOf(C)[k] = C[p[1]][p[2]].value
    BY <2>3, DictOfMap
  <2>5. k = key <=> p = <<i, j>>
    <3> DEFINE q == <<i, j>>
    <3>1. q \in PlacesOf(B) /\ q[1] = i /\ q[2] = j
      BY <1>3
    <3> HIDE DEF q
    <3>2. B[q[1]][q[2]].key = key
      BY <3>1
    <3>3. k = key => p = q
      BY <2>1, <3>1, <3>2, OnePlace
    <3>4. p = q => k = key
      BY <2>1, <3>2
    <3> QED
      BY <3>3, <3>4 DEF q
  <2> QED
    BY <1>2, <2>2, <2>4, <2>5
<1>7. DOMAIN DictOf(C) = KeysOf(C) /\ DOMAIN DictOf(B) = KeysOf(B)
  BY DictOfMap
<1>8. DictOf(C) = [k \in KeysOf(B) |-> DictOf(C)[k]]
  BY <1>5 DEF DictOf
<1>9. DOMAIN DictOf(B) \cup {key} = KeysOf(B)
  BY <1>4, <1>7
<1> HIDE DEF key
<1>10. With(DictOf(B), key, value) =
         [k \in KeysOf(B) |-> IF k = key THEN value ELSE DictOf(B)[k]]
  BY <1>9 DEF With
<1>11. DictOf(C) = With(DictOf(B), key, value)
  BY <1>6, <1>8, <1>10
<1> QED
  BY <1>11 DEF key

LEMMA AppendDict ==
  ASSUME NEW B \in [1 .. capacity -> Bucket], Sound(B),
         NEW C \in [1 .. capacity -> Bucket], Sound(C),
         NEW key \in Key, NEW value \in Value, Grown(B, C, index(key)),
         Kept(B, C),
         C[index(key)][Len(B[index(key)]) + 1].key = key,
         C[index(key)][Len(B[index(key)]) + 1].value = value,
         Found(B[index(key)], key) = {}
  PROVE  DictOf(C) = With(DictOf(B), key, value)
<1> DEFINE i == index(key)
           new == <<i, Len(B[i]) + 1>>
<1>1. i \in 1 .. capacity
  BY Index
<1>2. PlacesOf(C) = PlacesOf(B) \cup {new}
  <2>1. \A h \in 1 .. capacity :
           Grown(B, C, h) => PlacesOf(C) = PlacesOf(B) \cup {<<h, Len(B[h]) + 1>>}
    BY AppendPlaces
  <2> QED
    BY <1>1, <2>1
<1>3. new[1] = i /\ new[2] = Len(B[i]) + 1
  OBVIOUS
<1> HIDE DEF new
<1>4. C[new[1]][new[2]].key = key /\ C[new[1]][new[2]].value = value
  BY <1>3
<1>5. \A p \in PlacesOf(B) : p \in PlacesOf(C) /\ C[p[1]][p[2]] = B[p[1]][p[2]]
  <2> SUFFICES ASSUME NEW p \in PlacesOf(B)
               PROVE  p \in PlacesOf(C) /\ C[p[1]][p[2]] = B[p[1]][p[2]]
    OBVIOUS
  <2>1. p[1] \in 1 .. capacity /\ p[2] \in 1 .. Len(B[p[1]])
    BY PlacesAre
  <2> QED
    BY <1>2, <2>1 DEF Kept
<1>6. key \notin KeysOf(B)
  BY SearchFinds
<1>7. KeysOf(C) = KeysOf(B) \cup {key}
  <2>1. ASSUME NEW k \in KeysOf(C) PROVE k \in KeysOf(B) \cup {key}
    <3>1. PICK p \in PlacesOf(C) : C[p[1]][p[2]].key = k
      BY <2>1, DictOfMap
    <3>2. CASE p = new
      BY <3>1, <3>2, <1>4
    <3>3. CASE p \in PlacesOf(B)
      <4>1. B[p[1]][p[2]].key = k
        BY <3>1, <3>3, <1>5
      <4> QED
        BY <4>1, <3>3, DictOfMap
    <3> QED
      BY <1>2, <3>2, <3>3
  <2>2. ASSUME NEW k \in KeysOf(B) PROVE k \in KeysOf(C)
    <3>1. PICK p \in PlacesOf(B) : B[p[1]][p[2]].key = k
      BY <2>2, DictOfMap
    <3>2. p \in PlacesOf(C) /\ C[p[1]][p[2]].key = k
      BY <1>5, <3>1
    <3> QED
      BY <3>2, DictOfMap
  <2>3. key \in KeysOf(C)
    BY <1>2, <1>4, DictOfMap
  <2> QED
    BY <2>1, <2>2, <2>3
<1>8. DictOf(C)[key] = value
  <2>1. DictOf(C)[C[new[1]][new[2]].key] = C[new[1]][new[2]].value
    BY <1>2, DictOfMap
  <2> QED
    BY <1>4, <2>1
<1>9. ASSUME NEW k \in KeysOf(B) PROVE DictOf(C)[k] = DictOf(B)[k]
  <2>1. PICK p \in PlacesOf(B) : B[p[1]][p[2]].key = k
    BY <1>9, DictOfMap
  <2>2. DictOf(B)[k] = B[p[1]][p[2]].value
    BY <2>1, DictOfMap
  <2>3. p \in PlacesOf(C) /\ C[p[1]][p[2]] = B[p[1]][p[2]]
    BY <1>5
  <2>4. DictOf(C)[C[p[1]][p[2]].key] = C[p[1]][p[2]].value
    BY <2>3, DictOfMap
  <2> QED
    BY <2>1, <2>2, <2>3, <2>4
<1>10. DOMAIN DictOf(B) = KeysOf(B)
  BY DictOfMap
<1>11. DictOf(C) = [k \in KeysOf(B) \cup {key} |-> DictOf(C)[k]]
  BY <1>7 DEF DictOf
<1>12. With(DictOf(B), key, value) =
          [k \in KeysOf(B) \cup {key} |-> IF k = key THEN value ELSE DictOf(B)[k]]
  BY <1>10 DEF With
<1> QED
  BY <1>6, <1>8, <1>9, <1>11, <1>12

LEMMA PutDict ==
  ASSUME IInv, IInv', NEW key \in Key, NEW value \in Value,
         \/ UNCHANGED buckets /\ answer' = Answer("put", 0)
         \/ /\ buckets \in [1 .. capacity -> Bucket] /\ buckets' \in [1 .. capacity -> Bucket]
            /\ DictOf(buckets') = With(DictOf(buckets), key, value) /\ answer' = Answer("put", 1)
  PROVE  Dict!Put(key, value)
<1>1. CASE UNCHANGED buckets /\ answer' = Answer("put", 0)
  BY <1>1, Mapped DEF Dict!Put, Dict!Answer, Answer
<1>2. ASSUME buckets \in [1 .. capacity -> Bucket], buckets' \in [1 .. capacity -> Bucket],
             DictOf(buckets') = With(DictOf(buckets), key, value), answer' = Answer("put", 1)
      PROVE  Dict!Put(key, value)
  <2>1. buckets # NULL /\ buckets' # NULL
    BY <1>2, NotNull
  <2>2. Associations' = With(Associations, key, value)
    BY <1>2, Mapped
  <2> QED
    BY <1>2, <2>1, <2>2 DEF Dict!Put, Dict!Answer, Answer, With
<1> QED
  BY <1>1, <1>2

LEMMA PutValueDict ==
  ASSUME NEW key \in Key, NEW value \in Value
  PROVE  IInv /\ IInv' /\ put_value(key, value) => Dict!Put(key, value)
<1> SUFFICES ASSUME IInv, IInv', put_value(key, value) PROVE Dict!Put(key, value)
  OBVIOUS
<1>0. Sound(buckets) /\ Sound(buckets')
  BY DEF IInv
<1>1. CASE UNCHANGED buckets /\ answer' = Answer("put", 0)
  BY <1>1, PutDict
<1>3. CASE put_value(key, value) /\ answer' = Answer("put", 1)
  <2> DEFINE i == index(key)
             j == CHOOSE j \in get_pair(key) : TRUE
             old == Pair(key)
             size == IF Length[old.value] < Length[value] THEN Length[value] + 1 ELSE old.size
  <2>1. /\ get_pair(key) # {}
        /\ buckets' = [buckets EXCEPT ![i][j] = [key |-> key, value |-> value, size |-> size]]
    BY <1>3 DEF put_value, Answers, Answer
  <2>2. buckets # NULL /\ j \in Found(buckets[i], key) /\ old = buckets[i][j]
    BY <2>1 DEF get_pair, Pair
  <2>3. buckets \in [1 .. capacity -> Bucket] /\ i \in 1 .. capacity
    BY <2>2, Index DEF IInv, Sound
  <2>4. j \in 1 .. Len(buckets[i]) /\ buckets[i][j].key = key
    <3> HIDE DEF j
    <3> QED
      BY <2>2, <2>3, SearchFinds DEF IInv
  <2>5. size \in Nat /\ Length[value] < size
    <3> HIDE DEF j, old
    <3>1. Fits(i, buckets[i]) /\ buckets[i] \in Bucket
      BY <2>2, <2>3 DEF IInv, Sound
    <3>2. old \in PairType /\ Length[old.value] < old.size
      BY <3>1, <2>2, <2>4 DEF Fits, Bucket
    <3>3. Length[value] \in Nat /\ Length[old.value] \in Nat /\ old.size \in Nat
      BY <3>2, MapAssumption DEF PairType
    <3> QED
      BY <3>2, <3>3
  <2> HIDE DEF i, j, size, old
  <2>6. buckets' = Replaced(buckets, i, j, value, size)
    BY <2>1, <2>4 DEF Replaced
  <2>7. /\ buckets' \in [1 .. capacity -> Bucket]
        /\ SameLengths(buckets, buckets')
        /\ Revalued(buckets, buckets', i, j, value)
    BY <1>0, <2>3, <2>4, <2>5, <2>6, ReplacePair
  <2>8. DictOf(buckets') = With(DictOf(buckets), key, value)
    <3>1. DictOf(buckets') = With(DictOf(buckets), buckets[i][j].key, value)
      BY <1>0, <2>3, <2>4, <2>7, ReplaceDict
    <3> QED
      BY <2>4, <3>1
  <2> QED
    BY <1>3, <2>3, <2>7, <2>8, PutDict
<1> QED
  BY <1>1, <1>3 DEF put_value, Answers

LEMMA NewPairsDict ==
  IInv /\ IInv' /\ (first_pair \/ more_pairs) => \E key \in Key, value \in Value : Dict!Put(key, value)
<1> SUFFICES ASSUME IInv, IInv', first_pair \/ more_pairs
             PROVE  Dict!Put(step.key, step.value) /\ step.key \in Key /\ step.value \in Value
  OBVIOUS
<1> DEFINE key == step.key
           value == step.value
           i == index(key)
<1>1. /\ key \in Key /\ value \in Value
      /\ buckets \in [1 .. capacity -> Bucket] /\ Sound(buckets)
      /\ Found(buckets[i], key) = {}
  BY PairsStep DEF first_pair, more_pairs
<1>2. \/ buckets' = Appended(buckets, key, value) /\ answer' = Answer("put", 1)
      \/ UNCHANGED buckets /\ answer' = Answer("put", 0)
  BY DEF first_pair, more_pairs, last_pair, put_failed, Answers, Appended
<1>3. Sound(buckets')
  BY DEF IInv
<1> HIDE DEF key, value
<1>4. CASE UNCHANGED buckets /\ answer' = Answer("put", 0)
  <2>1. Dict!Put(key, value)
    BY <1>1, <1>4, PutDict
  <2> QED
    BY <1>1, <2>1 DEF key, value
<1>5. CASE buckets' = Appended(buckets, key, value) /\ answer' = Answer("put", 1)
  <2>1. i \in 1 .. capacity
    BY <1>1, Index
  <2>2. /\ buckets' \in [1 .. capacity -> Bucket]
        /\ Grown(buckets, buckets', i)
        /\ Kept(buckets, buckets')
        /\ buckets'[i][Len(buckets[i]) + 1] =
              [key |-> key, value |-> value, size |-> Length[value] + 1]
    BY <1>1, <1>5, AppendPair
  <2>3. /\ buckets'[i][Len(buckets[i]) + 1].key = key
        /\ buckets'[i][Len(buckets[i]) + 1].value = value
    BY <2>2
  <2>4. DictOf(buckets') = With(DictOf(buckets), key, value)
    <3>1. \A C \in [1 .. capacity -> Bucket] :
             Sound(C) /\ Grown(buckets, C, i) /\ Kept(buckets, C)
             /\ C[i][Len(buckets[i]) + 1].key = key
             /\ C[i][Len(buckets[i]) + 1].value = value
             => DictOf(C) = With(DictOf(buckets), key, value)
      BY <1>1, <2>1, AppendDict
    <3> QED
      BY <1>3, <2>2, <2>3, <3>1
  <2>5. Dict!Put(key, value)
    BY <1>1, <1>5, <2>2, <2>4, PutDict
  <2> QED
    BY <1>1, <2>5 DEF key, value
<1> QED
  BY <1>2, <1>4, <1>5

(***************************************************************************)
(* Counting and enumerating: the places are in order, one for each key     *)
(***************************************************************************)
Before(B, p, q) == q[1] < p[1] \/ (q[1] = p[1] /\ q[2] <= p[2])
UpTo(B, p)      == {q \in PlacesOf(B) : Before(B, p, q)}
OrderOf(B)      == [p \in PlacesOf(B) |-> Cardinality(UpTo(B, p))]

LEMMA PlaceNumbers ==
  ASSUME NEW B, Sound(B)
  PROVE  \A p \in PlacesOf(B) : p = <<p[1], p[2]>> /\ p[1] \in Int /\ p[2] \in Int
<1>1. CASE B = NULL
  BY <1>1, NullIsEmpty
<1>2. CASE B # NULL
  <2>1. B \in [1 .. capacity -> Bucket]
    BY <1>2 DEF Sound
  <2> SUFFICES ASSUME NEW p \in PlacesOf(B)
               PROVE  p = <<p[1], p[2]>> /\ p[1] \in Int /\ p[2] \in Int
    OBVIOUS
  <2>2. p = <<p[1], p[2]>> /\ p[1] \in 1 .. capacity /\ p[2] \in 1 .. Len(B[p[1]])
    BY <2>1, PlacesAre
  <2> QED
    BY <2>2
<1> QED
  BY <1>1, <1>2

\* Every number up to the number of places is the order of one place.
LEMMA OrderBijective ==
  ASSUME NEW B, Sound(B)
  PROVE  /\ \A p \in PlacesOf(B) : OrderOf(B)[p] \in 1 .. Cardinality(PlacesOf(B))
         /\ \A p, q \in PlacesOf(B) : OrderOf(B)[p] = OrderOf(B)[q] => p = q
         /\ \A n \in 1 .. Cardinality(PlacesOf(B)) : \E p \in PlacesOf(B) : OrderOf(B)[p] = n
<1> DEFINE P == PlacesOf(B)
           N == Cardinality(P)
<1>1. IsFiniteSet(P) /\ N \in Nat
  BY PlacesFinite
<1>2. \A p \in P : /\ IsFiniteSet(UpTo(B, p)) /\ Cardinality(UpTo(B, p)) \in Nat
                   /\ Cardinality(UpTo(B, p)) <= N
  <2> SUFFICES ASSUME NEW p \in P
               PROVE  /\ IsFiniteSet(UpTo(B, p)) /\ Cardinality(UpTo(B, p)) \in Nat
                      /\ Cardinality(UpTo(B, p)) <= N
    OBVIOUS
  <2>1. UpTo(B, p) \in SUBSET P
    BY DEF UpTo
  <2> HIDE DEF P
  <2> QED
    BY <1>1, <2>1, FS_Subset, FS_CardinalityType
<1>3. \A p \in P : p \in UpTo(B, p)
  BY PlaceNumbers DEF UpTo, Before
<1>4. \A p \in P : OrderOf(B)[p] \in 1 .. N
  <2> SUFFICES ASSUME NEW p \in P PROVE OrderOf(B)[p] \in 1 .. N
    OBVIOUS
  <2>1. Cardinality(UpTo(B, p)) # 0
    BY <1>2, <1>3, FS_EmptySet
  <2>2. OrderOf(B)[p] = Cardinality(UpTo(B, p))
    BY DEF OrderOf
  <2> HIDE DEF P, N
  <2> QED
    BY <1>1, <1>2, <2>1, <2>2
<1>5. ASSUME NEW p \in P, NEW q \in P, OrderOf(B)[p] = OrderOf(B)[q], Before(B, q, p)
      PROVE  p = q
  <2>1. UpTo(B, p) \in SUBSET UpTo(B, q)
    <3> SUFFICES ASSUME NEW r \in P, Before(B, p, r) PROVE Before(B, q, r)
      BY DEF UpTo
    <3> QED
      BY <1>5, PlaceNumbers DEF Before
  <2>2. Cardinality(UpTo(B, p)) = Cardinality(UpTo(B, q))
    BY <1>5 DEF OrderOf
  <2>3. UpTo(B, p) = UpTo(B, q)
    BY <1>2, <2>1, <2>2, FS_Subset
  <2>4. Before(B, p, q)
    BY <1>3, <2>3 DEF UpTo
  <2>5. p = <<p[1], p[2]>> /\ q = <<q[1], q[2]>> /\ p[1] \in Int /\ p[2] \in Int
           /\ q[1] \in Int /\ q[2] \in Int
    BY PlaceNumbers
  <2>6. p[1] = q[1] /\ p[2] = q[2]
    BY <1>5, <2>4, <2>5 DEF Before
  <2> QED
    BY <2>5, <2>6
<1>6. ASSUME NEW p \in P, NEW q \in P, OrderOf(B)[p] = OrderOf(B)[q]
      PROVE  p = q
  <2>1. Before(B, q, p) \/ Before(B, p, q)
    BY PlaceNumbers DEF Before
  <2> QED
    BY <1>5, <1>6, <2>1
<1>7. OrderOf(B) \in [P -> 1 .. N]
  BY <1>4 DEF OrderOf
<1>8. OrderOf(B) \in Injection(P, 1 .. N)
  <2> HIDE DEF P, N
  <2> QED
    BY <1>6, <1>7 DEF Injection, IsInjective
<1>9. IsFiniteSet(1 .. N) /\ Cardinality(1 .. N) = N
  <2> HIDE DEF N
  <2>1. 1 \in Int /\ N \in Int /\ N >= 0
    BY <1>1
  <2>2. IsFiniteSet(1 .. N) /\ Cardinality(1 .. N) = IF 1 > N THEN 0 ELSE N - 1 + 1
    BY <2>1, FS_Interval
  <2> QED
    BY <2>1, <2>2
<1>10. OrderOf(B) \in Surjection(P, 1 .. N)
  <2>1. Cardinality(P) = Cardinality(1 .. N)
    BY <1>9
  <2> HIDE DEF P, N
  <2> QED
    BY <1>8, <1>9, <2>1, FS_Injection
<1> QED
  BY <1>4, <1>6, <1>10 DEF Surjection

\* There are as many associations as places.
LEMMA CountDict ==
  ASSUME NEW B, Sound(B)
  PROVE  Cardinality(DOMAIN DictOf(B)) = Cardinality(PlacesOf(B))
<1> DEFINE f == [p \in PlacesOf(B) |-> B[p[1]][p[2]].key]
<1>1. CASE B = NULL
  <2>1. PlacesOf(B) = {}
    BY <1>1, NullIsEmpty
  <2>2. DOMAIN DictOf(B) = {}
    BY <2>1, EmptyDict DEF Dict!Nothing
  <2> QED
    BY <2>1, <2>2
<1>2. CASE B # NULL
  <2>1. B \in [1 .. capacity -> Bucket]
    BY <1>2 DEF Sound
  <2>2. DOMAIN DictOf(B) = KeysOf(B)
    BY <2>1, DictOfMap
  <2>3. f \in [PlacesOf(B) -> KeysOf(B)]
    BY <2>1, DictOfMap
  <2>4. \A p, q \in PlacesOf(B) : f[p] = f[q] => p = q
    BY <2>1, OnePlace
  <2>5. \A k \in KeysOf(B) : \E p \in PlacesOf(B) : f[p] = k
    <3> SUFFICES ASSUME NEW k \in KeysOf(B) PROVE \E p \in PlacesOf(B) : f[p] = k
      OBVIOUS
    <3>1. PICK p \in PlacesOf(B) : B[p[1]][p[2]].key = k
      BY <2>1, DictOfMap
    <3> QED
      BY <3>1
  <2> HIDE DEF f
  <2>6. f \in Injection(PlacesOf(B), KeysOf(B)) /\ f \in Surjection(PlacesOf(B), KeysOf(B))
    BY <2>3, <2>4, <2>5 DEF Injection, IsInjective, Surjection
  <2>7. ExistsBijection(PlacesOf(B), KeysOf(B))
    BY <2>6 DEF ExistsBijection, Bijection
  <2> QED
    BY <2>2, <2>7, PlacesFinite, FS_Bijection
<1> QED
  BY <1>1, <1>2

\* The dictionary counts as the map does.
LEMMA SameCardinality == \A S : Dict!Cardinality(S) = Cardinality(S)
BY Zenon DEF Dict!Cardinality, Cardinality

LEMMA CountRefines == IInv /\ sm_get_count => Dict!Count
<1> SUFFICES ASSUME IInv, sm_get_count PROVE Dict!Count
  OBVIOUS
<1>1. Cardinality(DOMAIN Associations) = Cardinality(PlacesOf(buckets))
  BY Mapped, CountDict DEF IInv
<1>2. answer' = Answer("count", Cardinality(PlacesOf(buckets))) /\ UNCHANGED buckets
  BY DEF sm_get_count, Reads, PlacesOf, Places
<1>3. UNCHANGED <<Associations, buckets # NULL>>
  BY <1>2, Mapped
<1> QED
  BY <1>1, <1>2, <1>3, SameCardinality DEF Dict!Count, Dict!Answer, Answer

LEMMA EnumRefines == IInv /\ sm_enum => Dict!Enum
<1> SUFFICES ASSUME IInv, sm_enum PROVE Dict!Enum
  OBVIOUS
<1> DEFINE P == PlacesOf(buckets)
           N == Cardinality(P)
           At(n) == CHOOSE p \in P : Order(p) = n
           key(p) == buckets[p[1]][p[2]].key
           seen == [n \in 1 .. N |-> key(At(n))]
<1>1. P = Places
  BY DEF PlacesOf, Places
<1>2. \A p \in P : Order(p) = OrderOf(buckets)[p]
  BY <1>1 DEF Order, OrderOf, UpTo, Before
<1>3. UNCHANGED buckets
  BY DEF sm_enum, Reads
<1>4. UNCHANGED <<Associations, buckets # NULL>>
  BY <1>3, Mapped
<1>5. N = Cardinality(DOMAIN Associations)
  BY Mapped, CountDict DEF IInv
<1>6. \A n \in 1 .. N : At(n) \in P /\ Order(At(n)) = n
  <2> SUFFICES ASSUME NEW n \in 1 .. N PROVE At(n) \in P /\ Order(At(n)) = n
    OBVIOUS
  <2>1. \E p \in P : OrderOf(buckets)[p] = n
    BY OrderBijective DEF IInv
  <2>2. \E p \in P : Order(p) = n
    BY <1>2, <2>1
  <2> HIDE DEF P
  <2> QED
    BY <2>2
<1>7. \A p \in P : Order(p) \in 1 .. N /\ At(Order(p)) = p
  <2> SUFFICES ASSUME NEW p \in P PROVE Order(p) \in 1 .. N /\ At(Order(p)) = p
    OBVIOUS
  <2>1. Order(p) \in 1 .. N
    BY <1>2, OrderBijective DEF IInv
  <2>2. At(Order(p)) \in P /\ Order(At(Order(p))) = Order(p)
    BY <1>6, <2>1
  <2> HIDE DEF At
  <2>3. At(Order(p)) = p
    BY <1>2, <2>2, OrderBijective DEF IInv
  <2> QED
    BY <2>1, <2>3
<1>8. /\ \A p \in P : /\ key(p) \in DOMAIN Associations
                      /\ Associations[key(p)] = buckets[p[1]][p[2]].value
      /\ \A k \in DOMAIN Associations : \E p \in P : key(p) = k
  <2>1. CASE buckets = NULL
    <3>1. P = {}
      BY <2>1, NullIsEmpty
    <3>2. DOMAIN Associations = {}
      BY <3>1, EmptyDict, Mapped DEF Dict!Nothing
    <3> QED
      BY <3>1, <3>2
  <2>2. CASE buckets # NULL
    <3>1. buckets \in [1 .. capacity -> Bucket] /\ Sound(buckets)
      BY <2>2 DEF IInv, Sound
    <3> QED
      BY <3>1, Mapped, DictOfMap
  <2> QED
    BY <2>1, <2>2
<1> HIDE DEF P, N, At, key
<1>9. seen \in [1 .. N -> DOMAIN Associations]
  BY <1>6, <1>8
<1>10. \A k \in DOMAIN Associations : \E n \in DOMAIN seen : seen[n] = k
  BY <1>7, <1>8
<1>11. answer' = [op |-> "enum", ret |-> IF buckets = NULL THEN 0 ELSE 1,
                  seen |-> [n \in 1 .. N |-> [key |-> key(At(n)),
                                             value |-> buckets[At(n)[1]][At(n)[2]].value]]]
  BY <1>1 DEF sm_enum, P, N, At, key
<1>12. [n \in 1 .. N |-> [key |-> key(At(n)), value |-> buckets[At(n)[1]][At(n)[2]].value]]
     = [n \in DOMAIN seen |-> [key |-> seen[n], value |-> Associations[seen[n]]]]
  <2>1. \A n \in 1 .. N : /\ seen[n] = key(At(n))
                          /\ Associations[seen[n]] = buckets[At(n)[1]][At(n)[2]].value
    BY <1>6, <1>8
  <2>2. DOMAIN seen = 1 .. N
    OBVIOUS
  <2> HIDE DEF seen
  <2> QED
    BY <2>1, <2>2
<1> HIDE DEF seen
<1>13. answer' = [op |-> "enum", ret |-> IF buckets # NULL THEN 1 ELSE 0,
                  seen |-> [n \in DOMAIN seen |-> [key |-> seen[n], value |-> Associations[seen[n]]]]]
  BY <1>11, <1>12
<1>14. seen \in [1 .. Cardinality(DOMAIN Associations) -> DOMAIN Associations]
  BY <1>5, <1>9
<1> QED
  BY <1>4, <1>10, <1>13, <1>14, SameCardinality DEF Dict!Enum

LEMMA StepRefines == IInv /\ IInv' /\ [Next]_vars => [Dict!Next]_(Dict!vars)
<1> SUFFICES ASSUME IInv, IInv', [Next]_vars PROVE Dict!Next \/ UNCHANGED Dict!vars
  OBVIOUS
<1>1. CASE sm_new \/ new_buckets
  BY <1>1, NewDict DEF Dict!Next
<1>2. CASE sm_delete \/ free_pair \/ free_pairs \/ free_map
  BY <1>2, DeleteDict DEF Dict!Next
<1>3. CASE sm_get_count
  BY <1>3, CountRefines DEF Dict!Next
<1>4. CASE sm_enum
  BY <1>4, EnumRefines DEF Dict!Next
<1>5. ASSUME NEW key \in Key, NEW value \in Value, put_value(key, value)
      PROVE  Dict!Next
  BY <1>5, PutValueDict DEF Dict!Next
<1>10. ASSUME \/ new_value
              \/ \E key \in Key, value \in Value : put_null \/ new_key(key, value)
       PROVE  Dict!Next \/ UNCHANGED Dict!vars
  <2>1. CASE UNCHANGED buckets /\ answer' = Answer("put", 0)
    <3>1. \E key \in Key, value \in Value : TRUE
      BY <1>10 DEF new_value, IInv, Holds, Idle, Putting, Freeing
    <3>2. PICK key \in Key, value \in Value : Dict!Put(key, value)
      BY <2>1, <3>1, PutDict
    <3> QED
      BY <3>2 DEF Dict!Next
  <2>2. CASE UNCHANGED <<buckets, answer>>
    BY <2>2, Stutters
  <2> QED
    BY <1>10, <2>1, <2>2 DEF put_null, new_value, new_key, Answers
<1>11. CASE first_pair \/ more_pairs
  BY <1>11, NewPairsDict DEF Dict!Next
<1>6. ASSUME NEW key \in Key, NEW room \in Room, sm_get(key, room)
      PROVE  Dict!Next
  BY <1>6, ReadDict DEF Dict!Next
<1>7. ASSUME NEW key \in Key, sm_get_size(key)
      PROVE  Dict!Next
  <2>1. Dict!GetSize(key)
    BY <1>7, ReadDict
  <2> QED
    BY <2>1 DEF Dict!Next
<1>8. ASSUME NEW key \in Key, sm_exists(key)
      PROVE  Dict!Next
  <2>1. Dict!Exists(key)
    BY <1>8, ReadDict
  <2> QED
    BY <2>1 DEF Dict!Next
<1>9. CASE UNCHANGED vars
  BY <1>9, Mapped DEF vars, Dict!vars
<1> QED
  BY <1>1, <1>2, <1>3, <1>4, <1>5, <1>6, <1>7, <1>8, <1>9, <1>10, <1>11 DEF Next

\* Every operation, with any allocation of it failing, is an operation of the
\* dictionary of strmap.h: a refused put changes nothing, one that is answered
\* 1 is what the next get finds, each association is counted and enumerated
\* once.
THEOREM MapImplements == Spec => ImplementsDictionary
<1>1. IInv /\ [Next]_vars => IInv'
  BY NextIInv
<1> QED
  BY <1>1, InitIInv, InitDict, StepRefines, PTL DEF Spec, ImplementsDictionary, Dict!Spec
=============================================================================
