---------------------------- MODULE SdiskFsTree ----------------------------
(***************************************************************************)
(* SdiskFs, served by one thread, implements DirTree: the calls take       *)
(* effect on one tree of directories and files, each at one moment between *)
(* its request and its answer, and the tree outlives the process.          *)
(*                                                                         *)
(* The tree is read off a metadata file and a set of blocks, by following  *)
(* each path from the root.  What paths lead to changes only when an entry *)
(* is linked, and then for one path: the invariant says that the entries   *)
(* form a tree (LinksInv: each was made by a call and the path of the call *)
(* leads to it), that the disk has the same tree as the stream (SavedInv), *)
(* that a directory holds nothing but names of it (TidyInv), and what the  *)
(* thread in hand has found so far (ServedInv, PathInv).                   *)
(*                                                                         *)
(* Each step of the program is then a step of DirTree or none: a link is a *)
(* Make, the end of a lookup a Look or a refusal, the end of the process a *)
(* Stop.                                                                   *)
(***************************************************************************)
EXTENDS SdiskFsEntries

(***************************************************************************)
(* Paths as sequences of names, and where they lead                        *)
(***************************************************************************)
LEMMA FrontLast ==
  ASSUME NEW p \in Seq(Name), p # <<>>
  PROVE  /\ Front(p) \in Seq(Name) /\ Last(p) \in Name
         /\ p = Append(Front(p), Last(p))
         /\ Len(Front(p)) + 1 = Len(p)
<1>1. Len(p) \in Nat \ {0} /\ \A i \in 1..Len(p) : p[i] \in Name
  BY EmptySeq, ElementOfSeq
<1>2. Front(p) \in Seq(Name) /\ Len(Front(p)) = Len(p) - 1
      /\ \A i \in 1..(Len(p) - 1) : Front(p)[i] = p[i]
  <2>1. /\ Len(p) - 1 \in Nat /\ 1 \in Int /\ Len(p) - 1 \in Int
        /\ \A i \in 1..(Len(p) - 1) : p[i] \in Name
        /\ Front(p) = SubSeq(p, 1, Len(p) - 1)
    BY <1>1 DEF Front
  <2> DEFINE m == Len(p) - 1
  <2> HIDE DEF m
  <2>2. /\ m \in Nat /\ 1 \in Int /\ m \in Int /\ \A i \in 1..m : p[i] \in Name
        /\ Front(p) = SubSeq(p, 1, m)
    BY <2>1 DEF m
  <2>3. /\ SubSeq(p, 1, m) \in Seq(Name)
        /\ Len(SubSeq(p, 1, m)) = IF 1 <= m THEN m - 1 + 1 ELSE 0
        /\ \A i \in 1..(m - 1 + 1) : SubSeq(p, 1, m)[i] = p[1 + i - 1]
    BY <2>2, SubSeqProperties
  <2>4. Len(Front(p)) = m /\ m - 1 + 1 = m
    BY <2>2, <2>3
  <2>5. \A i \in 1..m : Front(p)[i] = p[i]
    BY <2>2, <2>3, <2>4
  <2> QED
    BY <2>2, <2>3, <2>4, <2>5 DEF m
<1>3. Last(p) \in Name
  BY <1>1 DEF Last
<1> DEFINE q == Append(Front(p), Last(p))
<1>4. q \in Seq(Name) /\ Len(q) = Len(p)
  BY <1>1, <1>2, <1>3
<1>5. \A i \in 1..Len(p) : q[i] = p[i]
  BY <1>1, <1>2, <1>3 DEF Last
<1> HIDE DEF q
<1>6. p = q
  BY <1>4, <1>5, SeqEqual
<1> QED
  BY <1>1, <1>2, <1>3, <1>6 DEF q

\* Append is the inverse of Front and Last.
LEMMA FrontAppend ==
  ASSUME NEW p \in Seq(Name), NEW x \in Name
  PROVE  /\ Append(p, x) \in Seq(Name) /\ Append(p, x) # <<>>
         /\ Front(Append(p, x)) = p /\ Last(Append(p, x)) = x
         /\ Len(Append(p, x)) = Len(p) + 1
<1> DEFINE q == Append(p, x)
<1>1. q \in Seq(Name) /\ Len(q) = Len(p) + 1 /\ Len(p) \in Nat /\ q[Len(q)] = x
      /\ \A i \in 1..Len(p) : q[i] = p[i]
  OBVIOUS
<1>2. q # <<>>
  BY <1>1
<1> HIDE DEF q
<1>3. Front(q) \in Seq(Name) /\ Len(Front(q)) = Len(p) /\ \A i \in 1..Len(p) : Front(q)[i] = p[i]
  BY <1>1 DEF Front
<1>4. Front(q) = p
  BY <1>3, SeqEqual
<1> QED
  BY <1>1, <1>2, <1>4 DEF q, Last

LEMMA AppendSame ==
  ASSUME NEW p \in Seq(Name), NEW q \in Seq(Name), NEW x \in Name, NEW y \in Name,
         Append(p, x) = Append(q, y)
  PROVE  p = q /\ x = y
<1>1. Front(Append(p, x)) = p /\ Front(Append(q, y)) = q
      /\ Last(Append(p, x)) = x /\ Last(Append(q, y)) = y
  BY FrontAppend
<1> QED
  BY <1>1

\* Induction over paths.
LEMMA PathInduction ==
  ASSUME NEW S, <<>> \in S, \A p \in Seq(Name) : \A x \in Name : p \in S => Append(p, x) \in S
  PROVE  Seq(Name) \subseteq S
<1> DEFINE T == {n \in Nat : \A p \in Seq(Name) : Len(p) = n => p \in S}
<1>1. 0 \in T
  <2>1. \A p \in Seq(Name) : Len(p) = 0 => p = <<>>
    BY EmptySeq
  <2> QED
    BY <2>1
<1>2. ASSUME NEW n \in Nat, n \in T PROVE n + 1 \in T
  <2> SUFFICES ASSUME NEW p \in Seq(Name), Len(p) = n + 1 PROVE p \in S
    OBVIOUS
  <2>1. p # <<>>
    BY EmptySeq
  <2>2. /\ Front(p) \in Seq(Name) /\ Last(p) \in Name
        /\ p = Append(Front(p), Last(p)) /\ Len(Front(p)) + 1 = Len(p)
    BY <2>1, FrontLast
  <2>3. Len(Front(p)) = n
    BY <2>2
  <2>4. Front(p) \in S
    BY <1>2, <2>2, <2>3
  <2> QED
    BY <2>2, <2>4
<1> HIDE DEF T
<1>3. Nat \subseteq T
  BY <1>1, <1>2, Induction
<1> QED
  BY <1>3 DEF T

(***************************************************************************)
(* Where a path leads, name by name                                        *)
(***************************************************************************)
End(file, st, path) == Reached(file, st, path)[Len(path)]

\* A longer path leads to the same places on the way.
Shared(file, st, p, x, i) == Reached(file, st, Append(p, x))[i] = Reached(file, st, p)[i]

LEMMA ReachedShared ==
  ASSUME NEW file, NEW st, NEW p \in Seq(Name), NEW x \in Name
  PROVE  \A i \in 0..Len(p) : Shared(file, st, p, x, i)
<1> DEFINE q == Append(p, x)
<1>1. q \in Seq(Name) /\ Len(p) \in Nat /\ Len(q) = Len(p) + 1
      /\ \A i \in 1..Len(p) : q[i] = p[i]
  BY FrontAppend
<1> HIDE DEF q
<1> DEFINE ap == Reached(file, st, p)
           aq == Reached(file, st, q)
           S == {i \in Nat : i <= Len(p) => aq[i] = ap[i]}
<1>2. /\ ap[0] = {1}
      /\ \A i \in 1..Len(p) : ap[i] = UNION {ChildIn(file, st, n, p[i]) : n \in ap[i - 1]}
  BY ReachedSteps
<1>3. /\ aq[0] = {1}
      /\ \A i \in 1..Len(q) : aq[i] = UNION {ChildIn(file, st, n, q[i]) : n \in aq[i - 1]}
  BY <1>1, ReachedSteps
<1> HIDE DEF ap, aq
<1>4. 0 \in S
  BY <1>2, <1>3
<1>5. ASSUME NEW i \in Nat, i \in S PROVE i + 1 \in S
  <2> SUFFICES ASSUME i + 1 <= Len(p) PROVE aq[i + 1] = ap[i + 1]
    OBVIOUS
  <2>1. i + 1 \in 1..Len(p) /\ i + 1 \in 1..Len(q) /\ (i + 1) - 1 = i /\ i <= Len(p)
    BY <1>1
  <2>2. aq[i] = ap[i] /\ q[i + 1] = p[i + 1]
    BY <1>1, <1>5, <2>1
  <2>3. ap[i + 1] = UNION {ChildIn(file, st, n, p[i + 1]) : n \in ap[i]}
    BY <1>2, <2>1
  <2>4. aq[i + 1] = UNION {ChildIn(file, st, n, q[i + 1]) : n \in aq[i]}
    BY <1>3, <2>1
  <2> QED
    BY <2>2, <2>3, <2>4
<1> HIDE DEF S
<1>6. Nat \subseteq S
  BY <1>4, <1>5, Induction
<1> QED
  BY <1>1, <1>6 DEF S, Shared, q, ap, aq

\* Every path starts at the root, inode 1.
First0(file, st, p) == Reached(file, st, p)[0] = {1}

LEMMA ReachedFirst ==
  ASSUME NEW file, NEW st, NEW p \in Seq(Name)
  PROVE  First0(file, st, p)
<1> DEFINE at == Reached(file, st, p)
<1>1. /\ at[0] = {1}
      /\ \A i \in 1..Len(p) : at[i] = UNION {ChildIn(file, st, n, p[i]) : n \in at[i - 1]}
  BY ReachedSteps
<1> QED
  BY <1>1 DEF First0

LEMMA EndNothing == \A file, st : End(file, st, <<>>) = {1}
  BY EmptySeq, ReachedFirst DEF First0, End

\* One name further, from every node the path p leads to.
Onto(file, st, p, x) == UNION {ChildIn(file, st, n, x) : n \in End(file, st, p)}

LEMMA EndAppend ==
  ASSUME NEW file, NEW st, NEW p \in Seq(Name), NEW x \in Name
  PROVE  End(file, st, Append(p, x)) = Onto(file, st, p, x)
<1> DEFINE q == Append(p, x)
           N == Len(p)
<1>1. q \in Seq(Name) /\ N \in Nat /\ Len(q) = N + 1 /\ q[N + 1] = x
  BY FrontAppend
<1> HIDE DEF q
<1> DEFINE aq == Reached(file, st, q)
<1>2. \A i \in 1..Len(q) : aq[i] = UNION {ChildIn(file, st, n, q[i]) : n \in aq[i - 1]}
  BY <1>1, ReachedSteps
<1>3. N \in 0..N
  BY <1>1
<1>4. Shared(file, st, p, x, N)
  BY <1>3, ReachedShared
<1>5. aq[N] = End(file, st, p)
  BY <1>4 DEF Shared, End, q
<1> HIDE DEF aq, N
<1>6. N + 1 \in 1..Len(q) /\ (N + 1) - 1 = N
  BY <1>1
<1>7. aq[N + 1] = UNION {ChildIn(file, st, n, x) : n \in aq[N]}
  BY <1>1, <1>2, <1>6
<1>8. End(file, st, q) = aq[N + 1]
  BY <1>1 DEF End, aq
<1> QED
  BY <1>5, <1>7, <1>8 DEF Onto, q

\* A path that leads nowhere goes on nowhere; one that leads to n goes on from n.
LEMMA EndOnward ==
  ASSUME NEW file, NEW st, NEW p \in Seq(Name), NEW x \in Name
  PROVE  /\ End(file, st, p) = {} => End(file, st, Append(p, x)) = {}
         /\ \A n : End(file, st, p) = {n} => End(file, st, Append(p, x)) = ChildIn(file, st, n, x)
<1>1. End(file, st, Append(p, x)) = Onto(file, st, p, x)
  BY EndAppend
<1>2. End(file, st, p) = {} => Onto(file, st, p, x) = {}
  BY DEF Onto
<1>3. ASSUME NEW n, End(file, st, p) = {n} PROVE Onto(file, st, p, x) = ChildIn(file, st, n, x)
  <2>1. Onto(file, st, p, x) = UNION {ChildIn(file, st, m, x) : m \in {n}}
    BY <1>3 DEF Onto
  <2>2. UNION {ChildIn(file, st, m, x) : m \in {n}} = ChildIn(file, st, n, x)
    OBVIOUS
  <2> QED
    BY <2>1, <2>2
<1> QED
  BY <1>1, <1>2, <1>3

\* Of some slots one is the first.
LEMMA FirstExists ==
  ASSUME NEW T \in SUBSET Slot, T # {}
  PROVE  \E i \in Slot : First(T, i)
<1>1. T \subseteq Nat
  BY DEF Slot
<1>2. PICK i \in T : \A j \in T : i <= j
  BY <1>1, Least
<1> QED
  BY <1>2 DEF First

\* A path leads to one inode at most.
OneOrNone(S) == S = {} \/ \E n : S = {n}

LEMMA ChildOne ==
  ASSUME NEW file, NEW st, NEW n, NEW x
  PROVE  OneOrNone(ChildIn(file, st, n, x))
<1> DEFINE b == InodeAt(file, n).i_block
           K == {k \in ({b} \cap (DOMAIN st \ {0})) \X Slot : First(Matches(st[k[1]], x), k[2])}
<1>1. ChildIn(file, st, n, x) = {st[l[1]][l[2]].inode : l \in K}
  BY DEF ChildIn
<1>2. ASSUME NEW k \in K, NEW l \in K PROVE k = l
  <2>1. /\ k[1] = b /\ l[1] = b /\ k[2] \in Slot /\ l[2] \in Slot
        /\ k = <<k[1], k[2]>> /\ l = <<l[1], l[2]>>
        /\ First(Matches(st[b], x), k[2]) /\ First(Matches(st[b], x), l[2])
    BY <1>2
  <2>2. k[2] <= l[2] /\ l[2] <= k[2]
    BY <2>1 DEF First
  <2>3. k[2] = l[2]
    BY <2>1, <2>2 DEF Slot
  <2> QED
    BY <2>1, <2>3
<1> HIDE DEF K, b
<1>3. CASE K = {}
  BY <1>1, <1>3 DEF OneOrNone
<1>4. CASE K # {}
  <2>1. PICK k \in K : TRUE
    BY <1>4
  <2>2. K = {k}
    BY <1>2, <2>1
  <2>3. ChildIn(file, st, n, x) = {st[k[1]][k[2]].inode}
    BY <1>1, <2>2
  <2> QED
    BY <2>3 DEF OneOrNone
<1> QED
  BY <1>3, <1>4

LEMMA EndOne ==
  ASSUME NEW file, NEW st
  PROVE  \A p \in Seq(Name) : OneOrNone(End(file, st, p))
<1> DEFINE S == {p \in Seq(Name) : OneOrNone(End(file, st, p))}
<1>1. <<>> \in S
  BY EmptySeq, EndNothing DEF OneOrNone
<1>2. ASSUME NEW p \in Seq(Name), NEW x \in Name, p \in S PROVE Append(p, x) \in S
  <2>1. CASE End(file, st, p) = {}
    BY <2>1, EndOnward, FrontAppend DEF OneOrNone
  <2>2. CASE \E n : End(file, st, p) = {n}
    <3>1. PICK n : End(file, st, p) = {n}
      BY <2>2
    <3>2. End(file, st, Append(p, x)) = ChildIn(file, st, n, x)
      BY <3>1, EndOnward
    <3> QED
      BY <3>2, ChildOne, FrontAppend
  <2> QED
    BY <1>2, <2>1, <2>2 DEF OneOrNone
<1> HIDE DEF S
<1>3. Seq(Name) \subseteq S
  BY <1>1, <1>2, PathInduction
<1> QED
  BY <1>3 DEF S

\* The numbers of U are those of a tree under the root.
Spans(file, st, U) == 1 \in U /\ \A n \in U : \A x \in Name : ChildIn(file, st, n, x) \subseteq U

Apart(file, st, n, x, m, y) ==
    /\ 1 \notin ChildIn(file, st, n, x)
    /\ ChildIn(file, st, n, x) \cap ChildIn(file, st, m, y) # {} => n = m /\ x = y

Branches(file, st, U) == \A n, m \in U : \A x, y \in Name : Apart(file, st, n, x, m, y)

\* No path leaves the numbers in use.
LEMMA EndIn ==
  ASSUME NEW file, NEW st, NEW U, Spans(file, st, U)
  PROVE  \A p \in Seq(Name) : End(file, st, p) \subseteq U
<1> DEFINE S == {p \in Seq(Name) : End(file, st, p) \subseteq U}
<1>1. <<>> \in S
  BY EmptySeq, EndNothing DEF Spans
<1>2. ASSUME NEW p \in Seq(Name), NEW x \in Name, p \in S PROVE Append(p, x) \in S
  <2>1. End(file, st, Append(p, x)) = Onto(file, st, p, x)
    BY EndAppend
  <2>2. End(file, st, p) \subseteq U
    BY <1>2
  <2>3. Onto(file, st, p, x) \subseteq U
    BY <2>2 DEF Onto, Spans
  <2> QED
    BY <2>1, <2>3, FrontAppend
<1> HIDE DEF S
<1>3. Seq(Name) \subseteq S
  BY <1>1, <1>2, PathInduction
<1> QED
  BY <1>3 DEF S

\* A number is where one path leads.
LEMMA EndPath ==
  ASSUME NEW file, NEW st, NEW U, Spans(file, st, U), Branches(file, st, U)
  PROVE  \A p, q \in Seq(Name) :
           End(file, st, p) # {} /\ End(file, st, p) = End(file, st, q) => p = q
<1> DEFINE Alone(p) == \A q \in Seq(Name) :
                         End(file, st, p) # {} /\ End(file, st, p) = End(file, st, q) => p = q
           S == {p \in Seq(Name) : Alone(p)}
<1>1. ASSUME NEW p \in Seq(Name), p # <<>>
      PROVE  /\ 1 \notin End(file, st, p)
             /\ End(file, st, p) # {} =>
                  \E n \in U : /\ End(file, st, Front(p)) = {n}
                               /\ End(file, st, p) = ChildIn(file, st, n, Last(p))
  <2>1. Front(p) \in Seq(Name) /\ Last(p) \in Name /\ p = Append(Front(p), Last(p))
    BY <1>1, FrontLast
  <2> DEFINE h == Front(p)
             x == Last(p)
  <2> HIDE DEF h, x
  <2>2. h \in Seq(Name) /\ x \in Name /\ p = Append(h, x)
    BY <2>1 DEF h, x
  <2>3. CASE End(file, st, h) = {}
    BY <2>2, <2>3, EndOnward
  <2>4. CASE \E n : End(file, st, h) = {n}
    <3>1. PICK n : End(file, st, h) = {n}
      BY <2>4
    <3>2. n \in U
      BY <2>2, <3>1, EndIn
    <3>3. End(file, st, p) = ChildIn(file, st, n, x)
      BY <2>2, <3>1, EndOnward
    <3>4. 1 \notin ChildIn(file, st, n, x)
      BY <2>2, <3>2 DEF Branches, Apart
    <3> QED
      BY <3>1, <3>2, <3>3, <3>4 DEF h, x
  <2>5. OneOrNone(End(file, st, h))
    BY <2>2, EndOne
  <2> QED
    BY <2>3, <2>4, <2>5 DEF OneOrNone
<1>2. <<>> \in S
  <2>1. End(file, st, <<>>) = {1}
    BY EndNothing
  <2>2. \A q \in Seq(Name) : End(file, st, q) = {1} => <<>> = q
    BY <1>1
  <2> QED
    BY <2>1, <2>2, EmptySeq
<1>3. ASSUME NEW p \in Seq(Name), NEW x \in Name, p \in S PROVE Append(p, x) \in S
  <2> DEFINE a == Append(p, x)
  <2>1. a \in Seq(Name) /\ a # <<>> /\ Front(a) = p /\ Last(a) = x
    BY FrontAppend
  <2>2. ASSUME NEW q \in Seq(Name), End(file, st, a) # {}, End(file, st, a) = End(file, st, q)
        PROVE  a = q
    <3> HIDE DEF a
    <3>1. PICK n \in U : End(file, st, p) = {n} /\ End(file, st, a) = ChildIn(file, st, n, x)
      BY <1>1, <2>1, <2>2
    <3>2. q # <<>>
      BY <1>1, <2>1, <2>2, EndNothing
    <3>3. PICK m \in U : /\ End(file, st, Front(q)) = {m}
                         /\ End(file, st, q) = ChildIn(file, st, m, Last(q))
      BY <1>1, <2>2, <3>2
    <3>4. Front(q) \in Seq(Name) /\ Last(q) \in Name /\ q = Append(Front(q), Last(q))
      BY <3>2, FrontLast
    <3>5. n = m /\ x = Last(q)
      <4> DEFINE y == Last(q)
      <4> HIDE DEF y
      <4>1. y \in Name /\ End(file, st, q) = ChildIn(file, st, m, y)
        BY <3>3, <3>4 DEF y
      <4>2. Apart(file, st, n, x, m, y)
        BY <4>1 DEF Branches
      <4>3. ChildIn(file, st, n, x) = ChildIn(file, st, m, y) /\ ChildIn(file, st, n, x) # {}
        BY <2>2, <3>1, <4>1
      <4>4. n = m /\ x = y
        BY <4>2, <4>3 DEF Apart
      <4> QED
        BY <4>4 DEF y
    <3>6. p = Front(q)
      BY <1>3, <3>1, <3>3, <3>4, <3>5
    <3> QED
      BY <3>4, <3>5, <3>6 DEF a
  <2> HIDE DEF a
  <2>3. a \in S
    BY <2>1, <2>2
  <2> QED
    BY <2>3 DEF a
<1> HIDE DEF S
<1>4. Seq(Name) \subseteq S
  BY <1>2, <1>3, PathInduction
<1> QED
  BY <1>4 DEF S

\* The same children, the same places.
Kin(file, st, file2, st2, n, x) == ChildIn(file2, st2, n, x) = ChildIn(file, st, n, x)

\* Paths lead where they led as long as the directories in use have the same children.
LEMMA EndSame ==
  ASSUME NEW file, NEW st, NEW file2, NEW st2, NEW U, Spans(file, st, U),
         \A n \in U : \A x \in Name : Kin(file, st, file2, st2, n, x)
  PROVE  \A p \in Seq(Name) : End(file2, st2, p) = End(file, st, p)
<1> DEFINE S == {p \in Seq(Name) : End(file2, st2, p) = End(file, st, p)}
<1>1. <<>> \in S
  BY EmptySeq, EndNothing
<1>2. ASSUME NEW p \in Seq(Name), NEW x \in Name, p \in S PROVE Append(p, x) \in S
  <2>1. Append(p, x) \in Seq(Name) /\ End(file2, st2, p) = End(file, st, p)
    BY <1>2, FrontAppend
  <2> SUFFICES End(file2, st2, Append(p, x)) = End(file, st, Append(p, x))
    BY <2>1
  <2> HIDE DEF S
  <2>2. CASE End(file, st, p) = {}
    BY <2>1, <2>2, EndOnward
  <2>3. CASE \E n : End(file, st, p) = {n}
    <3>1. PICK n : End(file, st, p) = {n}
      BY <2>3
    <3>2. n \in U
      BY <3>1, EndIn
    <3>3. /\ End(file, st, Append(p, x)) = ChildIn(file, st, n, x)
          /\ End(file2, st2, Append(p, x)) = ChildIn(file2, st2, n, x)
      BY <2>1, <3>1, EndOnward
    <3>4. Kin(file, st, file2, st2, n, x)
      BY <3>2
    <3> QED
      BY <3>3, <3>4 DEF Kin
  <2>4. OneOrNone(End(file, st, p))
    BY EndOne
  <2> QED
    BY <2>2, <2>3, <2>4 DEF OneOrNone
<1> HIDE DEF S
<1>3. Seq(Name) \subseteq S
  BY <1>1, <1>2, PathInduction
<1> QED
  BY <1>3 DEF S

\* A new child x of n0, with no children: one more path leads somewhere.
OneMore(file, st, file2, st2, U, n0, x0, no, p0) ==
    /\ Spans(file, st, U) /\ Branches(file, st, U)
    /\ x0 \in Name /\ p0 \in Seq(Name) /\ End(file, st, p0) = {n0}
    /\ ChildIn(file, st, n0, x0) = {} /\ ChildIn(file2, st2, n0, x0) = {no}
    /\ \A x \in Name : ChildIn(file2, st2, no, x) = {}
    /\ \A n \in U : \A x \in Name : ~(n = n0 /\ x = x0) => Kin(file, st, file2, st2, n, x)

\* One entry more: its path leads to its inode, every other one where it led.
LEMMA EndLink ==
  ASSUME NEW file, NEW st, NEW file2, NEW st2, NEW U, NEW n0, NEW x0, NEW no, NEW p0,
         OneMore(file, st, file2, st2, U, n0, x0, no, p0)
  PROVE  \A p \in Seq(Name) :
           End(file2, st2, p) = IF p = Append(p0, x0) THEN {no} ELSE End(file, st, p)
<1>0. /\ Spans(file, st, U) /\ Branches(file, st, U)
      /\ x0 \in Name /\ p0 \in Seq(Name) /\ End(file, st, p0) = {n0}
      /\ ChildIn(file, st, n0, x0) = {} /\ ChildIn(file2, st2, n0, x0) = {no}
      /\ \A x \in Name : ChildIn(file2, st2, no, x) = {}
      /\ \A n \in U : \A x \in Name : ~(n = n0 /\ x = x0) => Kin(file, st, file2, st2, n, x)
  BY DEF OneMore
<1> DEFINE a == Append(p0, x0)
<1>1. a \in Seq(Name) /\ a # <<>> /\ End(file, st, a) = {}
  BY <1>0, FrontAppend, EndOnward
<1>2. \A p \in Seq(Name) : \A x \in Name : Append(p, x) = a => p = p0 /\ x = x0
  BY <1>0, AppendSame
<1> HIDE DEF a
<1> DEFINE S == {p \in Seq(Name) : End(file2, st2, p) = IF p = a THEN {no} ELSE End(file, st, p)}
<1>3. <<>> \in S
  BY <1>0, <1>1, EmptySeq, EndNothing
<1>4. ASSUME NEW p \in Seq(Name), NEW x \in Name, p \in S PROVE Append(p, x) \in S
  <2> DEFINE q == Append(p, x)
  <2>1. q \in Seq(Name) /\ Len(q) = Len(p) + 1 /\ Len(p) \in Nat
    BY FrontAppend
  <2> SUFFICES q \in S
    OBVIOUS
  <2>2. CASE p = a
    <3>1. q # a
      BY <2>1, <2>2
    <3>2. End(file2, st2, q) = ChildIn(file2, st2, no, x)
      BY <1>4, <2>2, EndOnward
    <3>3. End(file, st, q) = {}
      BY <1>1, <2>2, EndOnward
    <3> QED
      BY <1>0, <2>1, <3>1, <3>2, <3>3
  <2>3. CASE p # a /\ End(file, st, p) = {}
    <3>1. End(file2, st2, q) = {} /\ End(file, st, q) = {}
      BY <1>4, <2>3, EndOnward
    <3>2. q # a
      BY <1>0, <1>2, <2>3
    <3> QED
      BY <2>1, <3>1, <3>2
  <2>4. CASE p # a /\ \E n : End(file, st, p) = {n}
    <3>1. PICK n : End(file, st, p) = {n}
      BY <2>4
    <3>2. n \in U
      BY <1>0, <3>1, EndIn
    <3>3. /\ End(file, st, q) = ChildIn(file, st, n, x)
          /\ End(file2, st2, q) = ChildIn(file2, st2, n, x)
      BY <1>4, <2>4, <3>1, EndOnward
    <3>4. CASE n = n0 /\ x = x0
      <4>1. p = p0
        BY <1>0, <3>1, <3>4, EndPath
      <4>2. q = a
        BY <3>4, <4>1 DEF a
      <4> QED
        BY <1>0, <2>1, <3>3, <3>4, <4>2
    <3>5. CASE ~(n = n0 /\ x = x0)
      <4>1. q # a
        BY <1>0, <1>2, <3>1, <3>5
      <4>2. Kin(file, st, file2, st2, n, x)
        BY <1>0, <3>2, <3>5
      <4> QED
        BY <2>1, <3>3, <4>1, <4>2 DEF Kin
    <3> QED
      BY <3>4, <3>5
  <2>5. OneOrNone(End(file, st, p))
    BY EndOne
  <2> HIDE DEF q, S
  <2> QED
    BY <2>2, <2>3, <2>4, <2>5 DEF OneOrNone
<1> HIDE DEF S
<1>5. Seq(Name) \subseteq S
  BY <1>3, <1>4, PathInduction
<1> QED
  BY <1>5 DEF S, a

(***************************************************************************)
(* The tree a metadata file and the blocks describe                        *)
(***************************************************************************)
Ends(file, st) == UNION {{p} \X End(file, st, p) : p \in Paths \ {<<>>}}

TreeOf(file, st) ==
    [p \in {<<>>} \cup {e[1] : e \in Ends(file, st)} |->
       IF p = <<>> THEN "dir"
       ELSE InodeAt(file, (CHOOSE e \in Ends(file, st) : e[1] = p)[2]).i_mode]

\* The abstract tree of SdiskFsProperties is the one of the stream and the blocks.
LEMMA NodesTree == Nodes = TreeOf(meta.view, store)
<1>1. \A p : Resolve(p) = End(meta.view, store, p)
  BY ResolveReached DEF End
<1>2. \A n : InodeOf(n) = InodeAt(meta.view, n)
  BY DEF InodeOf, InodeAt
<1> DEFINE R == UNION {{p} \X Resolve(p) : p \in Paths \ {<<>>}}
<1>3. R = Ends(meta.view, store)
  BY <1>1 DEF Ends
<1>4. Nodes = [p \in {<<>>} \cup {e[1] : e \in R} |->
                 IF p = <<>> THEN "dir" ELSE InodeOf((CHOOSE e \in R : e[1] = p)[2]).i_mode]
  BY DEF Nodes
<1> HIDE DEF R
<1>5. Nodes = [p \in {<<>>} \cup {e[1] : e \in R} |->
                 IF p = <<>> THEN "dir" ELSE InodeAt(meta.view, (CHOOSE e \in R : e[1] = p)[2]).i_mode]
  BY <1>2, <1>4
<1> QED
  BY <1>3, <1>5 DEF TreeOf

LEMMA NodesNext == Nodes' = TreeOf(meta'.view, store')
<1>1. \A p : Resolve(p)' = End(meta'.view, store', p)
  BY DEF Resolve, Reached, Child, ChildIn, InodeOf, InodeAt, Link, End
<1> DEFINE R == UNION {{p} \X Resolve(p)' : p \in Paths \ {<<>>}}
<1>3. R = Ends(meta'.view, store')
  BY <1>1 DEF Ends
<1>4. Nodes' = [p \in {<<>>} \cup {e[1] : e \in R} |->
                  IF p = <<>> THEN "dir" ELSE InodeAt(meta'.view, (CHOOSE e \in R : e[1] = p)[2]).i_mode]
  BY DEF Nodes, Paths, InodeOf, InodeAt
<1> HIDE DEF R
<1> QED
  BY <1>3, <1>4 DEF TreeOf

LEMMA PathsSeq == Paths \subseteq Seq(Name)
  BY CallsAssumption, EmptySeq DEF Paths

\* The paths of the tree are those that lead somewhere.
LEMMA TreeDomain ==
  ASSUME NEW file, NEW st
  PROVE  \A p : p \in DOMAIN TreeOf(file, st) <=> p \in Paths /\ End(file, st, p) # {}
<1>1. DOMAIN TreeOf(file, st) = {<<>>} \cup {e[1] : e \in Ends(file, st)}
  BY DEF TreeOf
<1>2. <<>> \in Paths /\ End(file, st, <<>>) = {1}
  BY EndNothing DEF Paths
<1>3. ASSUME NEW e \in Ends(file, st) PROVE e[1] \in Paths /\ End(file, st, e[1]) # {}
  <2>1. PICK p \in Paths \ {<<>>} : e \in {p} \X End(file, st, p)
    BY <1>3 DEF Ends
  <2>2. e[1] = p /\ e[2] \in End(file, st, p)
    BY <2>1
  <2> QED
    BY <2>1, <2>2
<1>4. ASSUME NEW p \in Paths, p # <<>>, NEW n \in End(file, st, p)
      PROVE  p \in {e[1] : e \in Ends(file, st)}
  <2>1. <<p, n>> \in {p} \X End(file, st, p) /\ p \in Paths \ {<<>>}
    BY <1>4
  <2>2. <<p, n>> \in Ends(file, st) /\ <<p, n>>[1] = p
    BY <2>1 DEF Ends
  <2> QED
    BY <2>2
<1> HIDE DEF Ends
<1> QED
  BY <1>1, <1>2, <1>3, <1>4

\* Each node is what its inode says.
LEMMA TreeKind ==
  ASSUME NEW file, NEW st
  PROVE  /\ TreeOf(file, st)[<<>>] = "dir"
         /\ \A p \in Paths : \A n : p # <<>> /\ End(file, st, p) = {n} =>
              TreeOf(file, st)[p] = InodeAt(file, n).i_mode
<1>1. TreeOf(file, st)[<<>>] = "dir"
  BY DEF TreeOf
<1>2. ASSUME NEW p \in Paths, NEW n, p # <<>>, End(file, st, p) = {n}
      PROVE  TreeOf(file, st)[p] = InodeAt(file, n).i_mode
  <2>1. <<p, n>> \in {p} \X End(file, st, p) /\ p \in Paths \ {<<>>}
    BY <1>2
  <2>2. <<p, n>> \in Ends(file, st) /\ <<p, n>>[1] = p
    BY <2>1 DEF Ends
  <2> DEFINE e == CHOOSE d \in Ends(file, st) : d[1] = p
  <2>3. e \in Ends(file, st) /\ e[1] = p
    BY <2>2
  <2>4. p \in {d[1] : d \in Ends(file, st)}
    BY <2>2
  <2>5. TreeOf(file, st)[p] = InodeAt(file, e[2]).i_mode
    BY <1>2, <2>4 DEF TreeOf
  <2> HIDE DEF e
  <2>6. e[2] \in End(file, st, p)
    <3>1. PICK q \in Paths \ {<<>>} : e \in {q} \X End(file, st, q)
      BY <2>3 DEF Ends
    <3> QED
      BY <2>3, <3>1
  <2> QED
    BY <1>2, <2>5, <2>6
<1> QED
  BY <1>1, <1>2

LEMMA TreeFunction ==
  ASSUME NEW file, NEW st
  PROVE  TreeOf(file, st) = [p \in DOMAIN TreeOf(file, st) |-> TreeOf(file, st)[p]]
<1> DEFINE Kind(p) == IF p = <<>> THEN "dir"
                      ELSE InodeAt(file, (CHOOSE e \in Ends(file, st) : e[1] = p)[2]).i_mode
           D == {<<>>} \cup {e[1] : e \in Ends(file, st)}
           T == TreeOf(file, st)
<1>1. T = [p \in D |-> Kind(p)]
  BY DEF TreeOf
<1> HIDE DEF T, Kind, D
<1> QED
  BY <1>1 DEF T

\* Inodes of the same shape: the same block, the same mode.
Shaped(file, file2, n) ==
    /\ InodeAt(file, n).i_block = InodeAt(file2, n).i_block
    /\ InodeAt(file, n).i_mode = InodeAt(file2, n).i_mode

\* Every path leads where it led.
SameEnds(file, st, file2, st2) == \A p \in Seq(Name) : End(file2, st2, p) = End(file, st, p)

\* The tree is the same when paths lead to the same inodes and these to the same.
LEMMA SameTree ==
  ASSUME NEW file, NEW st, NEW file2, NEW st2, NEW U, Spans(file, st, U),
         SameEnds(file, st, file2, st2), \A n \in U : Shaped(file, file2, n)
  PROVE  TreeOf(file2, st2) = TreeOf(file, st)
<1> DEFINE T == TreeOf(file, st)
           T2 == TreeOf(file2, st2)
<1>1. \A p \in Paths : End(file2, st2, p) = End(file, st, p)
  BY PathsSeq DEF SameEnds
<1>2. DOMAIN T2 = DOMAIN T
  BY <1>1, TreeDomain
<1>3. ASSUME NEW p \in DOMAIN T PROVE T2[p] = T[p]
  <2>1. CASE p = <<>>
    BY <2>1, TreeKind
  <2>2. CASE p # <<>>
    <3>1. p \in Paths /\ p \in Seq(Name) /\ End(file, st, p) # {}
      BY TreeDomain, PathsSeq
    <3>2. PICK n : End(file, st, p) = {n}
      BY <3>1, EndOne DEF OneOrNone
    <3>3. n \in U
      BY <3>1, <3>2, EndIn
    <3>4. T[p] = InodeAt(file, n).i_mode
      BY <2>2, <3>1, <3>2, TreeKind
    <3>5. End(file2, st2, p) = {n}
      BY <1>1, <3>1, <3>2
    <3>6. T2[p] = InodeAt(file2, n).i_mode
      BY <2>2, <3>1, <3>5, TreeKind
    <3> QED
      BY <3>3, <3>4, <3>6 DEF Shaped
  <2> QED
    BY <2>1, <2>2
<1>4. T = [p \in DOMAIN T |-> T[p]] /\ T2 = [p \in DOMAIN T2 |-> T2[p]]
  BY TreeFunction
<1> HIDE DEF T, T2
<1>5. T2 = T
  BY <1>2, <1>3, <1>4
<1> QED
  BY <1>5 DEF T, T2

\* One path more.
Grown(file, st, st2, a, no) ==
    /\ a \in Paths /\ a # <<>>
    /\ \A p \in Seq(Name) : End(file, st2, p) = IF p = a THEN {no} ELSE End(file, st, p)
WithPath(T, a, kind) == [p \in DOMAIN T \cup {a} |-> IF p = a THEN kind ELSE T[p]]

LEMMA LinkTree ==
  ASSUME NEW file, NEW st, NEW st2, NEW a, NEW no, Grown(file, st, st2, a, no)
  PROVE  TreeOf(file, st2) = WithPath(TreeOf(file, st), a, InodeAt(file, no).i_mode)
<1> DEFINE T == TreeOf(file, st)
           T2 == TreeOf(file, st2)
           kind == InodeAt(file, no).i_mode
<1>1. /\ \A p \in Paths : End(file, st2, p) = IF p = a THEN {no} ELSE End(file, st, p)
      /\ a \in Paths /\ a # <<>>
  BY PathsSeq DEF Grown
<1>2. DOMAIN T2 = DOMAIN T \cup {a}
  BY <1>1, TreeDomain
<1>3. ASSUME NEW p \in DOMAIN T2 PROVE T2[p] = IF p = a THEN kind ELSE T[p]
  <2>1. CASE p = <<>>
    BY <1>1, <2>1, TreeKind
  <2>2. CASE p = a
    BY <1>1, <2>2, TreeKind
  <2>3. CASE p # a /\ p # <<>>
    <3>1. p \in Paths /\ p \in Seq(Name) /\ End(file, st2, p) # {}
      BY TreeDomain, PathsSeq
    <3>2. PICK n : End(file, st, p) = {n}
      <4>1. End(file, st, p) # {}
        BY <1>1, <2>3, <3>1
      <4> QED
        BY <3>1, <4>1, EndOne DEF OneOrNone
    <3>3. End(file, st2, p) = {n}
      BY <1>1, <2>3, <3>1, <3>2
    <3>4. T[p] = InodeAt(file, n).i_mode
      BY <2>3, <3>1, <3>2, TreeKind
    <3>5. T2[p] = InodeAt(file, n).i_mode
      BY <2>3, <3>1, <3>3, TreeKind
    <3> HIDE DEF T, T2, kind
    <3> QED
      BY <2>3, <3>4, <3>5
  <2> HIDE DEF T, T2, kind
  <2> QED
    BY <2>1, <2>2, <2>3
<1>4. T2 = [p \in DOMAIN T2 |-> T2[p]]
  BY TreeFunction
<1> HIDE DEF T, T2, kind
<1>5. T2 = [p \in DOMAIN T \cup {a} |-> IF p = a THEN kind ELSE T[p]]
  BY <1>2, <1>3, <1>4
<1> QED
  BY <1>5 DEF T, T2, kind, WithPath

\* Without names there is nothing but the root.
LEMMA BareTree ==
  ASSUME NEW file, NEW st, \A n : \A x \in Name : ChildIn(file, st, n, x) = {}
  PROVE  TreeOf(file, st) = [p \in {<<>>} |-> "dir"]
<1> DEFINE T == TreeOf(file, st)
<1>1. ASSUME NEW p \in Seq(Name), p # <<>> PROVE End(file, st, p) = {}
  <2>1. Front(p) \in Seq(Name) /\ Last(p) \in Name /\ p = Append(Front(p), Last(p))
    BY <1>1, FrontLast
  <2>2. End(file, st, p) = Onto(file, st, Front(p), Last(p))
    BY <2>1, EndAppend
  <2> QED
    BY <2>1, <2>2 DEF Onto
<1>2. DOMAIN T = {<<>>}
  <2>1. <<>> \in Paths /\ End(file, st, <<>>) = {1}
    BY EndNothing DEF Paths
  <2> QED
    BY <1>1, <2>1, TreeDomain, PathsSeq
<1>3. T[<<>>] = "dir" /\ T = [p \in DOMAIN T |-> T[p]]
  BY TreeKind, TreeFunction
<1> HIDE DEF T
<1>4. T = [p \in {<<>>} |-> "dir"]
  BY <1>2, <1>3
<1> QED
  BY <1>4 DEF T

(***************************************************************************)
(* The tree while directories have room and the process ends in order      *)
(***************************************************************************)
\* No transfer fails, nothing kills the process but its own faults, a block has
\* room for all the names of a directory, and the calls are those of DirTree
\* and unlink.
Ordinary ==
    /\ MaxFault = 0 /\ ~MayCrash
    /\ IsFiniteSet(Name) /\ NSlots >= Cardinality(Name) + 2
    /\ \A c \in Calls : c.op \notin {"rmdir", "write"}

\* What SdiskFsNumbers, SdiskFsWrites and SdiskFsEntries know of every state.
CoreInv == Context /\ DurableInv /\ EntriesInv /\ DirsInv /\ FindInv

\* The numbers of the tree: the root's, and those that entries hold.
Used == {1} \cup {Link(l).inode : l \in Links}

\* A block whose entries have names, but for the two that every one has.
Tidy(data) == /\ NoFar(data)
              /\ \A i \in Slot \ {1, 2} : data[i].inode # 0 => data[i].name \in Name

\* No block holds but names, whatever its first two entries are.
TidyInv == \A b \in DOMAIN store \ {0} : Tidy(store[b])

\* The file has the inode of the root, a directory with a block.
RootDir(file) == /\ InodePos(1) \in DOMAIN file
                 /\ InodeIn(file, 1).i_block # 0 /\ InodeIn(file, 1).i_mode = "dir"

\* A file system is formatted once, and has a root from then on.
LifeInv ==
    /\ faults = 0
    /\ up = "mounted" => root.i_block # 0 /\ root.i_mode = "dir"
    /\ up # "init" => \/ up = "unmounted" /\ meta.disk = Empty
                      \/ RootDir(meta.view) /\ RootDir(meta.disk)

\* What the stream has not written yet shows in no path.
SavedInv == up # "init" => \A n \in Used : Shaped(meta.view, meta.disk, n)

\* A call asked for this inode, by the path that leads to it.
MadeBy(file, st, n) ==
    \E c \in Calls : /\ c.op = IF InodeIn(file, n).i_mode = "dir" THEN "mkdir" ELSE "create"
                     /\ End(file, st, c.path) = {n}

\* An entry was made by a call, at its path; a file has no block.
LinkAt(file, st, n) ==
    /\ n # 1
    /\ InodeIn(file, n).i_mode # "dir" => InodeIn(file, n).i_block = 0
    /\ MadeBy(file, st, n)

\* Every entry is one a call made.
LinksInv == Live =>
    /\ store[root.i_block][1].inode = 1
    /\ \A l \in Links : LinkAt(meta.view, store, Link(l).inode)

\* An entry with a name has a number.
LEMMA NamedLink ==
  ASSUME TidyInv
  PROVE  \A b \in DOMAIN store \ {0} : \A i \in Slot :
           store[b][i].name \in Name => <<b, i>> \in Links /\ Link(<<b, i>>) = store[b][i]
<1> SUFFICES ASSUME NEW b \in DOMAIN store \ {0}, NEW i \in Slot, store[b][i].name \in Name
             PROVE  <<b, i>> \in Links /\ Link(<<b, i>>) = store[b][i]
  OBVIOUS
<1>1. store[b][i].inode # Far
  BY DEF TidyInv, Tidy, NoFar
<1>2. <<b, i>> \in (DOMAIN store \ {0}) \X Slot /\ <<b, i>>[1] = b /\ <<b, i>>[2] = i
  OBVIOUS
<1> QED
  BY <1>1, <1>2, IsLink DEF Link

\* The entry a child comes from.
ChildFrom(n, x, m) ==
    LET b == InodeAt(meta.view, n).i_block
    IN  /\ b \in DOMAIN store \ {0}
        /\ \E i \in Slot : /\ First(Matches(store[b], x), i) /\ store[b][i].name = x
                           /\ <<b, i>> \in Links /\ Link(<<b, i>>).inode = m

\* A child is what an entry names.
LEMMA ChildLink ==
  ASSUME TidyInv, NEW n, NEW x \in Name, NEW m \in ChildIn(meta.view, store, n, x)
  PROVE  ChildFrom(n, x, m)
<1> DEFINE b == InodeAt(meta.view, n).i_block
           K == {k \in ({b} \cap (DOMAIN store \ {0})) \X Slot : First(Matches(store[k[1]], x), k[2])}
<1>1. ChildIn(meta.view, store, n, x) = {store[l[1]][l[2]].inode : l \in K}
  BY DEF ChildIn
<1>2. PICK k \in K : m = store[k[1]][k[2]].inode
  BY <1>1
<1>3. /\ k[1] = b /\ b \in DOMAIN store \ {0} /\ k[2] \in Slot
      /\ First(Matches(store[b], x), k[2]) /\ m = store[b][k[2]].inode
  BY <1>2
<1>4. store[b][k[2]].name = x
  BY <1>3 DEF First, Matches
<1>5. <<b, k[2]>> \in Links /\ Link(<<b, k[2]>>) = store[b][k[2]]
  BY <1>3, <1>4, NamedLink
<1> HIDE DEF b
<1>6. b \in DOMAIN store \ {0} /\ \E i \in Slot :
        /\ First(Matches(store[b], x), i) /\ store[b][i].name = x
        /\ <<b, i>> \in Links /\ Link(<<b, i>>).inode = m
  BY <1>3, <1>4, <1>5
<1> QED
  BY <1>6 DEF ChildFrom, b

\* The root and what entries name are all that paths lead to.
LEMMA UsedSpans ==
  ASSUME TidyInv
  PROVE  Spans(meta.view, store, Used)
<1>1. ASSUME NEW n, NEW x \in Name, NEW m \in ChildIn(meta.view, store, n, x)
      PROVE  m \in Used
  <2>1. ChildFrom(n, x, m)
    BY ChildLink
  <2> QED
    BY <2>1 DEF ChildFrom, Used
<1>2. 1 \in Used
  BY DEF Used
<1> QED
  BY <1>1, <1>2 DEF Spans

LEMMA UsedNat == TypeOK => Used \subseteq Nat
  BY LinkNumbers, NumbersNat DEF Used

LEMMA InodeAtView ==
  ASSUME PlacedInv
  PROVE  \A n \in Nat : /\ InodeAt(meta.view, n) = InodeIn(meta.view, n)
                        /\ InodeAt(meta.disk, n) = InodeIn(meta.disk, n)
  BY InodeAtIn DEF PlacedInv

\* Blocks in which no number is in use have no children.
LEMMA NoChildren ==
  ASSUME NEW file, NEW st, \A b \in DOMAIN st \ {0} : NoFar(st[b]) /\ Numbers(st[b]) = {}
  PROVE  \A n : \A x \in Name : ChildIn(file, st, n, x) = {}
<1> SUFFICES ASSUME NEW n, NEW x \in Name PROVE ChildIn(file, st, n, x) = {}
  OBVIOUS
<1>1. ASSUME NEW b \in DOMAIN st \ {0}, NEW i \in Slot, st[b][i].name = x PROVE FALSE
  <2>1. st[b][i].inode \in Numbers(st[b])
    BY <1>1 DEF NoFar, Numbers
  <2> QED
    BY <2>1
<1>2. \A b \in DOMAIN st \ {0} : Matches(st[b], x) = {}
  BY <1>1 DEF Matches
<1> QED
  BY <1>2 DEF ChildIn, First

(***************************************************************************)
(* Directories, on the mount that formatted the file system                *)
(***************************************************************************)
LiveTree == /\ CoreInv /\ LifeInv /\ TidyInv /\ LinksInv
            /\ Live /\ Thread # {}

\* What the earlier invariants say of such a process.
LEMMA LiveFacts ==
  ASSUME LiveTree
  PROVE  /\ faults = 0 /\ Exact /\ up = "mounted" /\ root.i_block # 0
         /\ superblock.s_log_block_size # 0
         /\ \A l, m \in Links : l # m => Link(l).inode # Link(m).inode
         /\ \A l \in Links : Link(l).inode \in Nat /\ Link(l).inode # 0
                             /\ Link(l).inode < superblock.s_free_inode
<1>1. faults = 0 /\ Exact /\ root.i_block # 0
  BY DEF LiveTree, LifeInv, Live, Exact
<1>2. up = "mounted"
  BY <1>1 DEF LiveTree, CoreInv, Context, NumbersInv, PhaseInv, ZeroInode
<1>3. NumbersUnique
  BY <1>1 DEF LiveTree, CoreInv, EntriesInv, UniqueInv
<1>4. superblock.s_log_block_size # 0
      /\ \A n \in AllNumbers : 1 <= n /\ n < superblock.s_free_inode
  BY DEF LiveTree, CoreInv, Context, NumbersInv, LiveInv
<1>5. \A l \in Links : Link(l).inode \in AllNumbers
  BY LinkNumbers
<1>6. AllNumbers \subseteq Nat
  BY NumbersNat DEF LiveTree, CoreInv, Context
<1>7. ASSUME NEW l \in Links
      PROVE  Link(l).inode \in Nat /\ Link(l).inode # 0 /\ Link(l).inode < superblock.s_free_inode
  <2> DEFINE n == Link(l).inode
  <2>1. n \in AllNumbers
    BY <1>5, <1>7
  <2> HIDE DEF n
  <2>2. n \in Nat /\ 1 <= n /\ n < superblock.s_free_inode
    BY <1>4, <1>6, <2>1
  <2>3. n # 0
    BY <2>2
  <2> QED
    BY <2>2, <2>3 DEF n
<1> QED
  BY <1>1, <1>2, <1>3, <1>4, <1>7 DEF NumbersUnique

\* The root, and the root in memory.
LEMMA RootBlock ==
  ASSUME LiveTree
  PROVE  InodeAt(meta.view, 1).i_block = root.i_block /\ InodeAt(meta.view, 1).i_mode = "dir"
<1>1. root.i_inode_no = 1 /\ Agree(root, meta.view)
  BY LiveFacts DEF LiveTree, CoreInv, FindInv, RootInv, DirsInv, MakingInv
<1>2. RootDir(meta.view)
  BY LiveFacts DEF LiveTree, LifeInv
<1>3. InodeAt(meta.view, 1) = InodeIn(meta.view, 1)
  BY InodeAtView DEF LiveTree, CoreInv, Context
<1> QED
  BY <1>1, <1>2, <1>3 DEF Agree, RootDir

\* The directory of a block is the one its "." names.
LEMMA Owner ==
  ASSUME LiveTree, NEW n \in Used, NEW b, b = InodeAt(meta.view, n).i_block, b # 0
  PROVE  b \in DOMAIN store /\ store[b][1].inode = n
<1>1. PICK t \in Thread : TRUE
  BY DEF LiveTree
<1>2. CASE n = 1
  <2>1. b = root.i_block
    BY <1>2, RootBlock
  <2>2. b \in DOMAIN store
    BY <2>1, LiveFacts DEF LiveTree, CoreInv, EntriesInv, BlocksInv, Holders, HasBlock
  <2> QED
    BY <1>2, <2>1, <2>2 DEF LiveTree, LinksInv
<1>3. CASE n # 1
  <2>1. PICK l \in Links : Link(l).inode = n
    BY <1>3 DEF Used
  <2>2. InodeIn(meta.view, n) = InodeAt(meta.view, n)
    BY <2>1, LiveFacts, InodeAtView DEF LiveTree, CoreInv, Context
  <2>3. LinkAt(meta.view, store, n)
    BY <2>1 DEF LiveTree, LinksInv
  <2>4. InodeIn(meta.view, n).i_mode = "dir"
    BY <2>2, <2>3 DEF LinkAt
  <2>5. Own(meta.view, store, mapping.unsaved, l)
    BY <2>1, LiveFacts DEF LiveTree, CoreInv, DirsInv, OwnInv
  <2> QED
    BY <2>1, <2>2, <2>4, <2>5 DEF Own, Link
<1> QED
  BY <1>2, <1>3

\* No two entries name one inode.
LEMMA LinkPlace ==
  ASSUME LiveTree, NEW l \in Links, NEW m \in Links, Link(l).inode = Link(m).inode
  PROVE  l = m
  BY LiveFacts

\* Two names lead to two numbers, none of them the root's.
LEMMA LiveBranches ==
  ASSUME LiveTree
  PROVE  Branches(meta.view, store, Used)
<1> SUFFICES ASSUME NEW n \in Used, NEW m \in Used, NEW x \in Name, NEW y \in Name
             PROVE  Apart(meta.view, store, n, x, m, y)
  BY DEF Branches
<1> DEFINE b == InodeAt(meta.view, n).i_block
           c == InodeAt(meta.view, m).i_block
<1>1. TidyInv
  BY DEF LiveTree
<1>2. ASSUME 1 \in ChildIn(meta.view, store, n, x) PROVE FALSE
  <2>1. ChildFrom(n, x, 1)
    BY <1>1, <1>2, ChildLink
  <2>2. \E l \in Links : Link(l).inode = 1
    BY <2>1 DEF ChildFrom
  <2> QED
    BY <2>2 DEF LiveTree, LinksInv, LinkAt
<1>3. ASSUME NEW k \in ChildIn(meta.view, store, n, x) \cap ChildIn(meta.view, store, m, y)
      PROVE  n = m /\ x = y
  <2>1. ChildFrom(n, x, k) /\ ChildFrom(m, y, k)
    BY <1>1, <1>3, ChildLink
  <2>2. PICK i \in Slot : store[b][i].name = x /\ <<b, i>> \in Links /\ Link(<<b, i>>).inode = k
                          /\ b \in DOMAIN store \ {0}
    BY <2>1 DEF ChildFrom
  <2>3. PICK j \in Slot : store[c][j].name = y /\ <<c, j>> \in Links /\ Link(<<c, j>>).inode = k
                          /\ c \in DOMAIN store \ {0}
    BY <2>1 DEF ChildFrom
  <2>4. <<b, i>> = <<c, j>>
    BY <2>2, <2>3, LinkPlace
  <2>5. b = c /\ i = j
    BY <2>4
  <2>6. x = y
    BY <2>2, <2>3, <2>5
  <2>7. store[b][1].inode = n /\ store[c][1].inode = m
    BY <2>2, <2>3, Owner
  <2>8. n = m
    <3> HIDE DEF b, c
    <3> QED
      BY <2>5, <2>7
  <2> QED
    BY <2>6, <2>8
<1> QED
  BY <1>2, <1>3 DEF Apart

\* A number in use is where one path leads, and a call speaks of it.
LEMMA OnePath ==
  ASSUME LiveTree, NEW p \in Seq(Name), NEW q \in Seq(Name),
         End(meta.view, store, p) # {}, End(meta.view, store, p) = End(meta.view, store, q)
  PROVE  p = q
<1>1. Spans(meta.view, store, Used) /\ Branches(meta.view, store, Used)
  BY UsedSpans, LiveBranches DEF LiveTree
<1> QED
  BY <1>1, EndPath

\* Only a path of a call leads anywhere.
LEMMA UsedPath ==
  ASSUME LiveTree, NEW p \in Seq(Name), NEW n, End(meta.view, store, p) = {n}
  PROVE  n \in Used /\ p \in Paths
<1>1. Spans(meta.view, store, Used)
  BY UsedSpans DEF LiveTree
<1>2. n \in Used
  BY <1>1, EndIn
<1>3. CASE n = 1
  <2>1. <<>> \in Seq(Name) /\ End(meta.view, store, <<>>) = {1}
    BY EmptySeq, EndNothing
  <2>2. p = <<>>
    BY <1>3, <2>1, OnePath
  <2> QED
    BY <1>2, <2>2 DEF Paths
<1>4. CASE n # 1
  <2>1. PICK l \in Links : Link(l).inode = n
    BY <1>2, <1>4 DEF Used
  <2>2. PICK c \in Calls : End(meta.view, store, c.path) = {n}
    BY <2>1 DEF LiveTree, LinksInv, LinkAt, MadeBy
  <2>3. c.path \in Paths /\ c.path \in Seq(Name)
    BY PathsSeq DEF Paths
  <2>4. c.path = p
    BY <2>2, <2>3, OnePath
  <2> QED
    BY <1>2, <2>3, <2>4
<1> QED
  BY <1>3, <1>4

\* The path of an entry: it leads to the directory the entry is in, and the entry
\* is the first of its name there.
Leads(l, p) ==
    /\ p \in Paths /\ p \in Seq(Name) /\ p # <<>>
    /\ End(meta.view, store, p) = {Link(l).inode} /\ Last(p) = Link(l).name
    /\ First(Matches(store[l[1]], Link(l).name), l[2])
    /\ \E n \in Used : /\ End(meta.view, store, Front(p)) = {n}
                       /\ InodeAt(meta.view, n).i_block = l[1]

\* Every entry ends one path, whose front leads to its directory.
LEMMA LinkPath ==
  ASSUME LiveTree, NEW l \in Links
  PROVE  \E p : Leads(l, p)
<1> DEFINE m == Link(l).inode
<1>1. LinkAt(meta.view, store, m)
  BY DEF LiveTree, LinksInv
<1>2. PICK c \in Calls : End(meta.view, store, c.path) = {m}
  BY <1>1 DEF LinkAt, MadeBy
<1> DEFINE p == c.path
<1>3. p \in Paths /\ p \in Seq(Name)
  BY PathsSeq DEF Paths
<1>4. p # <<>>
  <2>1. m # 1
    BY <1>1 DEF LinkAt
  <2> HIDE DEF m
  <2>2. p = <<>> => {1} = {m}
    BY <1>2, EndNothing
  <2> QED
    BY <2>1, <2>2
<1> HIDE DEF p
<1>5. Front(p) \in Seq(Name) /\ Last(p) \in Name /\ p = Append(Front(p), Last(p))
  BY <1>3, <1>4, FrontLast
<1> DEFINE h == Front(p)
           x == Last(p)
<1> HIDE DEF h, x, m
<1>6. End(meta.view, store, Append(h, x)) = {m} /\ h \in Seq(Name) /\ x \in Name
  BY <1>2, <1>5 DEF h, x, p
<1>7. PICK n : End(meta.view, store, h) = {n}
  <2>1. OneOrNone(End(meta.view, store, h))
    BY <1>6, EndOne
  <2>2. End(meta.view, store, h) # {}
    BY <1>6, EndOnward
  <2> QED
    BY <2>1, <2>2 DEF OneOrNone
<1>8. ChildIn(meta.view, store, n, x) = {m}
  BY <1>6, <1>7, EndOnward
<1>9. TidyInv /\ m \in ChildIn(meta.view, store, n, x)
  BY <1>8 DEF LiveTree
<1>10. ChildFrom(n, x, m)
  BY <1>6, <1>9, ChildLink
<1> DEFINE b == InodeAt(meta.view, n).i_block
<1>11. PICK i \in Slot : First(Matches(store[b], x), i) /\ store[b][i].name = x
                         /\ <<b, i>> \in Links /\ Link(<<b, i>>).inode = m
  BY <1>10 DEF ChildFrom
<1>12. <<b, i>> = l
  BY <1>11, LinkPlace DEF m
<1> HIDE DEF b
<1>13. l[1] = b /\ l[2] = i /\ Link(l).name = x
  BY <1>11, <1>12 DEF Link
<1>14. n \in Used
  BY <1>6, <1>7, UsedPath
<1>15. /\ End(meta.view, store, p) = {Link(l).inode} /\ Last(p) = Link(l).name
       /\ First(Matches(store[l[1]], Link(l).name), l[2])
       /\ End(meta.view, store, Front(p)) = {n} /\ InodeAt(meta.view, n).i_block = l[1]
  BY <1>2, <1>7, <1>11, <1>13 DEF m, p, h, x, b
<1> QED
  BY <1>3, <1>4, <1>14, <1>15 DEF Leads

(***************************************************************************)
(* What a call finds in a directory                                        *)
(***************************************************************************)
\* No call goes through a regular file: what a path goes through has a block.
LEMMA ThroughDirs ==
  ASSUME LiveTree, NEW d \in Calls, d.path # <<>>, NEW n,
         End(meta.view, store, Front(d.path)) = {n}
  PROVE  InodeAt(meta.view, n).i_block # 0
<1>1. d.path \in Seq(Name)
  BY CallsAssumption
<1>2. Front(d.path) \in Seq(Name) /\ Len(Front(d.path)) + 1 = Len(d.path)
  BY <1>1, FrontLast
<1>3. n \in Used
  BY <1>2, UsedPath
<1>4. CASE n = 1
  BY <1>4, RootBlock, LiveFacts
<1>5. CASE n # 1
  <2>1. PICK l \in Links : Link(l).inode = n
    BY <1>3, <1>5 DEF Used
  <2>2. InodeIn(meta.view, n) = InodeAt(meta.view, n)
    BY <2>1, LiveFacts, InodeAtView DEF LiveTree, CoreInv, Context
  <2>3. LinkAt(meta.view, store, n)
    BY <2>1 DEF LiveTree, LinksInv
  <2>4. CASE InodeIn(meta.view, n).i_mode = "dir"
    <3>1. Own(meta.view, store, mapping.unsaved, l)
      BY <2>1, LiveFacts DEF LiveTree, CoreInv, DirsInv, OwnInv
    <3> QED
      BY <2>1, <2>2, <2>4, <3>1 DEF Own, Link
  <2>5. CASE InodeIn(meta.view, n).i_mode # "dir"
    <3>1. PICK c \in Calls : c.op = "create" /\ End(meta.view, store, c.path) = {n}
      BY <2>3, <2>5 DEF LinkAt, MadeBy
    <3>2. c.path \in Seq(Name)
      BY CallsAssumption
    <3>3. c.path = Front(d.path)
      BY <1>2, <3>1, <3>2, OnePath
    <3>4. Len(d.path) > Len(c.path) /\ SubSeq(d.path, 1, Len(c.path)) = c.path
      <4>1. Len(d.path) \in Nat /\ Len(Front(d.path)) \in Nat
        BY <1>1, <1>2
      <4>2. Len(c.path) = Len(d.path) - 1
        BY <1>2, <3>3, <4>1
      <4> QED
        BY <3>3, <4>1, <4>2 DEF Front
    <3> QED
      BY <3>1, <3>4, CallsAssumption
  <2> QED
    BY <2>4, <2>5
<1> QED
  BY <1>4, <1>5

\* A name is in a block once.
LEMMA NamesApart ==
  ASSUME LiveTree, NEW b \in DOMAIN store \ {0}, NEW i \in Slot, NEW j \in Slot,
         store[b][i].name \in Name, store[b][i].name = store[b][j].name
  PROVE  i = j
<1>1. TidyInv
  BY DEF LiveTree
<1>2. /\ <<b, i>> \in Links /\ Link(<<b, i>>).name = store[b][i].name
      /\ <<b, j>> \in Links /\ Link(<<b, j>>).name = store[b][j].name
  BY <1>1, NamedLink
<1>3. PICK p : Leads(<<b, i>>, p)
  BY <1>2, LinkPath
<1>4. PICK q : Leads(<<b, j>>, q)
  BY <1>2, LinkPath
<1>5. First(Matches(store[b], store[b][i].name), i)
  BY <1>2, <1>3 DEF Leads
<1>6. First(Matches(store[b], store[b][i].name), j)
  BY <1>2, <1>4 DEF Leads
<1>7. i <= j /\ j <= i
  BY <1>5, <1>6 DEF First
<1> QED
  BY <1>7 DEF Slot

\* empty_dir_slot finds room for a name that is not there yet.
LEMMA RoomLeft ==
  ASSUME LiveTree, Ordinary, NEW b \in DOMAIN store \ {0}, NEW x \in Name,
         Matches(store[b], x) = {}
  PROVE  FreeSlots(store[b]) # {}
<1> SUFFICES ASSUME FreeSlots(store[b]) = {} PROVE FALSE
  OBVIOUS
<1> DEFINE S == 3..NSlots
           f == [i \in S |-> store[b][i].name]
<1>1. NSlots \in Nat /\ NSlots >= 3 /\ S \subseteq Slot /\ \A i \in S : i \notin {1, 2}
  BY BoundAssumption DEF Slot
<1>2. ASSUME NEW i \in S PROVE store[b][i].name \in Name \ {x}
  <2>1. store[b][i].inode # 0 /\ store[b][i].name # x
    BY <1>1 DEF FreeSlots, Matches
  <2>2. Tidy(store[b])
    BY DEF LiveTree, TidyInv
  <2> QED
    BY <1>1, <2>1, <2>2 DEF Tidy
<1>3. f \in [S -> Name \ {x}]
  BY <1>2
<1>4. /\ IsFiniteSet(Name) /\ Cardinality(Name) \in Nat /\ NSlots >= Cardinality(Name) + 2
      /\ IsFiniteSet(Name \ {x}) /\ Cardinality(Name \ {x}) = Cardinality(Name) - 1
  BY FS_CardinalityType, FS_RemoveElement DEF Ordinary
<1>5. IsFiniteSet(S) /\ Cardinality(S) = NSlots - 2
  <2>1. 3 \in Int /\ NSlots \in Int /\ ~(3 > NSlots)
    BY <1>1
  <2>2. IsFiniteSet(3..NSlots)
        /\ Cardinality(3..NSlots) = IF 3 > NSlots THEN 0 ELSE NSlots - 3 + 1
    BY <2>1, FS_Interval
  <2> QED
    BY <1>1, <2>1, <2>2
<1>6. Cardinality(Name \ {x}) < Cardinality(S)
  BY <1>1, <1>4, <1>5
<1> HIDE DEF S, f
<1>7. PICK i, j \in S : i # j /\ f[i] = f[j]
  BY <1>3, <1>4, <1>5, <1>6, FS_PigeonHole
<1>8. store[b][i].name = store[b][j].name /\ store[b][i].name \in Name
  BY <1>2, <1>7 DEF f
<1>9. i \in Slot /\ j \in Slot
  BY <1>1
<1> QED
  BY <1>7, <1>8, <1>9, NamesApart

\* readdir: the names in the block of a directory are those of its children.
NamesIn(data) == {data[i].name : i \in {j \in Slot : data[j].inode # 0}} \cap Name
\* The children of a path in the tree.
ChildrenOf(path) == {x \in Name : Append(path, x) \in DOMAIN TreeOf(meta.view, store)}

\* The names in the block of a directory are its children in the tree.
LEMMA Listing ==
  ASSUME LiveTree, NEW path \in Seq(Name), NEW n, End(meta.view, store, path) = {n},
         NEW b, b = InodeAt(meta.view, n).i_block
  PROVE  ChildrenOf(path) = IF b = 0 THEN {} ELSE NamesIn(store[b])
<1>1. TidyInv /\ n \in Used
  BY UsedPath DEF LiveTree
<1>2. ASSUME NEW x \in ChildrenOf(path)
      PROVE  b # 0 /\ x \in NamesIn(store[b])
  <2>1. x \in Name /\ Append(path, x) \in DOMAIN TreeOf(meta.view, store)
    BY <1>2 DEF ChildrenOf
  <2>2. End(meta.view, store, Append(path, x)) # {}
    BY <2>1, TreeDomain
  <2>3. PICK m : m \in ChildIn(meta.view, store, n, x)
    BY <2>1, <2>2, EndOnward
  <2>4. ChildFrom(n, x, m)
    BY <1>1, <2>1, <2>3, ChildLink
  <2>5. PICK i \in Slot : store[b][i].name = x /\ <<b, i>> \in Links /\ b # 0
    BY <2>4 DEF ChildFrom
  <2>6. store[b][i].inode # 0
    BY <2>5, LiveFacts DEF Link
  <2> QED
    BY <2>1, <2>5, <2>6 DEF NamesIn
<1>3. ASSUME b # 0, NEW x \in NamesIn(store[b])
      PROVE  x \in ChildrenOf(path)
  <2>1. PICK i \in Slot : store[b][i].name = x /\ x \in Name
    BY <1>3 DEF NamesIn
  <2>2. b \in DOMAIN store \ {0} /\ store[b][1].inode = n
    BY <1>1, <1>3, Owner
  <2>3. <<b, i>> \in Links /\ Link(<<b, i>>) = store[b][i]
    BY <1>1, <2>1, <2>2, NamedLink
  <2>4. PICK p : Leads(<<b, i>>, p)
    BY <2>3, LinkPath
  <2>5. PICK m \in Used : End(meta.view, store, Front(p)) = {m} /\ InodeAt(meta.view, m).i_block = b
    BY <2>4 DEF Leads
  <2>6. m = n
    BY <1>3, <2>2, <2>5, Owner
  <2>7. /\ p \in Paths /\ p \in Seq(Name) /\ p # <<>> /\ Last(p) = x
        /\ End(meta.view, store, p) # {}
    BY <2>1, <2>3, <2>4 DEF Leads
  <2>8. Front(p) \in Seq(Name) /\ p = Append(Front(p), Last(p))
    BY <2>7, FrontLast
  <2>9. Front(p) = path
    BY <2>5, <2>6, <2>8, OnePath
  <2>10. Append(path, x) = p
    BY <2>7, <2>8, <2>9
  <2>11. p \in DOMAIN TreeOf(meta.view, store)
    BY <2>7, TreeDomain
  <2> QED
    BY <2>1, <2>10, <2>11 DEF ChildrenOf
<1> QED
  BY <1>2, <1>3

(***************************************************************************)
(* Steps that leave the tree as it is                                      *)
(***************************************************************************)
\* The directory keeps its block, and the block its entries.
SameDir(file, st, file2, st2, n) ==
    LET b == InodeAt(file, n).i_block
    IN  /\ Shaped(file, file2, n)
        /\ b # 0 => (b \in DOMAIN st <=> b \in DOMAIN st2)
        /\ b # 0 /\ b \in DOMAIN st => st2[b] = st[b]

LEMMA SameDirKin ==
  ASSUME NEW file, NEW st, NEW file2, NEW st2, NEW n, SameDir(file, st, file2, st2, n)
  PROVE  \A x : Kin(file, st, file2, st2, n, x)
<1> SUFFICES ASSUME NEW x PROVE ChildIn(file2, st2, n, x) = ChildIn(file, st, n, x)
  BY DEF Kin
<1> DEFINE b == InodeAt(file, n).i_block
           K == {k \in ({b} \cap (DOMAIN st \ {0})) \X Slot : First(Matches(st[k[1]], x), k[2])}
           K2 == {k \in ({b} \cap (DOMAIN st2 \ {0})) \X Slot : First(Matches(st2[k[1]], x), k[2])}
<1>1. InodeAt(file2, n).i_block = b
  BY DEF SameDir, Shaped
<1>2. b # 0 /\ b \in DOMAIN st => b \in DOMAIN st2 /\ st2[b] = st[b]
  BY DEF SameDir
<1>3. b # 0 /\ b \in DOMAIN st2 => b \in DOMAIN st
  BY DEF SameDir
<1>4. ChildIn(file, st, n, x) = {st[k[1]][k[2]].inode : k \in K}
  BY DEF ChildIn
<1>5. ChildIn(file2, st2, n, x) = {st2[k[1]][k[2]].inode : k \in K2}
  BY <1>1 DEF ChildIn
<1> HIDE DEF b
<1>6. K = K2
  BY <1>2, <1>3
<1>7. \A k \in K : st[k[1]][k[2]] = st2[k[1]][k[2]]
  BY <1>2
<1> HIDE DEF K, K2
<1> QED
  BY <1>4, <1>5, <1>6, <1>7

\* When every directory in use is the same, so are the paths and the tree.
LEMMA SameDirs2 ==
  ASSUME NEW file, NEW st, NEW file2, NEW st2, NEW U, Spans(file, st, U),
         \A n \in U : SameDir(file, st, file2, st2, n)
  PROVE  SameEnds(file, st, file2, st2) /\ TreeOf(file2, st2) = TreeOf(file, st)
<1>1. \A n \in U : \A x \in Name : Kin(file, st, file2, st2, n, x)
  BY SameDirKin
<1>2. SameEnds(file, st, file2, st2)
  BY <1>1, EndSame DEF SameEnds
<1>3. \A n \in U : Shaped(file, file2, n)
  BY DEF SameDir
<1> QED
  BY <1>2, <1>3, SameTree

\* A block an inode has is on the server.
LEMMA UsedBlock ==
  ASSUME CoreInv, Exact, NEW t \in Thread, NEW n \in Nat
  PROVE  HasBlock(InodeAt(meta.view, n), Top(pc[t], frame[t], superblock), store)
<1>1. InodeAt(meta.view, n) = InodeIn(meta.view, n)
  BY InodeAtView DEF CoreInv, Context
<1>2. CASE InodePos(n) \in DOMAIN meta.view
  <2>1. InodePos(n) # SuperPos
    BY DEF InodePos, SuperPos
  <2>2. InodeIn(meta.view, n) \in Inodes(meta.view)
    BY <1>2, <2>1 DEF InodeIn, Inodes
  <2> QED
    BY <1>1, <2>2 DEF CoreInv, EntriesInv, BlocksInv, Holders
<1>3. CASE InodePos(n) \notin DOMAIN meta.view
  BY <1>1, <1>3 DEF InodeIn, ZeroInode, HasBlock
<1> QED
  BY <1>2, <1>3

\* A mounted file system has a root: it was just formatted, or was loaded.
LEMMA LivePhases ==
  ASSUME CoreInv, LifeInv, NEW t \in Thread, Step(t)
  PROVE  \/ up = "init" /\ InitAt(pc[t], frame[t], meta, superblock)
         \/ up = "mounted" /\ Live /\ Exact
            /\ LiveAt(pc[t], frame[t], meta, superblock, AllNumbers)
         \/ up = "mounted" /\ Frozen /\ FrozenAt(pc[t], frame[t]) /\ ~mapping.open
  BY Phases DEF CoreInv, LifeInv, Rootless, Frozen, Exact

\* The inode a step writes is that of a number not in use, or keeps its shape.
LEMMA UsedKept ==
  ASSUME CoreInv, CoreInv', LifeInv, up = "mounted", NEW t \in Thread, Step(t), ~Die
  PROVE  \A n \in Used : Shaped(meta.view, meta'.view, n)
<1> SUFFICES ASSUME NEW n \in Used PROVE Shaped(meta.view, meta'.view, n)
  OBVIOUS
<1> DEFINE f == frame[t]
           no == f.node.i_inode_no
<1>1. n \in Nat /\ (n = 1 \/ n \in AllNumbers)
  BY UsedNat, LinkNumbers DEF CoreInv, Context, Used
<1>2. /\ InodeAt(meta.view, n) = InodeIn(meta.view, n)
      /\ InodeAt(meta'.view, n) = InodeIn(meta'.view, n)
  BY <1>1, InodeAtIn DEF CoreInv, Context, PlacedInv
<1>3. /\ no \in Nat
      /\ At(t, "write_inode") => InodeIn(meta'.view, no) = f.node
      /\ ~(At(t, "write_inode") /\ n = no) => InodeIn(meta'.view, n) = InodeIn(meta.view, n)
  BY <1>1, StepInodes DEF CoreInv
<1>4. CASE ~(At(t, "write_inode") /\ n = no)
  BY <1>2, <1>3, <1>4 DEF Shaped
<1>5. CASE At(t, "write_inode") /\ n = no
  <2>1. Live \/ (Frozen /\ FrozenAt(pc[t], f))
    BY LivePhases
  <2>2. ~Creating(pc[t], f)
    <3>1. Live /\ Creating(pc[t], f) => no >= 2 /\ \A k \in AllNumbers : k < no
      BY LivePhases DEF LiveAt, Frozen, Live
    <3>2. Live /\ Creating(pc[t], f) => FALSE
      BY <1>1, <1>3, <1>5, <3>1
    <3>3. FrozenAt(pc[t], f) => ~Creating(pc[t], f)
      BY <1>5 DEF FrozenAt, Creating, Numbered, Advanced, Saved, WritesInode, WritesSuper, At
    <3> QED
      BY <2>1, <3>2, <3>3
  <2>3. Agree(f.node, meta.view)
    <3>1. CASE Live
      <4>1. KnownAt(pc[t], f, superblock, meta.view)
        BY <3>1 DEF CoreInv, DirsInv, MakingInv, MakingAt, Exact, LifeInv
      <4> QED
        BY <2>2, <4>1 DEF KnownAt, Known
    <3>2. CASE Frozen
      BY <1>5, <3>2 DEF CoreInv, DirsInv, LoadedInv, LifeInv, WritesInode, At
    <3> QED
      BY <2>1, <3>1, <3>2
  <2> QED
    BY <1>2, <1>3, <1>5, <2>3 DEF Agree, Shaped
<1> QED
  BY <1>4, <1>5

\* Only a link changes a directory in use.
LEMMA StepDirs ==
  ASSUME CoreInv, CoreInv', LifeInv, LifeInv', up = "mounted", NEW t \in Thread, Step(t), ~Die,
         ~At(t, "link")
  PROVE  \A n \in Used : SameDir(meta.view, store, meta'.view, store', n)
<1> SUFFICES ASSUME NEW n \in Used PROVE SameDir(meta.view, store, meta'.view, store', n)
  OBVIOUS
<1> DEFINE f == frame[t]
           b == InodeAt(meta.view, n).i_block
<1>1. Shaped(meta.view, meta'.view, n)
  BY UsedKept
<1>2. CASE ~At(t, "dir_put")
  <2>1. UNCHANGED store
    BY <1>2, StepRemote DEF CoreInv, Context, LifeInv
  <2> QED
    BY <1>1, <2>1 DEF SameDir
<1>3. CASE At(t, "dir_put")
  <2>1. Exact
    BY <1>3, LivePhases DEF FrozenAt, At, WritesInode
  <2>2. store' = Stored(f.blk, block.data)
    BY <1>3, StepRemote DEF CoreInv, Context, LifeInv
  <2>3. f.blk = superblock.s_free_block /\ superblock.s_free_block \in Nat
    BY <1>3, <2>1 DEF CoreInv, EntriesInv, BlocksInv, EntriesAt, At, Context, TypeOK, Super
  <2>4. HasBlock(InodeAt(meta.view, n), superblock.s_free_block, store)
    <3>1. n \in Nat
      BY UsedNat DEF CoreInv, Context
    <3>2. Top(pc[t], f, superblock) = superblock.s_free_block
      BY <1>3 DEF Top, Raising, WritesInode, At
    <3> QED
      BY <2>1, <3>1, <3>2, UsedBlock
  <2>5. b # 0 => b \in DOMAIN store /\ b < superblock.s_free_block
    BY <2>4 DEF HasBlock
  <2>6. b # 0 => b # f.blk
    BY <2>3, <2>5
  <2>7. b # 0 => b \in DOMAIN store' /\ store'[b] = store[b]
    BY <2>2, <2>5, <2>6 DEF Stored
  <2> HIDE DEF b
  <2> QED
    BY <1>1, <2>5, <2>7 DEF SameDir, b
<1> QED
  BY <1>2, <1>3

\* Only a link changes the tree.
LEMMA StepTree ==
  ASSUME CoreInv, CoreInv', LifeInv, LifeInv', TidyInv, up = "mounted",
         NEW t \in Thread, Step(t), ~Die, ~At(t, "link")
  PROVE  SameEnds(meta.view, store, meta'.view, store')
         /\ TreeOf(meta'.view, store') = TreeOf(meta.view, store)
  BY UsedSpans, StepDirs, SameDirs2

\* The process dies: what the files lack shows in no path.
LEMMA DieTree ==
  ASSUME CoreInv, LifeInv, TidyInv, SavedInv, up # "init", Die
  PROVE  TreeOf(meta'.view, store') = TreeOf(meta.view, store)
<1>1. meta'.view = meta.disk /\ store' = [b \in DOMAIN store \ mapping.unsaved |-> store[b]]
  BY DEF Die, Down, Dropped, Opened
<1>2. \A n \in Used : Shaped(meta.view, meta.disk, n)
  BY DEF SavedInv
<1>3. ASSUME NEW n \in Used, NEW x \in Name
      PROVE  Kin(meta.view, store, meta'.view, store', n, x)
  <2> DEFINE b == InodeAt(meta.view, n).i_block
  <2>1. CASE b \in mapping.unsaved /\ b \in DOMAIN store \ {0}
    <3>1. Numbers(store[b]) = {} /\ NoFar(store[b])
      BY <2>1 DEF CoreInv, EntriesInv, UnsavedInv, Unnamed, LifeInv, TidyInv, Tidy
    <3>2. Matches(store[b], x) = {}
      BY <3>1 DEF Matches, NoFar, Numbers
    <3>3. ChildIn(meta.view, store, n, x) = {}
      BY <2>1, <3>2, ChildFound
    <3>4. InodeAt(meta'.view, n).i_block = b /\ b \notin DOMAIN store'
      BY <1>1, <1>2, <2>1 DEF Shaped
    <3>5. ChildIn(meta'.view, store', n, x) = {}
      BY <3>4 DEF ChildIn
    <3> QED
      BY <3>3, <3>5 DEF Kin
  <2>2. CASE ~(b \in mapping.unsaved /\ b \in DOMAIN store \ {0})
    <3>1. SameDir(meta.view, store, meta'.view, store', n)
      BY <1>1, <1>2, <2>2 DEF SameDir
    <3> QED
      BY <3>1, SameDirKin
  <2> QED
    BY <2>1, <2>2
<1>4. SameEnds(meta.view, store, meta'.view, store')
  BY <1>3, UsedSpans, EndSame DEF SameEnds
<1> QED
  BY <1>1, <1>2, <1>4, UsedSpans, SameTree

\* Before the root is made there is no name.
LEMMA BareNodes ==
  ASSUME CoreInv, TidyInv, up = "init" \/ DOMAIN store = {}
  PROVE  TreeOf(meta.view, store) = [p \in {<<>>} |-> "dir"]
<1>1. \A b \in DOMAIN store \ {0} : NoFar(store[b]) /\ Numbers(store[b]) = {}
  BY DEF TidyInv, Tidy, CoreInv, Context, NumbersInv, EmptyInv, AllNumbers
<1>2. \A n : \A x \in Name : ChildIn(meta.view, store, n, x) = {}
  BY <1>1, NoChildren
<1> QED
  BY <1>2, BareTree

LEMMA BareNodesNext ==
  ASSUME CoreInv', TidyInv', up' = "init"
  PROVE  TreeOf(meta'.view, store') = [p \in {<<>>} |-> "dir"]
<1>1. \A b \in DOMAIN store' \ {0} : NoFar(store'[b]) /\ Numbers(store'[b]) = {}
  BY DEF TidyInv, Tidy, CoreInv, Context, NumbersInv, EmptyInv, AllNumbers
<1>2. \A n : \A x \in Name : ChildIn(meta'.view, store', n, x) = {}
  BY <1>1, NoChildren
<1> QED
  BY <1>2, BareTree

(***************************************************************************)
(* What a thread has in hand                                               *)
(***************************************************************************)
Asked(f) == [op |-> f.op, path |-> f.path]

\* A directory gets its block.
DirMaking(l, f) ==
    \/ l \in {"dir_block", "dir_put", "dir_iblock", "dir_written", "bump_block", "dir_free"}
    \/ WritesInode(l) /\ f.ra = "dir_written"
    \/ WritesSuper(l) /\ f.ra \in {"dir_block", "dir_free"}

\* The call it serves, whatever the files hold.
ServedAt(l, f) ==
    /\ l # "idle" => f.op # "none"
    /\ f.op \notin {"none", "init"} => Asked(f) \in Calls /\ f.op # "unlink"
    /\ l \notin {"link", "done"} => f.data = ZeroBlock
    /\ l = "list" => f.op \in {"readdir", "read"}
    /\ l = "done" => f.ret # "none"
    /\ WritesInode(l) /\ f.ra = "done" => f.op = "utimens" /\ f.ret = "ok"
    /\ l \in {"lookup", "get_inode", "read_inode"} /\ f.ra = "named" =>
         f.op \in Mutators /\ f.comp = Last(f.path)
    /\ f.op = "create" => ~DirMaking(l, f)
    /\ f.op = "create" /\ Creating(l, f) => f.node.i_block = 0

ServedInv == \A t \in Thread : ServedAt(pc[t], frame[t])

\* From the lookup of the new name in its parent on.
Naming(l, f) == \/ l \in {"lookup", "get_inode", "read_inode"} /\ f.ra = "named"
                \/ l = "named"
                \/ Creating(l, f)

\* Where its path leads, and whether the name it makes is there.
PathAt(l, f, file, st) ==
    LET found == Matches(st[f.base.i_block], Last(f.path))
    IN  /\ l = "list" \/ (WritesInode(l) /\ f.ra = "done") =>
             End(file, st, f.path) = {f.node.i_inode_no}
        /\ Naming(l, f) => /\ End(file, st, Front(f.path)) = {f.base.i_inode_no}
                           /\ f.base.i_block # 0
        /\ l \in {"get_inode", "read_inode"} /\ f.ra = "named" => found # {}
        /\ l = "named" => (f.found <=> found # {})
        /\ Creating(l, f) => found = {}
        /\ l = "link" => f.slot # 0

\* What the thread has found so far is what its path leads to.
PathInv == up = "mounted" => \A t \in Thread : PathAt(pc[t], frame[t], meta.view, store)

(***************************************************************************)
(* The step that links a new inode                                         *)
(***************************************************************************)
\* An entry x is written over one without a name.
Written(data, s, x, no) == [data EXCEPT ![s] = [inode |-> no, name |-> x]]

\* What an entry written at s changes of the data.
WrittenAt(data, data2, s, x, no) ==
    /\ Matches(data2, x) = {s} /\ data2[s].inode = no
    /\ \A y : y # x /\ data[s].name # y => Matches(data2, y) = Matches(data, y)
    /\ \A i \in Slot \ {s} : data2[i] = data[i]

LEMMA EntryMatches ==
  ASSUME NEW data \in [Slot -> Entry], NEW s \in Slot, NEW x, NEW no, Matches(data, x) = {}
  PROVE  WrittenAt(data, Written(data, s, x, no), s, x, no)
<1> DEFINE data2 == Written(data, s, x, no)
<1>1. data2[s] = [inode |-> no, name |-> x] /\ \A i \in Slot \ {s} : data2[i] = data[i]
  BY DEF Written
<1> HIDE DEF data2
<1>2. data2[s].inode = no /\ data2[s].name = x
  BY <1>1
<1>3. \A i \in Slot : data[i].name # x
  BY DEF Matches
<1>4. Matches(data2, x) = {s}
  BY <1>1, <1>2, <1>3 DEF Matches
<1>5. ASSUME NEW y, y # x, data[s].name # y PROVE Matches(data2, y) = Matches(data, y)
  BY <1>1, <1>2, <1>5 DEF Matches
<1> QED
  BY <1>1, <1>2, <1>4, <1>5 DEF WrittenAt, data2

\* The entry is written to the block of directory n.
EntryWritten(file, st, st2, b, s, x, no, n) ==
    /\ b \in DOMAIN st \ {0} /\ st[b] \in [Slot -> Entry] /\ s \in Slot
    /\ Matches(st[b], x) = {}
    /\ DOMAIN st2 = DOMAIN st /\ st2[b] = Written(st[b], s, x, no)
    /\ InodeAt(file, n).i_block = b

LEMMA EntryChild ==
  ASSUME NEW file, NEW st, NEW st2, NEW b, NEW s, NEW x, NEW no, NEW n,
         EntryWritten(file, st, st2, b, s, x, no, n)
  PROVE  /\ ChildIn(file, st2, n, x) = {no}
         /\ \A y : y # x /\ st[b][s].name # y => Kin(file, st, file, st2, n, y)
<1>0. /\ b \in DOMAIN st \ {0} /\ st[b] \in [Slot -> Entry] /\ s \in Slot
      /\ Matches(st[b], x) = {}
      /\ DOMAIN st2 = DOMAIN st /\ st2[b] = Written(st[b], s, x, no)
      /\ InodeAt(file, n).i_block = b
  BY DEF EntryWritten
<1>1. /\ Matches(st2[b], x) = {s} /\ st2[b][s].inode = no
      /\ \A y : y # x /\ st[b][s].name # y => Matches(st2[b], y) = Matches(st[b], y)
      /\ \A i \in Slot \ {s} : st2[b][i] = st[b][i]
  <2>1. WrittenAt(st[b], Written(st[b], s, x, no), s, x, no)
    BY <1>0, EntryMatches
  <2>2. st2[b] = Written(st[b], s, x, no)
    BY <1>0
  <2> QED
    BY <2>1, <2>2 DEF WrittenAt
<1>a. b \in DOMAIN st2 /\ b \in DOMAIN st /\ b # 0 /\ InodeAt(file, n).i_block = b
  BY <1>0
<1>2. ChildIn(file, st2, n, x) = {no}
  <2>0. s \in Nat
    BY <1>0, BoundAssumption DEF Slot
  <2>1. s \in Nat /\ Matches(st2[b], x) = {s}
    BY <1>1, <2>0
  <2>2. \A j \in {s} : s <= j
    BY <2>1
  <2>3. First(Matches(st2[b], x), s)
    BY <2>1, <2>2 DEF First
  <2>4. ChildIn(file, st2, n, x) = {st2[b][s].inode}
    BY <1>0, <1>a, <2>3, ChildFound
  <2> QED
    BY <1>1, <2>4
<1>3. ASSUME NEW y, y # x, st[b][s].name # y PROVE ChildIn(file, st2, n, y) = ChildIn(file, st, n, y)
  <2>1. Matches(st2[b], y) = Matches(st[b], y) /\ s \notin Matches(st[b], y)
    BY <1>1, <1>3 DEF Matches
  <2>2. CASE Matches(st[b], y) = {}
    <3>1. ChildIn(file, st, n, y) = {}
      BY <1>a, <2>2, ChildFound
    <3>2. ChildIn(file, st2, n, y) = {}
      BY <1>a, <2>1, <2>2, ChildFound
    <3> QED
      BY <3>1, <3>2
  <2>3. CASE Matches(st[b], y) # {}
    <3>1. Matches(st[b], y) \in SUBSET Slot
      BY DEF Matches
    <3>2. PICK i \in Slot : First(Matches(st[b], y), i)
      BY <2>3, <3>1, FirstExists
    <3>3. i # s
      BY <2>1, <3>2 DEF First
    <3>4. ChildIn(file, st, n, y) = {st[b][i].inode}
      BY <1>a, <3>2, ChildFound
    <3>5. ChildIn(file, st2, n, y) = {st2[b][i].inode}
      BY <1>a, <2>1, <3>2, ChildFound
    <3> QED
      BY <1>1, <3>3, <3>4, <3>5
  <2> QED
    BY <2>2, <2>3
<1> QED
  BY <1>2, <1>3 DEF Kin

\* A file, and a directory just made, has no children.
LEMMA NewChildren ==
  ASSUME NEW file, NEW st, NEW n, NEW b, InodeAt(file, n).i_block = b,
         b = 0 \/ (b \in DOMAIN st /\ \E self, parent : st[b] = EmptyDir(self, parent))
  PROVE  \A x \in Name : ChildIn(file, st, n, x) = {}
<1> SUFFICES ASSUME NEW x \in Name PROVE ChildIn(file, st, n, x) = {}
  OBVIOUS
<1>1. CASE b = 0
  BY <1>1, ChildFound
<1>2. CASE b # 0
  <2>1. PICK self, parent : st[b] = EmptyDir(self, parent) /\ b \in DOMAIN st
    BY <1>2
  <2>2. \A i \in Slot : EmptyDir(self, parent)[i].name \notin Name
    BY NameAssumption DEF EmptyDir, NoEntry
  <2>3. Matches(st[b], x) = {}
    BY <2>1, <2>2 DEF Matches
  <2> QED
    BY <1>2, <2>1, <2>3, ChildFound
<1> QED
  BY <1>1, <1>2

\* What the step does, in the terms of the paths.
LinkedTo(f) ==
    LET no == f.node.i_inode_no
    IN  /\ meta' = meta
        /\ f.path \in Paths /\ f.path # <<>> /\ Front(f.path) \in Paths
        /\ End(meta.view, store, Front(f.path)) # {}
        /\ End(meta.view, store, f.path) = {}
        /\ \A p \in Seq(Name) :
             End(meta.view, store', p) = IF p = f.path THEN {no} ELSE End(meta.view, store, p)
        /\ no \in Nat /\ no >= 2 /\ InodeAt(meta.view, no) = f.node
        /\ f.op \in {"mkdir", "create"}
        /\ f.node.i_mode = IF f.op = "create" THEN "file" ELSE "dir"
        /\ f.op = "create" => f.node.i_block = 0

\* The link of a call adds the path of the call to the tree, and nothing else.
LEMMA LinkStep ==
  ASSUME LiveTree, LifeInv', Ordinary, ServedInv, PathInv,
         NEW t \in Thread, Step(t), At(t, "link"), ~Die
  PROVE  LinkedTo(frame[t])
<1> DEFINE f == frame[t]
           no == f.node.i_inode_no
           b == f.base.i_block
           s == f.slot
           x == Last(f.path)
           p0 == Front(f.path)
           n0 == f.base.i_inode_no
<1>1. /\ faults = 0 /\ Exact /\ up = "mounted" /\ f \in Frame /\ Creating(pc[t], f) /\ pc[t] = "link"
      /\ TypeOK /\ Context /\ faults' = 0
  BY LiveFacts, ThreadFrame DEF At, Creating, Saved, LiveTree, CoreInv, Context, LifeInv
<1>2. ServedAt(pc[t], f) /\ PathAt(pc[t], f, meta.view, store)
  BY <1>1 DEF ServedInv, PathInv
<1>3. /\ f.op \in {"mkdir", "create"} /\ Asked(f) \in Calls /\ f.path # <<>>
      /\ f.path \in Seq(Name) /\ x \in Name
  <2>1. f.op \in Mutators
    BY <1>1 DEF Context, ControlOK, Places
  <2>2. Asked(f) \in Calls /\ f.op # "unlink"
    BY <1>2, <2>1 DEF ServedAt, Mutators
  <2>3. f.op # "rmdir"
    BY <2>2 DEF Ordinary, Asked
  <2> QED
    BY <1>1, <2>1, <2>2, <2>3, ThreadFrame DEF Mutators, Frame
<1>4. /\ End(meta.view, store, p0) = {n0} /\ b # 0 /\ Matches(store[b], x) = {} /\ s # 0
  BY <1>1, <1>2 DEF PathAt, Naming
<1>5. p0 \in Seq(Name) /\ f.path = Append(p0, x)
  BY <1>3, FrontLast
<1>6. EntriesAt(pc[t], f, superblock, store, block)
  BY <1>1 DEF LiveTree, CoreInv, EntriesInv, BlocksInv
<1>7. /\ f.blk = b /\ b \in DOMAIN store /\ f.data = store[b] /\ f.data[s].inode = 0 /\ s \in Slot
  BY <1>1, <1>4, <1>6 DEF EntriesAt, Frame, Slot
<1>8. store[b] \in [Slot -> Entry]
  BY <1>1, <1>7 DEF TypeOK, Block
<1>9. store' = Stored(b, Linked(f)) /\ meta' = meta
  BY <1>1, <1>7, StepRemote, StepFlushed
<1>10. Linked(f) = [store[b] EXCEPT ![s] = [inode |-> no, name |-> x]]
  BY <1>4, <1>7 DEF Linked
<1>11. /\ DOMAIN store' = DOMAIN store /\ \A c \in DOMAIN store \ {b} : store'[c] = store[c]
       /\ store'[b] = [store[b] EXCEPT ![s] = [inode |-> no, name |-> x]]
  BY <1>7, <1>9, <1>10 DEF Stored
<1>12. MakingAt(pc[t], f, superblock, store, mapping.unsaved, meta)
  BY <1>1 DEF LiveTree, CoreInv, DirsInv, MakingInv
<1>13. no \in Nat /\ n0 \in Nat /\ InodeAt(meta.view, no) = InodeIn(meta.view, no)
       /\ InodeAt(meta.view, n0) = InodeIn(meta.view, n0)
  <2>1. no \in Nat /\ n0 \in Nat
    BY <1>1 DEF Frame, Inode
  <2> QED
    BY <1>1, <2>1, InodeAtView DEF Context
<1>14. no >= 2
  BY LiveFacts, <1>1 DEF LiveTree, CoreInv, Context, NumbersInv, LiveInv, LiveAt
<1>15. InodeAt(meta.view, n0).i_block = b
  BY <1>12, <1>13 DEF MakingAt, KnownAt, Known, Agree
<1>16. /\ InodeAt(meta.view, no) = f.node
       /\ f.node.i_mode = IF f.op = "create" THEN "file" ELSE "dir"
       /\ f.op = "create" => f.node.i_block = 0
  BY <1>1, <1>2, <1>12, <1>13 DEF MakingAt, MadeAt, WritesInode, ServedAt
<1>17. \A y \in Name : ChildIn(meta.view, store', no, y) = {}
  <2>1. CASE f.op = "create"
    BY <1>16, <2>1, NewChildren
  <2>2. CASE f.op # "create"
    <3>1. ~Blockless(pc[t], f)
      BY <1>1 DEF Blockless, Numbered, Advanced, WritesInode, WritesSuper
    <3>2. f.node.i_block \in DOMAIN store /\ f.node.i_block # b /\ IsDirOf(f, f.node.i_block, store)
      BY <1>1, <1>12, <2>2, <3>1 DEF MakingAt, BlockAt
    <3>3. f.node.i_block \in DOMAIN store' /\ store'[f.node.i_block] = store[f.node.i_block]
      BY <1>11, <3>2
    <3>4. \E self, parent : store'[f.node.i_block] = EmptyDir(self, parent)
      BY <3>2, <3>3 DEF IsDirOf
    <3> QED
      BY <1>16, <3>3, <3>4, NewChildren
  <2> QED
    BY <2>1, <2>2
<1>18. store[b][s].name \notin Name
  <2>1. store[b][s].name \in Name => <<b, s>> \in Links /\ Link(<<b, s>>) = store[b][s]
    BY <1>4, <1>7, NamedLink DEF LiveTree
  <2> QED
    BY <1>7, <2>1, LiveFacts
<1>19. n0 \in Used
  BY <1>4, <1>5, UsedPath
<1>20. Front(f.path) \in Paths /\ f.path \in Paths
  <2>1. p0 \in Paths
    BY <1>4, <1>5, UsedPath
  <2>2. f.path = Asked(f).path
    BY DEF Asked
  <2> QED
    BY <1>3, <2>1, <2>2 DEF Paths
<1>21. Spans(meta.view, store, Used) /\ Branches(meta.view, store, Used)
  BY UsedSpans, LiveBranches DEF LiveTree
<1> HIDE DEF f, no, b, s, x, p0, n0
<1>22. b \in DOMAIN store \ {0}
  BY <1>4, <1>7
<1>23. /\ ChildIn(meta.view, store', n0, x) = {no}
       /\ \A y : y # x /\ store[b][s].name # y => Kin(meta.view, store, meta.view, store', n0, y)
  <2> DEFINE st == store
             st2 == store'
             file == meta.view
  <2>1. /\ st[b] \in [Slot -> Entry] /\ s \in Slot /\ Matches(st[b], x) = {}
        /\ DOMAIN st2 = DOMAIN st /\ b \in DOMAIN st \ {0}
        /\ st2[b] = Written(st[b], s, x, no)
        /\ InodeAt(file, n0).i_block = b
    BY <1>4, <1>7, <1>8, <1>11, <1>15, <1>22 DEF Written
  <2> HIDE DEF st, st2, file
  <2>2. /\ ChildIn(file, st2, n0, x) = {no}
        /\ \A y : y # x /\ st[b][s].name # y => Kin(file, st, file, st2, n0, y)
    <3>1. EntryWritten(file, st, st2, b, s, x, no, n0)
      BY <2>1 DEF EntryWritten
    <3> QED
      BY <3>1, EntryChild
  <2> QED
    BY <2>2 DEF st, st2, file
<1>24. ChildIn(meta.view, store, n0, x) = {}
  BY <1>4, <1>15, <1>22, ChildFound
<1>25. ASSUME NEW n \in Used, NEW y \in Name, ~(n = n0 /\ y = x)
       PROVE  Kin(meta.view, store, meta.view, store', n, y)
  <2>1. CASE n = n0
    BY <1>18, <1>23, <1>25, <2>1
  <2>2. CASE n # n0
    <3>1. InodeAt(meta.view, n).i_block # b
      <4>1. store[b][1].inode = n0
        BY <1>4, <1>15, <1>19, Owner
      <4>2. InodeAt(meta.view, n).i_block = b => store[b][1].inode = n
        BY <1>4, Owner
      <4> QED
        BY <2>2, <4>1, <4>2
    <3>2. SameDir(meta.view, store, meta.view, store', n)
      BY <1>11, <3>1 DEF SameDir, Shaped
    <3> QED
      BY <3>2, SameDirKin
  <2> QED
    BY <2>1, <2>2
<1>26. \A p \in Seq(Name) :
         End(meta.view, store', p) = IF p = Append(p0, x) THEN {no} ELSE End(meta.view, store, p)
  <2> DEFINE st == store
             st2 == store'
             file == meta.view
  <2>1. x \in Name /\ p0 \in Seq(Name)
    BY <1>3, <1>5 DEF x, f
  <2>2. Spans(file, st, Used) /\ Branches(file, st, Used) /\ End(file, st, p0) = {n0}
    BY <1>4, <1>21
  <2>3. /\ ChildIn(file, st, n0, x) = {} /\ ChildIn(file, st2, n0, x) = {no}
        /\ \A y \in Name : ChildIn(file, st2, no, y) = {}
    BY <1>17, <1>23, <1>24
  <2>4. \A n \in Used : \A y \in Name : ~(n = n0 /\ y = x) => Kin(file, st, file, st2, n, y)
    BY <1>25
  <2> HIDE DEF st, st2, file
  <2>a. OneMore(file, st, file, st2, Used, n0, x, no, p0)
    BY <2>1, <2>2, <2>3, <2>4 DEF OneMore
  <2>5. \A p \in Seq(Name) :
          End(file, st2, p) = IF p = Append(p0, x) THEN {no} ELSE End(file, st, p)
    BY <2>a, EndLink
  <2> QED
    BY <2>5 DEF st, st2, file
<1>27. End(meta.view, store, Append(p0, x)) = {}
  BY <1>3, <1>4, <1>5, <1>24, EndOnward
<1>28. End(meta.view, store, p0) # {}
  BY <1>4
<1> QED
  BY <1>3, <1>5, <1>9, <1>13, <1>14, <1>16, <1>20, <1>26, <1>27, <1>28 DEF LinkedTo, f, no, x, p0

(***************************************************************************)
(* The life of the process                                                 *)
(***************************************************************************)
LEMMA NextCore == Serial /\ CoreInv /\ [Next]_vars => CoreInv'
<1> SUFFICES ASSUME Serial, CoreInv, [Next]_vars PROVE CoreInv'
  OBVIOUS
<1>1. Context' /\ DurableInv' /\ EntriesInv' /\ DirsInv' /\ FindInv'
  BY NextContext, NextRecorded, NextEntries, NextDirs, NextFind DEF CoreInv, Context
<1> QED
  BY <1>1 DEF CoreInv

\* No transfer fails where none may.
LEMMA StepNoFault ==
  ASSUME Ordinary, faults = 0, NEW t \in Thread, Step(t)
  PROVE  faults' = 0
<1> ~(faults < MaxFault)
  BY DEF Ordinary
<1>1. ASSUME NEW b, NEW data, Downloaded(b, data) PROVE faults' = 0
  BY <1>1 DEF Downloaded
<1>2. ASSUME NEW b, NEW data, NEW ret, Uploaded(b, data, ret) PROVE faults' = 0
  BY <1>2 DEF Uploaded, PutOk, PutFailed
<1>3. CASE Die
  BY <1>3 DEF Die, Down
<1>4. CASE find_inode(t) \/ get_inode(t) \/ read_inode(t) \/ walk(t) \/ resolved(t) \/ named(t)
  BY <1>4 DEF find_inode, get_inode, read_inode, walk, resolved, named, remote
<1>5. CASE lookup(t) \/ list(t) \/ slot(t)
  BY <1>1, <1>3, <1>5 DEF lookup, list, slot, remote
<1>6. CASE update_inode(t) \/ write_inode(t) \/ update_superblock(t) \/ write_superblock(t)
  BY <1>6 DEF update_inode, write_inode, update_superblock, write_superblock, remote
<1>7. CASE inode_written(t) \/ bump_inode(t) \/ dir_iblock(t) \/ dir_written(t) \/ bump_block(t)
  BY <1>7 DEF inode_written, bump_inode, dir_iblock, dir_written, bump_block, remote
<1>8. CASE dir_block(t) \/ dir_free(t) \/ done(t)
  BY <1>3, <1>8 DEF dir_block, dir_free, done, remote
<1>9. CASE dir_put(t) \/ link(t)
  BY <1>2, <1>9 DEF dir_put, link
<1> QED
  BY <1>4, <1>5, <1>6, <1>7, <1>8, <1>9 DEF Step

LEMMA NextNoFault ==
  ASSUME Ordinary, faults = 0, [Next]_vars
  PROVE  faults' = 0
<1>1. CASE \E t \in Thread : Step(t)
  BY <1>1, StepNoFault
<1>2. CASE \E t \in Thread : Mount(t)
  BY <1>2 DEF Mount, remote
<1>3. CASE \E t \in Thread : \E c \in Calls : Call(t, c)
  BY <1>3 DEF Call, Die, Down, remote
<1>4. CASE Unmount \/ Crash
  BY <1>4 DEF Unmount, Crash, Die, Down
<1>5. CASE UNCHANGED vars
  BY <1>5 DEF vars
<1> QED
  BY <1>1, <1>2, <1>3, <1>4, <1>5 DEF Next

\* The end of init, or of the process in it: the root is in the file.
FormattedAt(f) ==
    /\ f.node.i_inode_no = 1 /\ f.node.i_block # 0 /\ f.node.i_mode = "dir"
    /\ InodeIn(meta.view, 1) = f.node
    /\ RootDir(meta.view) /\ RootDir(meta.disk)
    /\ SameInodes(meta.view, meta.disk)
    /\ f.node.i_block \in DOMAIN store /\ store[f.node.i_block][1].inode = 1
    /\ Links = {}

\* At its last step init has made a root without entries, on the stream and the disk.
LEMMA InitReady ==
  ASSUME CoreInv, faults = 0, up = "init", NEW t \in Thread, At(t, "dir_free")
  PROVE  FormattedAt(frame[t])
<1> DEFINE f == frame[t]
<1>1. InitAt(pc[t], f, meta, superblock) /\ f.op = "init" /\ Exact
  BY DEF CoreInv, Context, NumbersInv, InitInv, PhaseInv, Exact
<1>2. MakingAt(pc[t], f, superblock, store, mapping.unsaved, meta)
  BY <1>1 DEF CoreInv, DirsInv, MakingInv
<1>3. pc[t] = "dir_free" /\ Creating(pc[t], f) /\ ~Blockless(pc[t], f) /\ ~WritesInode(pc[t])
  BY DEF At, Creating, Saved, Blockless, Numbered, Advanced, WritesInode, WritesSuper
<1>4. f.node.i_inode_no = 1 /\ f.node.i_block # 0
  BY <1>1, <1>3 DEF InitAt
<1>5. f.node.i_mode = "dir" /\ InodeIn(meta.view, 1) = f.node
  BY <1>1, <1>2, <1>3, <1>4 DEF MakingAt, MadeAt
<1>6. SameInodes(meta.view, meta.disk)
  BY <1>2, <1>3 DEF MakingAt, FlushedAt
<1>7. InodeIn(meta.disk, 1) = f.node
  BY <1>5, <1>6, SameInodesIn
<1>8. f.node.i_block \in DOMAIN store /\ store[f.node.i_block] = EmptyDir(1, 1)
  BY <1>1, <1>2, <1>3, <1>4 DEF MakingAt, BlockAt, IsDirOf, Parent
<1>9. store[f.node.i_block][1].inode = 1
  <2>1. 1 \in Slot
    BY BoundAssumption DEF Slot
  <2> QED
    BY <1>8, <2>1 DEF EmptyDir
<1>10. InodePos(1) \in DOMAIN meta.view /\ InodePos(1) \in DOMAIN meta.disk
  BY <1>4, <1>5, <1>7 DEF InodeIn, ZeroInode
<1>11. Links = {}
  <2>1. AllNumbers = {}
    BY DEF CoreInv, Context, NumbersInv, EmptyInv
  <2> QED
    BY <2>1, LinkNumbers
<1> QED
  BY <1>4, <1>5, <1>6, <1>7, <1>8, <1>9, <1>10, <1>11 DEF FormattedAt, RootDir

\* A step of init other than the last keeps the phase.
LEMMA InitStep ==
  ASSUME CoreInv, LifeInv, up = "init", NEW t \in Thread, Step(t)
  PROVE  \/ Die /\ At(t, "dir_free")
         \/ ~Die /\ up' = "init" /\ UNCHANGED root /\ root = ZeroInode
         \/ /\ ~Die /\ At(t, "dir_free") /\ up' = "mounted" /\ root' = frame[t].node
            /\ UNCHANGED <<meta, store, mapping>> /\ Goto(t, "idle", Idle)
<1> DEFINE f == frame[t]
<1>1. InitAt(pc[t], f, meta, superblock) /\ f.op = "init" /\ root = ZeroInode
  BY DEF CoreInv, Context, NumbersInv, InitInv, PhaseInv
<1>2. Creating(pc[t], f) /\ pc[t] \notin {"slot", "link"}
  BY <1>1 DEF InitAt
<1>3. pc[t] \notin {"lookup", "list", "done", "slot", "link", "find", "get_inode", "read_inode",
                    "walk", "resolved", "named"}
  BY <1>2 DEF Creating, Saved, Numbered, Advanced, WritesInode, WritesSuper
<1>4. CASE dir_free(t)
  BY <1>1, <1>4 DEF dir_free, remote, Die, Down
<1>5. CASE ~At(t, "dir_free")
  <2>1. up' = "init"
    <3>1. update_inode(t) \/ write_inode(t) \/ update_superblock(t) \/ write_superblock(t)
          \/ inode_written(t) \/ bump_inode(t) \/ dir_block(t) \/ dir_put(t) \/ dir_iblock(t)
          \/ dir_written(t) \/ bump_block(t)
      BY <1>3, <1>5 DEF Step, find_inode, lookup, get_inode, read_inode, walk, resolved, list,
         named, dir_free, slot, link, done, At
    <3> QED
      BY <3>1 DEF update_inode, write_inode, update_superblock, write_superblock,
         inode_written, bump_inode, dir_block, dir_put, dir_iblock, dir_written, bump_block
  <2>2. ~Die
    BY <2>1 DEF Die, Down
  <2>3. UNCHANGED root
    BY <1>5, <2>2, StepGlobals DEF CoreInv, Context
  <2> QED
    BY <1>1, <2>1, <2>2, <2>3
<1>6. CASE At(t, "dir_free")
  <2>1. dir_free(t)
    BY <1>6 DEF Step, find_inode, lookup, get_inode, read_inode, walk, resolved, list,
       named, update_inode, write_inode, update_superblock, write_superblock, inode_written,
       bump_inode, dir_block, dir_put, dir_iblock, dir_written, bump_block, slot, link, done, At
  <2> QED
    BY <1>4, <2>1
<1> QED
  BY <1>5, <1>6

(***************************************************************************)
(* The inductive invariant of the tree                                     *)
(***************************************************************************)
LEMMA IdleServed ==
  /\ ServedAt("idle", Idle)
  /\ \A file, st : PathAt("idle", Idle, file, st)
<1>1. Idle.op = "none" /\ Idle.data = ZeroBlock /\ ~Creating("idle", Idle) /\ ~DirMaking("idle", Idle)
  BY DEF Idle, Creating, Saved, Numbered, Advanced, WritesInode, WritesSuper, DirMaking
<1> QED
  BY <1>1 DEF ServedAt, PathAt, Naming, WritesInode

\* With CoreInv, what every step keeps.
TreeInv == LifeInv /\ TidyInv /\ SavedInv /\ LinksInv /\ ServedInv /\ PathInv

\* The process ends: what it leaves is a file and blocks.
LEMMA DownTree ==
  ASSUME TidyInv, faults = 0, NEW file, Down(Opened(file)), ~mapping'.open,
         file = Empty \/ RootDir(file),
         DOMAIN store' \subseteq DOMAIN store, \A b \in DOMAIN store' : store'[b] = store[b]
  PROVE  TreeInv'
<1>1. /\ up' = "unmounted" /\ meta'.view = file /\ meta'.disk = file /\ faults' = 0
      /\ \A t \in Thread : pc'[t] = "idle" /\ frame'[t] = Idle
  BY DEF Down, Opened
<1>2. LifeInv'
  BY <1>1 DEF LifeInv
<1>3. TidyInv'
  BY DEF TidyInv
<1>4. SavedInv'
  <2>1. \A n : Shaped(meta'.view, meta'.disk, n)
    BY <1>1 DEF Shaped
  <2> QED
    BY <2>1 DEF SavedInv
<1>5. LinksInv'
  BY DEF LinksInv, Live
<1>6. ServedInv'
  BY <1>1, IdleServed DEF ServedInv
<1>7. PathInv'
  BY <1>1 DEF PathInv
<1> QED
  BY <1>2, <1>3, <1>4, <1>5, <1>6, <1>7 DEF TreeInv

LEMMA DieKept ==
  ASSUME CoreInv, TreeInv, Die, up = "init" => \E t \in Thread : At(t, "dir_free")
  PROVE  TreeInv'
<1>1. /\ Down(Opened(meta.disk)) /\ ~mapping'.open /\ DOMAIN store' \subseteq DOMAIN store
      /\ \A b \in DOMAIN store' : store'[b] = store[b]
  BY DEF Die, Dropped
<1>2. meta.disk = Empty \/ RootDir(meta.disk)
  <2>1. CASE up = "init"
    BY <2>1, InitReady DEF TreeInv, LifeInv, FormattedAt
  <2>2. CASE up # "init"
    BY <2>2 DEF TreeInv, LifeInv
  <2> QED
    BY <2>1, <2>2
<1>3. TidyInv /\ faults = 0
  BY DEF TreeInv, LifeInv
<1> QED
  BY <1>1, <1>2, <1>3, DownTree

LEMMA StopKept ==
  ASSUME Ordinary, CoreInv, TreeInv, Unmount \/ Crash
  PROVE  TreeInv'
<1>1. Unmount /\ up = "mounted"
  BY DEF Ordinary, Crash, Unmount
<1>2. CASE Die
  BY <1>1, <1>2, DieKept
<1>3. CASE ~Die
  <2>1. Down(Opened(meta.view)) /\ UNCHANGED store /\ ~mapping'.open
    BY <1>1, <1>3 DEF Unmount, Closed
  <2>2. RootDir(meta.view) /\ TidyInv /\ faults = 0
    BY <1>1 DEF TreeInv, LifeInv
  <2> QED
    BY <2>1, <2>2, DownTree
<1> QED
  BY <1>2, <1>3

LEMMA MountKept ==
  ASSUME Serial, CoreInv, TreeInv, NEW t \in Thread, Mount(t)
  PROVE  TreeInv'
<1>1. /\ up = "unmounted" /\ UNCHANGED <<block, store, mapping, faults>> /\ ~mapping.open
      /\ root = ZeroInode /\ meta.view = meta.disk /\ \A u \in Thread : pc[u] = "idle"
      /\ Context /\ faults = 0
  BY MountFrame DEF CoreInv, TreeInv, LifeInv
<1>2. TidyInv'
  BY <1>1 DEF TreeInv, TidyInv
<1>3. LinksInv'
  BY <1>1 DEF LinksInv, Live
<1>4. CASE meta.disk = Empty
  <2>1. /\ up' = "init" /\ pc' = [pc EXCEPT ![t] = "update_inode"]
        /\ frame' = [frame EXCEPT ![t] = [Idle EXCEPT !.op = "init", !.ra = "inode_written",
                                           !.node = NewInode(Fresh.s_free_inode, "init")]]
    BY <1>4 DEF Mount, Goto
  <2>2. LifeInv' /\ SavedInv' /\ PathInv'
    BY <1>1, <2>1 DEF LifeInv, SavedInv, PathInv
  <2> DEFINE g == [Idle EXCEPT !.op = "init", !.ra = "inode_written",
                               !.node = NewInode(Fresh.s_free_inode, "init")]
  <2>3. frame' = [frame EXCEPT ![t] = g] /\ g.op = "init" /\ g.data = ZeroBlock
        /\ g.ra = "inode_written"
    <3>1. g.op = "init" /\ g.data = ZeroBlock /\ g.ra = "inode_written"
      BY DEF Idle
    <3> QED
      BY <2>1, <3>1
  <2> HIDE DEF g
  <2>4. ServedAt("update_inode", g)
    BY <2>3 DEF ServedAt, WritesInode
  <2>5. \A u \in Thread : u = t /\ pc'[u] = "update_inode" /\ frame'[u] = g
    BY <1>1, <2>1, <2>3 DEF Serial, Context, TypeOK
  <2>6. ServedInv'
    BY <2>4, <2>5 DEF ServedInv
  <2> QED
    BY <1>2, <1>3, <2>2, <2>6 DEF TreeInv
<1>5. CASE meta.disk # Empty
  <2>1. /\ up' = "mounted" /\ meta'.view = meta.view /\ meta'.disk = meta.view
        /\ UNCHANGED <<pc, frame>>
        /\ root' \in InodesRead(Seek(meta, InodePos(1)), ZeroInode)
    BY <1>1, <1>5, MountFrame
  <2>2. RootDir(meta.view) /\ RootDir(meta.disk)
    BY <1>1, <1>5 DEF TreeInv, LifeInv
  <2>3. root' = meta.view[InodePos(1)]
    <3> DEFINE s == Seek(meta, InodePos(1))
    <3>1. s.view = meta.view /\ s.pos = 2 /\ ~s.mid
      BY DEF Seek, InodePos
    <3>2. 2 \in DOMAIN s.view /\ s.view[2] \in Inode /\ ~AtEnd(s)
      <4>1. InPlace(meta.view) /\ 2 \in DOMAIN meta.view
        BY <1>1, <2>2 DEF Context, PlacedInv, RootDir, InodePos
      <4>2. s.view[2] \in Inode
        BY <3>1, <4>1 DEF InPlace, SuperPos
      <4> QED
        BY <3>1, <4>1, <4>2 DEF AtEnd
    <3>3. InodesRead(s, ZeroInode) = {s.view[2]}
      BY <3>1, <3>2 DEF InodesRead, SuperPos
    <3> QED
      BY <2>1, <3>1, <3>3 DEF InodePos
  <2>4. LifeInv'
    BY <1>1, <2>1, <2>2, <2>3 DEF LifeInv, RootDir, InodeIn
  <2>5. SavedInv'
    <3>1. \A n : Shaped(meta'.view, meta'.disk, n)
      BY <2>1 DEF Shaped
    <3> QED
      BY <3>1 DEF SavedInv
  <2>6. ServedInv'
    BY <2>1 DEF ServedInv, TreeInv
  <2>7. PathInv'
    <3>1. ASSUME NEW u \in Thread PROVE PathAt(pc'[u], frame'[u], meta'.view, store')
      <4>1. pc'[u] = "idle" /\ frame'[u] = Idle
        BY <1>1, <2>1 DEF Context, NumbersInv, PhaseInv
      <4> QED
        BY <4>1, IdleServed
    <3> QED
      BY <3>1 DEF PathInv
  <2> QED
    BY <1>2, <1>3, <2>4, <2>5, <2>6, <2>7 DEF TreeInv
<1> QED
  BY <1>4, <1>5

LEMMA CallKept ==
  ASSUME Serial, Ordinary, CoreInv, TreeInv, NEW t \in Thread, NEW c \in Calls, Call(t, c)
  PROVE  TreeInv'
<1>1. CASE Die
  <2>1. up = "mounted"
    BY DEF Call
  <2> QED
    BY <1>1, <2>1, DieKept
<1>2. CASE ~Die
  <2>1. /\ UNCHANGED <<up, superblock, root, meta, block, store, mapping, faults>>
        /\ At(t, "idle") /\ Context
    BY <1>2, CallFrame DEF CoreInv, At
  <2>2. c.op # "unlink" /\ c.op # "write" /\ c.op \in Mutators \cup Readers
    BY <1>2, CallsAssumption DEF Call, Ordinary
  <2> DEFINE g == [Idle EXCEPT !.op = c.op, !.path = c.path]
  <2>3. Goto(t, "find", g)
    BY <2>2 DEF Call
  <2>4. g.op = c.op /\ g.path = c.path /\ g.data = ZeroBlock
    BY DEF Idle
  <2>5. Asked(g) \in Calls
    <3>1. c = [op |-> c.op, path |-> c.path]
      BY CallsAssumption
    <3> QED
      BY <2>4, <3>1 DEF Asked
  <2> HIDE DEF g
  <2>6. ServedAt("find", g)
    <3>1. ~Creating("find", g) /\ ~DirMaking("find", g) /\ c.op # "none"
      BY <2>2 DEF Creating, Saved, Numbered, Advanced, WritesInode, WritesSuper, DirMaking,
         Mutators, Readers
    <3> QED
      BY <2>2, <2>4, <2>5, <3>1 DEF ServedAt, WritesInode
  <2>7. \A u \in Thread : pc'[u] = "find" /\ frame'[u] = g
    BY <2>1, <2>3, SerialThread DEF Context
  <2>8. ServedInv'
    BY <2>6, <2>7 DEF ServedInv
  <2>9. PathInv'
    <3>1. PathAt("find", g, meta'.view, store')
      BY DEF PathAt, Naming, Creating, Saved, Numbered, Advanced, WritesInode, WritesSuper
    <3> QED
      BY <2>7, <3>1 DEF PathInv
  <2>10. LifeInv' /\ TidyInv' /\ SavedInv' /\ LinksInv'
    BY <2>1 DEF TreeInv, LifeInv, TidyInv, SavedInv, LinksInv, Live, Links, Link, Used
  <2> QED
    BY <2>8, <2>9, <2>10 DEF TreeInv
<1> QED
  BY <1>1, <1>2

LEMMA SameKept ==
  ASSUME TreeInv, UNCHANGED vars
  PROVE  TreeInv'
  BY DEF vars, TreeInv, LifeInv, TidyInv, SavedInv, LinksInv, Live, Links, Link, Used,
     ServedInv, PathInv

LEMMA InitTreeInv == Init => TreeInv
<1> SUFFICES ASSUME Init PROVE TreeInv
  OBVIOUS
<1>1. /\ up = "unmounted" /\ meta.view = Empty /\ meta.disk = Empty /\ DOMAIN store = {}
      /\ ~mapping.open /\ faults = 0
      /\ \A t \in Thread : pc[t] = "idle" /\ frame[t] = Idle
  BY DEF Init, Opened
<1>2. LifeInv /\ TidyInv /\ SavedInv /\ LinksInv /\ PathInv
  BY <1>1 DEF LifeInv, TidyInv, SavedInv, LinksInv, Live, PathInv, Shaped
<1>3. ServedInv
  BY <1>1, IdleServed DEF ServedInv
<1> QED
  BY <1>2, <1>3 DEF TreeInv

(***************************************************************************)
(* The life, the blocks and the disk, step by step                         *)
(***************************************************************************)
LEMMA StepLife ==
  ASSUME Ordinary, CoreInv, CoreInv', TreeInv, NEW t \in Thread, Step(t), ~Die
  PROVE  LifeInv'
<1>1. LifeInv /\ faults' = 0 /\ Context /\ Context'
  BY StepNoFault DEF TreeInv, LifeInv, CoreInv
<1>2. CASE up = "init"
  <2>1. CASE up' = "init"
    BY <1>1, <2>1 DEF LifeInv
  <2>2. CASE up' # "init"
    <3>1. /\ At(t, "dir_free") /\ up' = "mounted" /\ root' = frame[t].node /\ UNCHANGED meta
      BY <1>1, <1>2, <2>2, InitStep
    <3>2. FormattedAt(frame[t])
      BY <1>1, <1>2, <3>1, InitReady DEF LifeInv
    <3> QED
      BY <1>1, <3>1, <3>2 DEF LifeInv, FormattedAt
  <2> QED
    BY <2>1, <2>2
<1>3. CASE up # "init"
  <2>1. up = "mounted" /\ RootDir(meta.view) /\ RootDir(meta.disk) /\ root.i_block # 0
        /\ root.i_mode = "dir"
    BY <1>1, <1>3, StepUp DEF Context, TypeOK, LifeInv
  <2>2. UNCHANGED <<up, root>>
    BY <1>1, <1>3, SamePhase
  <2>3. Shaped(meta.view, meta'.view, 1)
    <3>1. 1 \in Used
      BY DEF Used
    <3> QED
      BY <1>1, <2>1, <3>1, UsedKept
  <2>4. /\ InodeAt(meta.view, 1) = InodeIn(meta.view, 1)
        /\ InodeAt(meta'.view, 1) = InodeIn(meta'.view, 1)
    BY <1>1, InodeAtIn DEF Context, PlacedInv
  <2>5. RootDir(meta'.view)
    BY <2>1, <2>3, <2>4 DEF RootDir, Shaped, InodeIn, ZeroInode
  <2>6. meta'.disk \in {meta.disk, meta.view}
    BY <1>1, StepInodes
  <2>7. RootDir(meta'.disk)
    BY <2>1, <2>6
  <2> QED
    BY <1>1, <2>1, <2>2, <2>5, <2>7 DEF LifeInv
<1> QED
  BY <1>2, <1>3

\* The block of a new directory is tidy.
LEMMA TidyEmpty == \A self, parent : Tidy(EmptyDir(self, parent))
<1> SUFFICES ASSUME NEW self, NEW parent PROVE Tidy(EmptyDir(self, parent))
  OBVIOUS
<1> DEFINE data == EmptyDir(self, parent)
<1>1. \A i \in Slot : data[i].name \notin Name
  BY NameAssumption DEF EmptyDir, NoEntry
<1>2. \A i \in Slot \ {1, 2} : data[i].inode = 0
  BY DEF EmptyDir, NoEntry
<1> HIDE DEF data
<1>3. Tidy(data)
  BY <1>1, <1>2 DEF Tidy, NoFar
<1> QED
  BY <1>3 DEF data

\* Where a put comes from.
LEMMA PutExact ==
  ASSUME CoreInv, LifeInv, NEW t \in Thread, Step(t), At(t, "dir_put") \/ At(t, "link")
  PROVE  Exact /\ (At(t, "link") => up = "mounted" /\ Live)
<1>1. Creating(pc[t], frame[t])
  BY DEF At, Creating, Saved
<1> QED
  BY LivePhases DEF At, FrozenAt, InitAt, WritesInode, Exact, LifeInv

LEMMA StepTidy ==
  ASSUME Ordinary, CoreInv, TreeInv, NEW t \in Thread, Step(t), ~Die
  PROVE  TidyInv'
<1> DEFINE f == frame[t]
<1>1. LifeInv /\ TidyInv /\ faults' = 0 /\ Context /\ f \in Frame /\ TypeOK
  BY StepNoFault, ThreadFrame DEF TreeInv, LifeInv, CoreInv, Context
<1>2. CASE ~At(t, "dir_put") /\ ~At(t, "link")
  <2>1. UNCHANGED store
    BY <1>1, <1>2, StepRemote
  <2> QED
    BY <1>1, <2>1 DEF TidyInv
<1>3. CASE At(t, "dir_put")
  <2>1. EntriesAt(pc[t], f, superblock, store, block)
    BY <1>1, <1>3, PutExact DEF CoreInv, EntriesInv, BlocksInv
  <2>2. store' = Stored(f.blk, block.data) /\ Tidy(block.data)
    BY <1>1, <1>3, <2>1, StepRemote, TidyEmpty DEF EntriesAt, At
  <2> QED
    BY <1>1, <2>2 DEF TidyInv, Stored
<1>4. CASE At(t, "link")
  <2>1. EntriesAt(pc[t], f, superblock, store, block)
    BY <1>1, <1>4, PutExact DEF CoreInv, EntriesInv, BlocksInv
  <2>2. store' = Stored(f.blk, Linked(f))
    BY <1>1, <1>4, StepRemote
  <2>3. CASE f.blk = 0
    BY <1>1, <2>2, <2>3 DEF TidyInv, Stored
  <2>4. CASE f.blk # 0
    <3>1. f.blk \in DOMAIN store /\ f.data = store[f.blk] /\ f.slot \in Slot /\ f.slot # 0
      BY <1>1, <1>4, <2>1, <2>4 DEF EntriesAt, At, Frame, Slot
    <3>2. Linked(f) = [store[f.blk] EXCEPT ![f.slot] = [inode |-> f.node.i_inode_no,
                                                        name |-> Last(f.path)]]
      BY <3>1 DEF Linked
    <3>3. store[f.blk] \in [Slot -> Entry] /\ Tidy(store[f.blk])
      BY <1>1, <2>4, <3>1 DEF TypeOK, Block, TidyInv
    <3>4. f.node.i_inode_no # Far /\ Last(f.path) \in Name
      <4>1. Creating(pc[t], f) /\ f.op \in Mutators /\ pc[t] = "link"
        BY <1>1, <1>4 DEF At, Creating, Saved, Context, ControlOK, Places
      <4>2. f.node.i_inode_no < MaxInode
        BY <4>1 DEF CoreInv, FindInv, RoomInv, RoomAt
      <4> QED
        BY <1>1, <4>1, <4>2, ThreadFrame, BoundAssumption DEF Far, Frame, Inode
    <3> DEFINE data == Linked(f)
               e == [inode |-> f.node.i_inode_no, name |-> Last(f.path)]
    <3>5. data[f.slot] = e /\ \A i \in Slot \ {f.slot} : data[i] = store[f.blk][i]
      BY <3>1, <3>2, <3>3
    <3>6. e.inode # Far /\ e.name \in Name
      BY <3>4
    <3> HIDE DEF data, e
    <3>7. Tidy(data)
      BY <3>3, <3>5, <3>6 DEF Tidy, NoFar
    <3>8. store' = Stored(f.blk, data)
      BY <2>2 DEF data
    <3> QED
      BY <1>1, <3>7, <3>8 DEF TidyInv, Stored
  <2> QED
    BY <2>3, <2>4
<1> QED
  BY <1>2, <1>3, <1>4

\* Which inodes the entries name, after a step that links none.
LEMMA UsedSame ==
  ASSUME CoreInv, LifeInv, NEW t \in Thread, Step(t), ~Die, ~At(t, "link"), faults' = 0
  PROVE  Links' = Links /\ Used' = Used /\ \A l \in Links : store'[l[1]][l[2]] = Link(l)
<1>1. Links' = Links /\ \A l \in Links : store'[l[1]][l[2]] = Link(l)
  <2>1. CASE At(t, "dir_put")
    BY <2>1, PutExact, StepLinks DEF CoreInv, EntriesInv
  <2>2. CASE ~At(t, "dir_put")
    <3>1. UNCHANGED store
      BY <2>2, StepRemote DEF CoreInv, Context
    <3> QED
      BY <3>1, SameLinks
  <2> QED
    BY <2>1, <2>2
<1>2. Used' = Used
  BY <1>1 DEF Used, Link
<1> QED
  BY <1>1, <1>2

LEMMA StepSaved ==
  ASSUME Ordinary, CoreInv, CoreInv', TreeInv, NEW t \in Thread, Step(t), ~Die
  PROVE  SavedInv'
<1>1. LifeInv /\ faults' = 0 /\ Context /\ Context'
  BY StepNoFault DEF TreeInv, LifeInv, CoreInv
<1>2. CASE up = "init" \/ At(t, "link")
  <2> SUFFICES ASSUME up' # "init", NEW n \in Used' PROVE Shaped(meta'.view, meta'.disk, n)
    BY DEF SavedInv
  <2>1. UNCHANGED meta /\ SameInodes(meta.view, meta.disk)
    <3>1. CASE up = "init"
      BY <1>1, <3>1, InitStep, InitReady DEF LifeInv, FormattedAt
    <3>2. CASE At(t, "link")
      <4>1. MakingAt(pc[t], frame[t], superblock, store, mapping.unsaved, meta)
        BY <1>1, <3>2, PutExact DEF CoreInv, DirsInv, MakingInv
      <4> QED
        BY <1>1, <3>2, <4>1, StepFlushed DEF MakingAt, FlushedAt, At
    <3> QED
      BY <1>2, <3>1, <3>2
  <2>2. n \in Nat
    <3>1. store' \in [DOMAIN store' -> Block]
      BY <1>1 DEF Context, TypeOK
    <3>2. \A l \in Links' : store'[l[1]][l[2]].inode \in Nat
      BY <3>1 DEF Links, Block, Entry
    <3> QED
      BY <3>2 DEF Used, Link
  <2>3. InodeIn(meta.view, n) = InodeIn(meta.disk, n)
    BY <2>1, <2>2, SameInodesIn
  <2>4. InodeAt(meta.view, n) = InodeIn(meta.view, n) /\ InodeAt(meta.disk, n) = InodeIn(meta.disk, n)
    BY <1>1, <2>2, InodeAtView DEF Context
  <2> QED
    BY <2>1, <2>3, <2>4 DEF Shaped
<1>3. CASE up # "init" /\ ~At(t, "link")
  <2>1. up = "mounted"
    BY <1>1, <1>3, StepUp DEF Context, TypeOK
  <2>2. Used' = Used
    BY <1>1, <1>3, UsedSame
  <2>3. \A n \in Used : Shaped(meta.view, meta'.view, n) /\ Shaped(meta.view, meta.disk, n)
    BY <1>1, <1>3, <2>1, UsedKept DEF TreeInv, SavedInv
  <2>4. meta'.disk \in {meta.disk, meta.view}
    BY <1>1, StepInodes
  <2>5. ASSUME NEW n \in Used PROVE Shaped(meta'.view, meta'.disk, n)
    BY <2>3, <2>4 DEF Shaped
  <2> QED
    BY <2>2, <2>5 DEF SavedInv
<1> QED
  BY <1>2, <1>3

\* What the entries name stays so where paths lead where they led.
LEMMA LinkAtKept ==
  ASSUME NEW file, NEW st, NEW file2, NEW st2, NEW n, LinkAt(file, st, n),
         InodeIn(file2, n).i_block = InodeIn(file, n).i_block,
         InodeIn(file2, n).i_mode = InodeIn(file, n).i_mode,
         \A p \in Seq(Name) : End(file, st, p) = {n} => End(file2, st2, p) = {n}
  PROVE  LinkAt(file2, st2, n)
<1>1. PICK c \in Calls : /\ c.op = IF InodeIn(file, n).i_mode = "dir" THEN "mkdir" ELSE "create"
                         /\ End(file, st, c.path) = {n}
  BY DEF LinkAt, MadeBy
<1>2. c.path \in Seq(Name)
  BY CallsAssumption
<1>3. End(file2, st2, c.path) = {n}
  BY <1>1, <1>2
<1>4. MadeBy(file2, st2, n)
  BY <1>1, <1>3 DEF MadeBy
<1> QED
  BY <1>4 DEF LinkAt

LEMMA StepLinksInv ==
  ASSUME Serial, Ordinary, CoreInv, CoreInv', LifeInv', TreeInv, NEW t \in Thread, Step(t), ~Die
  PROVE  LinksInv'
<1> DEFINE f == frame[t]
           no == f.node.i_inode_no
<1>1. LifeInv /\ TidyInv /\ LinksInv /\ faults' = 0 /\ Context /\ Context' /\ Thread # {}
  BY StepNoFault DEF TreeInv, LifeInv, CoreInv
<1>2. CASE up = "init"
  <2>1. CASE up' = "init"
    <3>1. root'.i_block = 0
      BY <1>1, <1>2, <2>1, InitStep DEF ZeroInode
    <3> QED
      BY <3>1 DEF LinksInv, Live
  <2>2. CASE up' # "init"
    <3>1. At(t, "dir_free") /\ root' = frame[t].node /\ UNCHANGED store
      BY <1>1, <1>2, <2>2, InitStep
    <3>2. FormattedAt(frame[t])
      BY <1>1, <1>2, <3>1, InitReady DEF LifeInv
    <3>3. Links' = {}
      BY <3>1, <3>2 DEF FormattedAt, Links, Link
    <3> QED
      BY <3>1, <3>2, <3>3 DEF LinksInv, FormattedAt
  <2> QED
    BY <2>1, <2>2
<1>3. CASE up # "init"
  <2> SUFFICES ASSUME Live' PROVE /\ store'[root'.i_block][1].inode = 1
                                  /\ \A l \in Links' : LinkAt(meta'.view, store', store'[l[1]][l[2]].inode)
    BY DEF LinksInv, Link
  <2>1. up = "mounted" /\ UNCHANGED root
    BY <1>1, <1>3, StepUp, SamePhase DEF Context, TypeOK
  <2>2. Live
    <3>1. mapping.open
      BY <1>1, <1>3, <2>1, SamePhase, PutExact DEF Live, At, Exact
    <3> QED
      BY <2>1, <3>1 DEF Live
  <2>3. LiveTree
    BY <1>1, <2>2 DEF LiveTree
  <2>4. /\ InodeAt(meta.view, 1).i_block = root.i_block /\ root.i_block \in DOMAIN store
        /\ root.i_block # 0 /\ 1 \in Used /\ store[root.i_block][1].inode = 1
    <3>1. 1 \in Used
      BY DEF Used
    <3> QED
      BY <2>3, <3>1, RootBlock, Owner, LiveFacts
  <2>5. CASE ~At(t, "link")
    <3>1. \A n \in Used : SameDir(meta.view, store, meta'.view, store', n)
      BY <1>1, <2>1, <2>5, StepDirs
    <3>2. SameEnds(meta.view, store, meta'.view, store')
      BY <1>1, <2>1, <2>5, StepTree
    <3>3. store'[root.i_block] = store[root.i_block]
      <4>1. SameDir(meta.view, store, meta'.view, store', 1)
        BY <2>4, <3>1
      <4> QED
        BY <2>4, <4>1 DEF SameDir
    <3>4. Links' = Links /\ \A l \in Links : store'[l[1]][l[2]] = Link(l)
      BY <1>1, <2>5, UsedSame
    <3>5. ASSUME NEW l \in Links PROVE LinkAt(meta'.view, store', store'[l[1]][l[2]].inode)
      <4> DEFINE n == Link(l).inode
      <4>1. LinkAt(meta.view, store, n) /\ n \in Used /\ n \in Nat
        BY <1>1, <2>2, <2>3, LiveFacts DEF LinksInv, Used
      <4>2. Shaped(meta.view, meta'.view, n)
        BY <3>1, <4>1 DEF SameDir
      <4>3. InodeAt(meta.view, n) = InodeIn(meta.view, n) /\ InodeAt(meta'.view, n) = InodeIn(meta'.view, n)
        BY <1>1, <4>1, InodeAtIn DEF Context, PlacedInv
      <4>4. \A p \in Seq(Name) : End(meta.view, store, p) = {n} => End(meta'.view, store', p) = {n}
        BY <3>2 DEF SameEnds
      <4> HIDE DEF n
      <4>5. LinkAt(meta'.view, store', n)
        BY <4>1, <4>2, <4>3, <4>4, LinkAtKept DEF Shaped
      <4> QED
        BY <3>4, <4>5 DEF n
    <3> QED
      BY <2>1, <2>4, <3>3, <3>4, <3>5
  <2>6. CASE At(t, "link")
    <3>1. LinkedTo(f)
      BY <1>1, <2>3, <2>6, LinkStep DEF TreeInv
    <3>2. PathAt(pc[t], f, meta.view, store)
      BY <2>1 DEF TreeInv, PathInv
    <3>3. f.slot # 0
      BY <2>6, <3>2 DEF PathAt, At
    <3>4. Grows(f, no) /\ \A l \in Links : store'[l[1]][l[2]] = Link(l)
      BY <1>1, <2>3, <2>6, <3>3, LiveFacts, StepLinks DEF CoreInv, EntriesInv
    <3>5. EntriesAt(pc[t], f, superblock, store, block)
      BY <2>3, LiveFacts DEF CoreInv, EntriesInv, BlocksInv
    <3>6. store'[root.i_block][1].inode = 1
      <4>1. store' = Stored(f.blk, Linked(f))
        BY <1>1, <2>6, StepRemote DEF Context
      <4>2. CASE f.blk # root.i_block
        BY <2>4, <4>1, <4>2 DEF Stored
      <4>3. CASE f.blk = root.i_block
        <5>1. f.data = store[f.blk] /\ f.data[f.slot].inode = 0 /\ f.blk \in DOMAIN store
          BY <2>4, <2>6, <3>3, <3>5, <4>3 DEF EntriesAt, At
        <5>2. f.slot # 1
          BY <2>4, <4>3, <5>1
        <5>3. Linked(f) = [store[f.blk] EXCEPT ![f.slot] = [inode |-> no, name |-> Last(f.path)]]
          BY <3>3, <5>1 DEF Linked
        <5>4. store[f.blk] \in [Slot -> Entry] /\ 1 \in Slot
          BY <1>1, <5>1, BoundAssumption DEF Context, TypeOK, Block, Slot
        <5>5. Linked(f)[1] = store[f.blk][1]
          BY <5>2, <5>3, <5>4
        <5>6. store'[f.blk] = Linked(f)
          BY <4>1, <5>1 DEF Stored
        <5> QED
          BY <2>4, <4>3, <5>5, <5>6
      <4> QED
        BY <4>2, <4>3
    <3>7. UNCHANGED meta
      BY <3>1 DEF LinkedTo
    <3>8. ASSUME NEW l \in Links PROVE LinkAt(meta'.view, store', store'[l[1]][l[2]].inode)
      <4> DEFINE n == Link(l).inode
      <4>1. LinkAt(meta.view, store, n)
        BY <1>1, <2>2 DEF LinksInv
      <4>2. \A p \in Seq(Name) : End(meta.view, store, p) = {n} => End(meta'.view, store', p) = {n}
        BY <3>1, <3>7 DEF LinkedTo
      <4> HIDE DEF n
      <4>3. LinkAt(meta'.view, store', n)
        BY <3>7, <4>1, <4>2, LinkAtKept
      <4> QED
        BY <3>4, <4>3 DEF n
    <3>9. LinkAt(meta'.view, store', no)
      <4>1. /\ no \in Nat /\ no >= 2 /\ InodeAt(meta.view, no) = f.node /\ f.path \in Paths
            /\ f.op \in {"mkdir", "create"}
            /\ f.op = "create" => f.node.i_block = 0
            /\ f.node.i_mode = IF f.op = "create" THEN "file" ELSE "dir"
        BY <3>1 DEF LinkedTo
      <4>2. InodeIn(meta.view, no) = f.node
        BY <1>1, <4>1, InodeAtView DEF Context
      <4>3. Asked(f) \in Calls /\ Asked(f).op = f.op /\ Asked(f).path = f.path
        <5>1. ServedAt(pc[t], f)
          BY DEF TreeInv, ServedInv
        <5> QED
          BY <4>1, <5>1 DEF ServedAt, Asked
      <4>4. End(meta'.view, store', f.path) = {no}
        BY <3>1, <3>7, <4>1, PathsSeq DEF LinkedTo
      <4>5. MadeBy(meta'.view, store', no)
        BY <3>7, <4>1, <4>2, <4>3, <4>4 DEF MadeBy
      <4> QED
        BY <3>7, <4>1, <4>2, <4>5 DEF LinkAt
    <3>10. \A l \in Links' : l \in Links \/ l = <<f.blk, f.slot>>
      BY <3>4 DEF Grows
    <3>11. store'[f.blk][f.slot].inode = no
      BY <3>4 DEF Grows
    <3> QED
      BY <2>1, <3>6, <3>8, <3>9, <3>10, <3>11
  <2> QED
    BY <2>5, <2>6
<1> QED
  BY <1>2, <1>3

(***************************************************************************)
(* Where each step of a call leads, and with which locals                  *)
(***************************************************************************)
Talks(f, g)   == g.op = f.op /\ g.path = f.path
Carried(f, g) == Talks(f, g) /\ g.base = f.base /\ g.comp = f.comp /\ g.ra = f.ra /\ g.data = f.data

\* A lookup that fails downloaded a block without the name, or had none to download.
Absent(b, x)  == b = 0 \/ \E data : Downloaded(b, data) /\ Matches(data, x) = {}
Present(b, x) == b # 0 /\ \E data : Downloaded(b, data) /\ Matches(data, x) # {}

FindTo(f, k, g) == /\ Talks(f, g) /\ g.data = f.data
                   /\ k = "resolved" \/ (k = "lookup" /\ g.ra = "walk")

LEMMA FindGoes ==
  ASSUME TypeOK, NEW t \in Thread, find_inode(t)
  PROVE  \E k, g : Goto(t, k, g) /\ FindTo(frame[t], k, g)
<1> DEFINE f == frame[t]
           path == Target(f)
           g == [f EXCEPT !.node = root, !.found = TRUE]
           h == [f EXCEPT !.node = root, !.comp = Head(path), !.ra = "walk"]
<1>1. f \in Frame
  BY ThreadFrame
<1>2. FindTo(f, "resolved", g)
  BY <1>1 DEF FindTo, Talks, Frame
<1>3. FindTo(f, "lookup", h)
  BY <1>1 DEF FindTo, Talks, Frame
<1>4. Goto(t, "resolved", g) \/ Goto(t, "lookup", h)
  BY DEF find_inode
<1> QED
  BY <1>2, <1>3, <1>4

LookupTo(f, k, g) ==
    LET b == Base(f).i_block
    IN  /\ Carried(f, g) /\ g.node = f.node
        /\ \/ k = f.ra /\ ~g.found /\ Absent(b, f.comp)
           \/ k = "get_inode" /\ Present(b, f.comp)

LEMMA LookupGoes ==
  ASSUME TypeOK, NEW t \in Thread, lookup(t), ~Die
  PROVE  \E k, g : Goto(t, k, g) /\ LookupTo(frame[t], k, g)
<1> DEFINE f == frame[t]
           b == Base(f).i_block
           miss == [f EXCEPT !.found = FALSE]
           hit(n) == [f EXCEPT !.n = n]
<1>1. f \in Frame
  BY ThreadFrame
<1>2. Carried(f, miss) /\ miss.node = f.node /\ ~miss.found
  BY <1>1 DEF Carried, Talks, Frame
<1>3. \A n : Carried(f, hit(n)) /\ hit(n).node = f.node
  BY <1>1 DEF Carried, Talks, Frame
<1>4. \/ Goto(t, f.ra, miss) /\ Absent(b, f.comp)
      \/ \E n : Goto(t, "get_inode", hit(n)) /\ Present(b, f.comp)
  <2>1. CASE b = 0 /\ Goto(t, f.ra, miss)
    BY <2>1 DEF Absent
  <2>2. CASE b # 0 /\ \E data \in Buffers :
                   /\ Downloaded(b, data)
                   /\ \/ /\ Matches(data, f.comp) = {}
                         /\ Goto(t, f.ra, miss)
                      \/ \E i \in Slot :
                           /\ First(Matches(data, f.comp), i)
                           /\ Goto(t, "get_inode", hit(data[i].inode))
    <3>1. PICK data \in Buffers :
                   /\ Downloaded(b, data)
                   /\ \/ /\ Matches(data, f.comp) = {}
                         /\ Goto(t, f.ra, miss)
                      \/ \E i \in Slot :
                           /\ First(Matches(data, f.comp), i)
                           /\ Goto(t, "get_inode", hit(data[i].inode))
      BY <2>2
    <3> HIDE DEF miss, hit
    <3>2. CASE Matches(data, f.comp) = {} /\ Goto(t, f.ra, miss)
      BY <3>1, <3>2 DEF Absent
    <3>3. CASE \E i \in Slot : /\ First(Matches(data, f.comp), i)
                               /\ Goto(t, "get_inode", hit(data[i].inode))
      <4>1. PICK i \in Slot : /\ First(Matches(data, f.comp), i)
                              /\ Goto(t, "get_inode", hit(data[i].inode))
        BY <3>3
      <4>2. Matches(data, f.comp) # {}
        BY <4>1 DEF First
      <4> QED
        BY <2>2, <3>1, <4>1, <4>2 DEF Present
    <3> QED
      BY <3>1, <3>2, <3>3
  <2> QED
    BY <2>1, <2>2 DEF lookup
<1> HIDE DEF miss, hit
<1>5. Goto(t, f.ra, miss) /\ Absent(b, f.comp) => LookupTo(f, f.ra, miss)
  BY <1>2 DEF LookupTo
<1>6. \A n : Present(b, f.comp) => LookupTo(f, "get_inode", hit(n))
  BY <1>3 DEF LookupTo
<1> QED
  BY <1>4, <1>5, <1>6

LEMMA ReadGoes ==
  ASSUME TypeOK, NEW t \in Thread, read_inode(t)
  PROVE  \E g : Goto(t, frame[t].ra, g) /\ Carried(frame[t], g) /\ g.found
<1> DEFINE f == frame[t]
           got(i) == [f EXCEPT !.node = i, !.found = TRUE, !.n = 0]
<1>1. f \in Frame
  BY ThreadFrame
<1>2. \A i : Carried(f, got(i)) /\ got(i).found
  BY <1>1 DEF Carried, Talks, Frame
<1>3. \E i : Goto(t, f.ra, got(i))
  BY DEF read_inode
<1> HIDE DEF got
<1> QED
  BY <1>2, <1>3

WalkTo(f, k, g) == /\ Talks(f, g) /\ g.data = f.data
                   /\ k = "resolved" \/ (k = "lookup" /\ g.ra = f.ra)

LEMMA WalkGoes ==
  ASSUME TypeOK, NEW t \in Thread, walk(t)
  PROVE  \E k, g : Goto(t, k, g) /\ WalkTo(frame[t], k, g)
<1> DEFINE f == frame[t]
           on(c) == [f EXCEPT !.comp = c]
           end(rest) == [f EXCEPT !.found = @ /\ rest = <<>>, !.comp = NoName, !.ra = "idle"]
<1>1. f \in Frame
  BY ThreadFrame
<1>2. \A c : WalkTo(f, "lookup", on(c))
  BY <1>1 DEF WalkTo, Talks, Frame
<1>3. \A rest : WalkTo(f, "resolved", end(rest))
  BY <1>1 DEF WalkTo, Talks, Frame
<1>4. (\E c : Goto(t, "lookup", on(c))) \/ (\E rest : Goto(t, "resolved", end(rest)))
  BY DEF walk
<1> HIDE DEF on, end
<1> QED
  BY <1>2, <1>3, <1>4

ResolvedTo(f, k, g) ==
    /\ Talks(f, g) /\ g.data = f.data
    /\ \/ k = "done" /\ ~f.found /\ g.ret = "ENOENT"
       \/ k = "done" /\ f.found /\ f.op \in {"getattr", "open"} /\ g.ret = "ok" /\ g.node = f.node
       \/ k = "list" /\ f.found /\ f.op \in {"readdir", "read"} /\ g = f
       \/ /\ k = "update_inode" /\ f.found /\ f.op = "utimens"
          /\ Alike(g.node, f.node) /\ g.ra = "done" /\ g.ret = "ok"
       \/ /\ k = "lookup" /\ f.found /\ f.op \in Mutators
          /\ g.base = f.node /\ g.comp = Last(f.path) /\ g.ra = "named"

LEMMA ResolvedGoes ==
  ASSUME TypeOK, NEW t \in Thread, resolved(t)
  PROVE  \E k, g : Goto(t, k, g) /\ ResolvedTo(frame[t], k, g)
<1> DEFINE f == frame[t]
           u == [f EXCEPT !.node.i_atime = "set", !.ra = "done", !.ret = "ok"]
           m == [f EXCEPT !.base = f.node, !.comp = Last(f.path), !.ra = "named"]
           a(ret) == [f EXCEPT !.ret = ret]
<1>1. f \in Frame
  BY ThreadFrame
<1>2. Talks(f, u) /\ u.data = f.data /\ u.ra = "done" /\ u.ret = "ok" /\ Alike(u.node, f.node)
  BY <1>1 DEF Frame, Talks, Inode, Alike
<1>3. /\ Talks(f, m) /\ m.data = f.data /\ m.base = f.node /\ m.comp = Last(f.path)
      /\ m.ra = "named"
  BY <1>1 DEF Frame, Talks
<1>4. \A r : Talks(f, a(r)) /\ a(r).data = f.data /\ a(r).ret = r /\ a(r).node = f.node
  BY <1>1 DEF Frame, Talks
<1>5. \/ ~f.found /\ Goto(t, "done", a("ENOENT"))
      \/ f.found /\ f.op \in {"getattr", "open"} /\ Goto(t, "done", a("ok"))
      \/ f.found /\ f.op \in {"readdir", "read"} /\ Goto(t, "list", f)
      \/ f.found /\ f.op = "utimens" /\ Goto(t, "update_inode", u)
      \/ f.found /\ f.op \in Mutators /\ Goto(t, "lookup", m)
  BY DEF resolved, Answer
<1> HIDE DEF u, m, a
<1>6. ~f.found => ResolvedTo(f, "done", a("ENOENT"))
  BY <1>4 DEF ResolvedTo
<1>7. f.found /\ f.op \in {"getattr", "open"} => ResolvedTo(f, "done", a("ok"))
  BY <1>4 DEF ResolvedTo
<1>8. f.found /\ f.op \in {"readdir", "read"} => ResolvedTo(f, "list", f)
  BY DEF ResolvedTo, Talks
<1>9. f.found /\ f.op = "utimens" => ResolvedTo(f, "update_inode", u)
  BY <1>2 DEF ResolvedTo
<1>10. f.found /\ f.op \in Mutators => ResolvedTo(f, "lookup", m)
  BY <1>3 DEF ResolvedTo
<1> QED
  BY <1>5, <1>6, <1>7, <1>8, <1>9, <1>10

ListTo(f, g) ==
    /\ Talks(f, g) /\ g.ret = "ok" /\ g.node = f.node
    /\ \/ f.node.i_block = 0 /\ g.data = f.data
       \/ f.node.i_block # 0 /\ Downloaded(f.node.i_block, g.data)

LEMMA ListGoes ==
  ASSUME TypeOK, NEW t \in Thread, list(t), ~Die
  PROVE  \E g : Goto(t, "done", g) /\ ListTo(frame[t], g)
<1> DEFINE f == frame[t]
           a == [f EXCEPT !.ret = "ok"]
           got(data) == [f EXCEPT !.data = data, !.ret = "ok"]
<1>1. f \in Frame
  BY ThreadFrame
<1>2. Talks(f, a) /\ a.ret = "ok" /\ a.node = f.node /\ a.data = f.data
  BY <1>1 DEF Frame, Talks
<1>3. \A d : Talks(f, got(d)) /\ got(d).ret = "ok" /\ got(d).node = f.node /\ got(d).data = d
  BY <1>1 DEF Frame, Talks
<1>4. \/ f.node.i_block = 0 /\ Goto(t, "done", a)
      \/ f.node.i_block # 0 /\ \E d : Downloaded(f.node.i_block, d) /\ Goto(t, "done", got(d))
  BY DEF list, Answer
<1> HIDE DEF a, got
<1>5. f.node.i_block = 0 => ListTo(f, a)
  BY <1>2 DEF ListTo
<1>6. \A d : f.node.i_block # 0 /\ Downloaded(f.node.i_block, d) => ListTo(f, got(d))
  BY <1>3 DEF ListTo
<1> QED
  BY <1>4, <1>5, <1>6

NamedTo(f, k, g) ==
    /\ Talks(f, g)
    /\ \/ k = "done" /\ f.found /\ f.op \in {"mkdir", "create"} /\ g.ret = "EEXIST"
       \/ k = "done" /\ ~f.found /\ f.op = "rmdir" /\ g.ret = "ENOENT"
       \/ /\ k = "update_inode" /\ (f.found <=> f.op = "rmdir") /\ g.ra = "inode_written"
          /\ g.base = f.base /\ g.data = f.data /\ g.node.i_block = 0

LEMMA NamedGoes ==
  ASSUME TypeOK, NEW t \in Thread, named(t)
  PROVE  \E k, g : Goto(t, k, g) /\ NamedTo(frame[t], k, g)
<1> DEFINE f == frame[t]
           i == NewInode(superblock.s_free_inode, f.op)
           m == [f EXCEPT !.node = i, !.ra = "inode_written"]
           a(ret) == [f EXCEPT !.ret = ret]
<1>1. f \in Frame
  BY ThreadFrame
<1>2. i.i_block = 0
  BY DEF NewInode
<1>3. /\ Talks(f, m) /\ m.data = f.data /\ m.base = f.base /\ m.ra = "inode_written"
      /\ m.node = i
  BY <1>1 DEF Frame, Talks
<1>4. \A r : Talks(f, a(r)) /\ a(r).ret = r
  BY <1>1 DEF Frame, Talks
<1>5. \/ f.found /\ f.op \in {"mkdir", "create"} /\ Goto(t, "done", a("EEXIST"))
      \/ ~f.found /\ f.op = "rmdir" /\ Goto(t, "done", a("ENOENT"))
      \/ (f.found <=> f.op = "rmdir") /\ Goto(t, "update_inode", m)
  BY DEF named, Answer
<1> HIDE DEF i, m, a
<1>6. f.found /\ f.op \in {"mkdir", "create"} => NamedTo(f, "done", a("EEXIST"))
  BY <1>4 DEF NamedTo
<1>7. ~f.found /\ f.op = "rmdir" => NamedTo(f, "done", a("ENOENT"))
  BY <1>4 DEF NamedTo
<1>8. (f.found <=> f.op = "rmdir") => NamedTo(f, "update_inode", m)
  BY <1>2, <1>3 DEF NamedTo
<1> QED
  BY <1>5, <1>6, <1>7, <1>8

SlotTo(f, g) ==
    /\ Talks(f, g) /\ g.base = f.base /\ g.node = f.node
    /\ \/ f.base.i_block = 0
       \/ \E data : /\ Downloaded(f.base.i_block, data)
                    /\ FreeSlots(data) = {} \/ g.slot \in Slot

LEMMA SlotGoes ==
  ASSUME TypeOK, NEW t \in Thread, slot(t), ~Die
  PROVE  \E g : Goto(t, "link", g) /\ SlotTo(frame[t], g)
<1> DEFINE f == frame[t]
           full(d) == [f EXCEPT !.data = d]
           free(d, i) == [f EXCEPT !.data = d, !.slot = i, !.blk = f.base.i_block]
<1>1. f \in Frame
  BY ThreadFrame
<1>2. \A d : Talks(f, full(d)) /\ full(d).base = f.base /\ full(d).node = f.node
  BY <1>1 DEF Frame, Talks
<1>3. \A d, i : Talks(f, free(d, i)) /\ free(d, i).base = f.base /\ free(d, i).node = f.node
                /\ free(d, i).slot = i
  BY <1>1 DEF Frame, Talks
<1>4. \/ f.base.i_block = 0 /\ \E d : Goto(t, "link", full(d))
      \/ \E d : /\ Downloaded(f.base.i_block, d)
                /\ \/ FreeSlots(d) = {} /\ Goto(t, "link", full(d))
                   \/ \E i \in Slot : Goto(t, "link", free(d, i))
  BY DEF slot
<1> HIDE DEF full, free
<1>5. f.base.i_block = 0 => \A d : SlotTo(f, full(d))
  BY <1>2 DEF SlotTo
<1>6. ASSUME NEW d, Downloaded(f.base.i_block, d)
      PROVE  /\ FreeSlots(d) = {} => SlotTo(f, full(d))
             /\ \A i \in Slot : SlotTo(f, free(d, i))
  BY <1>2, <1>3, <1>6 DEF SlotTo
<1> QED
  BY <1>4, <1>5, <1>6

LEMMA LinkGoes ==
  ASSUME TypeOK, NEW t \in Thread, link(t)
  PROVE  \E g : Goto(t, "done", g) /\ Talks(frame[t], g)
                /\ (g.ret = "ok" \/ (faults < MaxFault /\ g.ret = "driver"))
<1> DEFINE f == frame[t]
           a(ret) == [f EXCEPT !.ret = ret]
<1>1. f \in Frame
  BY ThreadFrame
<1>2. \A r : Talks(f, a(r)) /\ a(r).ret = r
  BY <1>1 DEF Frame, Talks
<1>3. PICK ret : Uploaded(f.blk, Linked(f), ret)
                 /\ Goto(t, "done", a(ret))
  BY DEF link, Answer
<1>4. ret = "ok" \/ (faults < MaxFault /\ ret = "driver")
  BY <1>3 DEF Uploaded, PutFailed
<1> HIDE DEF a
<1> QED
  BY <1>2, <1>3, <1>4

(***************************************************************************)
(* The call in hand, step by step                                          *)
(***************************************************************************)
\* The step of a call that looks, by what it does.
LEMMA CalmSteps ==
  ASSUME NEW t \in Thread, Step(t), ~Creating(pc[t], frame[t])
  PROVE  \/ find_inode(t) \/ lookup(t) \/ get_inode(t) \/ read_inode(t) \/ walk(t)
         \/ resolved(t) \/ list(t) \/ named(t) \/ done(t)
         \/ update_inode(t) /\ frame[t].ra # "inode_written" /\ frame[t].ra # "dir_written"
         \/ write_inode(t) /\ frame[t].ra # "inode_written" /\ frame[t].ra # "dir_written"
         \/ update_superblock(t) /\ frame[t].ra \notin {"slot", "dir_block", "dir_free"}
         \/ write_superblock(t) /\ frame[t].ra \notin {"slot", "dir_block", "dir_free"}
  BY DEF Step, Creating, Saved, Numbered, Advanced, WritesInode, WritesSuper, At,
     inode_written, bump_inode, dir_block, dir_put, dir_iblock, dir_written, bump_block,
     dir_free, slot, link, update_inode, write_inode, update_superblock, write_superblock

\* The call keeps to its labels while it looks.
LEMMA LooksServed ==
  ASSUME Serial, CoreInv, ServedInv, NEW t \in Thread, Step(t), ~Die,
         ~Creating(pc[t], frame[t])
  PROVE  \E k, g : Goto(t, k, g) /\ ServedAt(k, g)
<1> DEFINE f == frame[t]
<1>2. ServedAt(pc[t], f) /\ RouteAt(pc[t], f) /\ TypeOK
  BY DEF ServedInv, CoreInv, Context, PlacedInv
<1>3. ASSUME NEW k \in {"lookup", "get_inode", "read_inode", "walk", "resolved", "named"},
             NEW g, Talks(f, g), g.data = f.data, Goto(t, k, g), pc[t] \notin {"link", "done", "idle"},
             k \in {"lookup", "get_inode", "read_inode"} =>
               \/ g.ra # "named"
               \/ g.op \in Mutators /\ g.comp = Last(g.path)
      PROVE  ServedAt(k, g)
  <2>1. ~Creating(k, g) /\ ~DirMaking(k, g) /\ ~WritesInode(k)
    BY DEF Creating, Saved, Numbered, Advanced, WritesInode, WritesSuper, DirMaking
  <2> QED
    BY <1>2, <1>3, <2>1 DEF ServedAt, Talks, Asked
<1>4. ASSUME NEW g, Talks(f, g), pc[t] # "idle", g.ret # "none"
      PROVE  ServedAt("done", g)
  <2>1. ~Creating("done", g) /\ ~DirMaking("done", g) /\ ~WritesInode("done")
    BY DEF Creating, Saved, Numbered, Advanced, WritesInode, WritesSuper, DirMaking
  <2> QED
    BY <1>2, <1>4, <2>1 DEF ServedAt, Talks, Asked
<1>5. CASE find_inode(t)
  <2>1. PICK k, g : Goto(t, k, g) /\ FindTo(f, k, g)
    BY <1>2, <1>5, FindGoes
  <2>2. pc[t] = "find"
    BY <1>5 DEF find_inode, At
  <2>3. ServedAt(k, g)
    BY <1>3, <2>1, <2>2 DEF FindTo
  <2> QED
    BY <2>1, <2>3
<1>6. CASE lookup(t)
  <2>1. PICK k, g : Goto(t, k, g) /\ LookupTo(f, k, g)
    BY <1>2, <1>6, LookupGoes
  <2>2. pc[t] = "lookup" /\ f.ra \in {"walk", "named"}
    BY <1>2, <1>6 DEF lookup, At, RouteAt
  <2>3. f.ra = "named" => f.op \in Mutators /\ f.comp = Last(f.path)
    BY <1>2, <2>2 DEF ServedAt
  <2>4. Talks(f, g) /\ g.data = f.data /\ g.ra = f.ra /\ g.comp = f.comp
        /\ k \in {"walk", "named", "get_inode"}
    BY <2>1, <2>2 DEF LookupTo, Carried
  <2>5. g.ra # "named" \/ (g.op \in Mutators /\ g.comp = Last(g.path))
    BY <2>3, <2>4 DEF Talks
  <2>6. ServedAt(k, g)
    BY <1>3, <2>1, <2>2, <2>4, <2>5
  <2> QED
    BY <2>1, <2>6
<1>7. CASE get_inode(t)
  <2>1. Goto(t, "read_inode", f) /\ pc[t] = "get_inode"
    BY <1>7 DEF get_inode, At
  <2>2. f.ra # "named" \/ (f.op \in Mutators /\ f.comp = Last(f.path))
    BY <1>2, <2>1 DEF ServedAt
  <2>3. ServedAt("read_inode", f)
    BY <1>3, <2>1, <2>2 DEF Talks
  <2> QED
    BY <2>1, <2>3
<1>8. CASE read_inode(t)
  <2>1. PICK g : Goto(t, f.ra, g) /\ Carried(f, g)
    BY <1>2, <1>8, ReadGoes
  <2>2. pc[t] = "read_inode" /\ f.ra \in {"walk", "named"}
    BY <1>2, <1>8 DEF read_inode, At, RouteAt
  <2>3. ServedAt(f.ra, g)
    BY <1>3, <2>1, <2>2 DEF Carried
  <2> QED
    BY <2>1, <2>3
<1>9. CASE walk(t)
  <2>1. PICK k, g : Goto(t, k, g) /\ WalkTo(f, k, g)
    BY <1>2, <1>9, WalkGoes
  <2>2. pc[t] = "walk" /\ f.ra = "walk"
    BY <1>2, <1>9 DEF walk, At, RouteAt
  <2>3. ServedAt(k, g)
    BY <1>3, <2>1, <2>2 DEF WalkTo
  <2> QED
    BY <2>1, <2>3
<1>10. CASE resolved(t)
  <2>1. PICK k, g : Goto(t, k, g) /\ ResolvedTo(f, k, g)
    BY <1>2, <1>10, ResolvedGoes
  <2>2. pc[t] = "resolved"
    BY <1>10 DEF resolved, At
  <2>3. CASE k = "done"
    BY <1>4, <2>1, <2>2, <2>3 DEF ResolvedTo
  <2>4. CASE k = "lookup"
    <3>1. g.op \in Mutators /\ g.comp = Last(g.path) /\ Talks(f, g) /\ g.data = f.data
      BY <2>1, <2>4 DEF ResolvedTo, Talks
    <3> QED
      BY <1>3, <2>1, <2>2, <2>4, <3>1
  <2>5. CASE k = "list"
    <3>1. f.op \in {"readdir", "read"} /\ g = f
      BY <2>1, <2>5 DEF ResolvedTo
    <3>2. ~Creating("list", f) /\ ~DirMaking("list", f) /\ ~WritesInode("list")
      BY DEF Creating, Saved, Numbered, Advanced, WritesInode, WritesSuper, DirMaking
    <3>3. ServedAt("list", f)
      BY <1>2, <2>2, <3>1, <3>2 DEF ServedAt
    <3> QED
      BY <2>1, <2>5, <3>1, <3>3
  <2>6. CASE k = "update_inode"
    <3>1. f.op = "utimens" /\ g.ra = "done" /\ g.ret = "ok" /\ Talks(f, g) /\ g.data = f.data
      BY <2>1, <2>6 DEF ResolvedTo
    <3>2. ~Creating("update_inode", g) /\ ~DirMaking("update_inode", g)
      BY <3>1 DEF Creating, Saved, Numbered, Advanced, WritesInode, WritesSuper, DirMaking
    <3>3. ServedAt("update_inode", g)
      BY <1>2, <2>2, <3>1, <3>2 DEF ServedAt, Talks, Asked
    <3> QED
      BY <2>1, <2>6, <3>3
  <2> QED
    BY <2>1, <2>3, <2>4, <2>5, <2>6 DEF ResolvedTo
<1>11. CASE list(t)
  <2>1. PICK g : Goto(t, "done", g) /\ ListTo(f, g)
    BY <1>2, <1>11, ListGoes
  <2>2. pc[t] = "list"
    BY <1>11 DEF list, At
  <2>3. ServedAt("done", g)
    BY <1>4, <2>1, <2>2 DEF ListTo
  <2> QED
    BY <2>1, <2>3
<1>12. CASE named(t)
  <2>1. PICK k, g : Goto(t, k, g) /\ NamedTo(f, k, g)
    BY <1>2, <1>12, NamedGoes
  <2>2. pc[t] = "named"
    BY <1>12 DEF named, At
  <2>3. CASE k = "done"
    BY <1>4, <2>1, <2>2, <2>3 DEF NamedTo
  <2>4. CASE k = "update_inode"
    <3>1. g.ra = "inode_written" /\ g.node.i_block = 0 /\ Talks(f, g) /\ g.data = f.data
      BY <2>1, <2>4 DEF NamedTo
    <3>2. ~DirMaking("update_inode", g)
      BY <3>1 DEF DirMaking, WritesInode, WritesSuper
    <3>3. ServedAt("update_inode", g)
      BY <1>2, <2>2, <3>1, <3>2 DEF ServedAt, Talks, Asked
    <3> QED
      BY <2>1, <2>4, <3>3
  <2> QED
    BY <2>1, <2>3, <2>4 DEF NamedTo
<1>13. CASE done(t)
  <2>1. Goto(t, "idle", Idle)
    BY <1>13 DEF done
  <2> QED
    BY <2>1, IdleServed
<1>14. CASE update_inode(t) /\ f.ra # "inode_written" /\ f.ra # "dir_written"
  <2>1. Goto(t, "write_inode", f) /\ pc[t] = "update_inode" /\ f.ra = "done"
    BY <1>2, <1>14 DEF update_inode, At, RouteAt
  <2>2. ~Creating("write_inode", f) /\ ~DirMaking("write_inode", f)
    BY <2>1 DEF Creating, Saved, Numbered, Advanced, WritesInode, WritesSuper, DirMaking
  <2>3. ServedAt("write_inode", f)
    BY <1>2, <2>1, <2>2 DEF ServedAt, WritesInode
  <2> QED
    BY <2>1, <2>3
<1>15. CASE write_inode(t) /\ f.ra # "inode_written" /\ f.ra # "dir_written"
  <2>1. Goto(t, "done", f) /\ pc[t] = "write_inode" /\ f.ra = "done"
    BY <1>2, <1>15 DEF write_inode, At, RouteAt
  <2>2. f.ret = "ok"
    BY <1>2, <2>1 DEF ServedAt, WritesInode
  <2>3. ServedAt("done", f)
    BY <1>4, <2>1, <2>2 DEF Talks
  <2> QED
    BY <2>1, <2>3
<1>16. ~(update_superblock(t) /\ f.ra \notin {"slot", "dir_block", "dir_free"})
       /\ ~(write_superblock(t) /\ f.ra \notin {"slot", "dir_block", "dir_free"})
  BY <1>2 DEF update_superblock, write_superblock, At, RouteAt
<1> QED
  BY CalmSteps, <1>5, <1>6, <1>7, <1>8, <1>9, <1>10, <1>11, <1>12, <1>13, <1>14, <1>15, <1>16

\* The call keeps to its labels while it makes an inode.
LEMMA MakesServed ==
  ASSUME Serial, CoreInv, ServedInv, NEW t \in Thread, Step(t), ~Die,
         Creating(pc[t], frame[t])
  PROVE  \E k, g : Goto(t, k, g) /\ ServedAt(k, g)
<1> DEFINE f == frame[t]
<1>1. /\ ServedAt(pc[t], f) /\ RouteAt(pc[t], f) /\ TypeOK /\ pc[t] \in Labels
      /\ pc[t] \notin {"idle", "done"}
  BY ThreadFrame, StepUp DEF ServedInv, CoreInv, Context, PlacedInv, Creating, Saved, Numbered,
     Advanced, WritesInode, WritesSuper
<1>2. CASE pc[t] = "link"
  <2>1. link(t)
    BY <1>2 DEF Step, find_inode, lookup, get_inode, read_inode, walk, resolved, list,
       named, update_inode, write_inode, update_superblock, write_superblock, inode_written,
       bump_inode, dir_block, dir_put, dir_iblock, dir_written, bump_block, dir_free, slot, done, At
  <2>2. PICK g : Goto(t, "done", g) /\ Talks(f, g) /\ g.ret \in {"ok", "driver"}
    BY <1>1, <2>1, LinkGoes
  <2>3. ~Creating("done", g) /\ ~DirMaking("done", g) /\ ~WritesInode("done")
    BY DEF Creating, Saved, Numbered, Advanced, WritesInode, WritesSuper, DirMaking
  <2>4. ServedAt("done", g)
    BY <1>1, <2>2, <2>3 DEF ServedAt, Talks, Asked
  <2> QED
    BY <2>2, <2>4
<1>3. CASE At(t, "dir_free") /\ frame[t].op = "init" /\ Goto(t, "idle", Idle)
  BY <1>3, IdleServed
<1>4. CASE pc[t] # "link" /\ \E k, g : Goto(t, k, g) /\ Makes(pc[t], f, k, g)
  <2>1. PICK k, g : Goto(t, k, g) /\ Makes(pc[t], f, k, g)
    BY <1>4
  <2> DEFINE l == pc[t]
  <2>2. /\ l \in {"update_inode", "write_inode", "update_superblock", "write_superblock",
                  "inode_written", "bump_inode", "dir_block", "dir_put", "dir_iblock", "dir_written",
                  "bump_block", "dir_free", "slot"}
        /\ WritesInode(l) => f.ra \in {"inode_written", "dir_written"}
        /\ WritesSuper(l) => f.ra \in {"slot", "dir_block", "dir_free"}
    BY <1>1, <1>4 DEF Creating, Saved, Numbered, Advanced, WritesInode, WritesSuper, RouteAt
  <2>3. /\ Talks(f, g) /\ Asked(g) = Asked(f)
        /\ l # "slot" => g.data = f.data
        /\ g.node = IF l = "dir_iblock" THEN [f.node EXCEPT !.i_block = superblock.s_free_block]
                    ELSE f.node
    BY <2>1 DEF Makes, Talks, Asked
  <2>4. /\ k \in {"update_inode", "write_inode", "update_superblock", "write_superblock",
                  "inode_written", "bump_inode", "dir_block", "dir_put", "dir_iblock", "dir_written",
                  "bump_block", "dir_free", "slot", "link"}
        /\ k = "link" <=> l = "slot"
        /\ WritesInode(k) => g.ra \in {"inode_written", "dir_written"}
        /\ DirMaking(k, g) => DirMaking(l, f) \/ (l = "bump_inode" /\ f.op # "create")
                              \/ (WritesSuper(l) /\ f.ra = "dir_block")
    BY <1>4, <2>1, <2>2 DEF Makes, WritesInode, WritesSuper, DirMaking
  <2>5. WritesSuper(l) /\ f.ra = "dir_block" => DirMaking(l, f)
    BY DEF DirMaking
  <2>6. l = "dir_iblock" => DirMaking(l, f)
    BY DEF DirMaking
  <2>7. f.op = "create" => g.node.i_block = 0
    <3>1. f.op = "create" => l # "dir_iblock" /\ f.node.i_block = 0
      BY <1>1, <2>6 DEF ServedAt
    <3> QED
      BY <2>3, <3>1
  <2> HIDE DEF l
  <2>8. ServedAt(k, g)
    BY <1>1, <2>2, <2>3, <2>4, <2>5, <2>7 DEF ServedAt, Talks, l
  <2> QED
    BY <2>1, <2>8
<1>5. \/ At(t, "dir_free") /\ frame[t].op = "init" /\ Goto(t, "idle", Idle)
      \/ \E k, g : Goto(t, k, g) /\ Makes(pc[t], f, k, g)
  BY <1>1, MakeFrame
<1> QED
  BY <1>2, <1>3, <1>4, <1>5

LEMMA StepServed ==
  ASSUME Serial, CoreInv, ServedInv, NEW t \in Thread, Step(t), ~Die
  PROVE  ServedInv'
<1>1. PICK k, g : Goto(t, k, g) /\ ServedAt(k, g)
  BY LooksServed, MakesServed
<1>2. \A u \in Thread : pc'[u] = k /\ frame'[u] = g
  BY <1>1, SerialThread DEF CoreInv, Context
<1> QED
  BY <1>1, <1>2 DEF ServedInv

(***************************************************************************)
(* The path in hand, step by step                                          *)
(***************************************************************************)
Naught(l, f) == l # "list" /\ ~(WritesInode(l) /\ f.ra = "done") /\ ~Naming(l, f)

LEMMA NaughtPath ==
  ASSUME NEW l, NEW f, NEW file, NEW st, Naught(l, f)
  PROVE  PathAt(l, f, file, st)
  BY DEF Naught, PathAt, Naming, Creating, Saved

\* Where the path of a call leads when it is resolved.
LEMMA ResolvedPath ==
  ASSUME CoreInv, LifeInv, up = "mounted", NEW t \in Thread, At(t, "resolved"), frame[t].found
  PROVE  End(meta.view, store, Target(frame[t])) = {frame[t].node.i_inode_no}
<1>1. WalkAt(pc[t], frame[t], strtok, meta, store)
  BY DEF CoreInv, FindInv, WalkInv, LifeInv
<1> QED
  BY <1>1 DEF WalkAt, At, Answered, End

\* What a block downloaded tells, once the process is live.
LEMMA LiveDownload ==
  ASSUME CoreInv, LifeInv, Live, up = "mounted", faults' = 0, NEW t \in Thread,
         NEW i \in {frame[t].base, frame[t].node}, i.i_block # 0,
         ~Creating(pc[t], frame[t]) \/ pc[t] = "slot",
         NEW data, Downloaded(i.i_block, data)
  PROVE  i.i_block \in DOMAIN store /\ data = store[i.i_block]
<1>1. Exact /\ Thread # {}
  BY DEF Exact, LifeInv
<1>2. EntriesAt(pc[t], frame[t], superblock, store, block)
  BY <1>1 DEF CoreInv, EntriesInv, BlocksInv
<1>3. i.i_block \in DOMAIN store
  BY <1>2 DEF EntriesAt, HasBlock
<1>4. superblock.s_log_block_size # 0 /\ TypeOK /\ faults = 0
  BY <1>1 DEF CoreInv, Context, NumbersInv, LiveInv, LifeInv
<1>5. data = store[i.i_block]
  BY <1>3, <1>4, ExactDownload
<1> QED
  BY <1>3, <1>5

\* While the call looks, what it has found is true of the tree.
LEMMA LooksPath ==
  ASSUME Serial, Ordinary, CoreInv, TreeInv, faults' = 0, up = "mounted",
         NEW t \in Thread, Step(t), ~Die, ~Creating(pc[t], frame[t])
  PROVE  \E k, g : Goto(t, k, g) /\ PathAt(k, g, meta.view, store)
<1> DEFINE f == frame[t]
           P(k, g) == PathAt(k, g, meta.view, store)
<1>1. /\ P(pc[t], f) /\ ServedAt(pc[t], f) /\ RouteAt(pc[t], f) /\ TypeOK /\ LifeInv
      /\ TidyInv /\ LinksInv
  BY DEF TreeInv, ServedInv, PathInv, CoreInv, Context, PlacedInv
<1>2. \/ Live /\ Exact /\ mapping.open
      \/ FrozenAt(pc[t], f) /\ ~mapping.open
  BY <1>1, LivePhases DEF Live
<1>3. ASSUME NEW k, NEW g, Goto(t, k, g), Naught(k, g) PROVE \E j, h : Goto(t, j, h) /\ P(j, h)
  BY <1>3, NaughtPath
<1>4. ASSUME NEW g, Goto(t, "done", g) PROVE \E j, h : Goto(t, j, h) /\ P(j, h)
  <2>1. Naught("done", g)
    BY DEF Naught, Naming, Creating, Saved, Numbered, Advanced, WritesInode, WritesSuper
  <2> QED
    BY <1>3, <1>4, <2>1
<1>5. ASSUME NEW k \in {"lookup", "get_inode", "read_inode", "walk", "resolved"}, NEW g,
             g.ra # "named"
      PROVE  Naught(k, g)
  BY <1>5 DEF Naught, Naming, Creating, Saved, Numbered, Advanced, WritesInode, WritesSuper
<1>6. \A g : Naught("walk", g) /\ Naught("resolved", g) /\ Naught("idle", g)
  BY DEF Naught, Naming, Creating, Saved, Numbered, Advanced, WritesInode, WritesSuper
<1>7. ASSUME NEW g, NEW k \in {"lookup", "get_inode", "read_inode", "named"}
      PROVE  ~Creating(k, g) /\ ~WritesInode(k) /\ k # "list" /\ k # "link"
  BY DEF Creating, Saved, Numbered, Advanced, WritesInode, WritesSuper
<1>8. CASE find_inode(t)
  <2>1. PICK k, g : Goto(t, k, g) /\ FindTo(f, k, g)
    BY <1>1, <1>8, FindGoes
  <2>2. Naught(k, g)
    BY <1>5, <1>6, <2>1 DEF FindTo
  <2> QED
    BY <1>3, <2>1, <2>2
<1>9. CASE lookup(t)
  <2>1. PICK k, g : Goto(t, k, g) /\ LookupTo(f, k, g)
    BY <1>1, <1>9, LookupGoes
  <2>2. pc[t] = "lookup" /\ f.ra \in {"walk", "named"}
    BY <1>1, <1>9 DEF lookup, At, RouteAt
  <2>3. CASE f.ra = "walk"
    <3>1. g.ra # "named" /\ k \in {"walk", "get_inode"}
      BY <2>1, <2>3 DEF LookupTo, Carried
    <3> QED
      BY <1>3, <1>5, <2>1, <3>1
  <2>4. CASE f.ra = "named"
    <3> DEFINE b == f.base.i_block
               x == Last(f.path)
    <3>1. /\ End(meta.view, store, Front(f.path)) = {f.base.i_inode_no} /\ b # 0
          /\ f.comp = x /\ Base(f) = f.base
      BY <1>1, <2>2, <2>4 DEF PathAt, Naming, ServedAt, Base
    <3>2. /\ g.path = f.path /\ g.base = f.base /\ g.ra = "named"
          /\ \/ k = "named" /\ ~g.found /\ Absent(b, x)
             \/ k = "get_inode" /\ Present(b, x)
      BY <2>1, <2>4, <3>1 DEF LookupTo, Carried, Talks
    <3>3. PICK data : Downloaded(b, data) /\ (k = "named" => Matches(data, x) = {})
                      /\ (k = "get_inode" => Matches(data, x) # {})
      BY <3>1, <3>2 DEF Absent, Present
    <3>4. Live
      BY <1>2, <3>3 DEF Downloaded
    <3>5. data = store[b]
      BY <1>1, <3>1, <3>3, <3>4, LiveDownload
    <3>6. P(k, g)
      BY <1>7, <3>1, <3>2, <3>3, <3>5 DEF PathAt
    <3> QED
      BY <2>1, <3>6
  <2> QED
    BY <2>2, <2>3, <2>4
<1>10. CASE get_inode(t)
  <2>1. Goto(t, "read_inode", f) /\ pc[t] = "get_inode"
    BY <1>10 DEF get_inode, At
  <2>2. P("read_inode", f)
    BY <1>1, <1>7, <2>1 DEF PathAt, Naming
  <2> QED
    BY <2>1, <2>2
<1>11. CASE read_inode(t)
  <2>1. PICK g : Goto(t, f.ra, g) /\ Carried(f, g) /\ g.found
    BY <1>1, <1>11, ReadGoes
  <2>2. pc[t] = "read_inode" /\ f.ra \in {"walk", "named"}
    BY <1>1, <1>11 DEF read_inode, At, RouteAt
  <2>3. CASE f.ra = "walk"
    BY <1>3, <1>6, <2>1, <2>3
  <2>4. CASE f.ra = "named"
    <3>1. g.path = f.path /\ g.base = f.base
      BY <2>1 DEF Carried, Talks
    <3>2. P("named", g)
      BY <1>1, <1>7, <2>1, <2>2, <2>4, <3>1 DEF PathAt, Naming
    <3> QED
      BY <2>1, <2>4, <3>2
  <2> QED
    BY <2>2, <2>3, <2>4
<1>12. CASE walk(t)
  <2>1. PICK k, g : Goto(t, k, g) /\ WalkTo(f, k, g)
    BY <1>1, <1>12, WalkGoes
  <2>2. f.ra = "walk"
    BY <1>1, <1>12 DEF walk, At, RouteAt
  <2>3. Naught(k, g)
    BY <1>5, <1>6, <2>1, <2>2 DEF WalkTo
  <2> QED
    BY <1>3, <2>1, <2>3
<1>13. CASE resolved(t)
  <2>1. PICK k, g : Goto(t, k, g) /\ ResolvedTo(f, k, g)
    BY <1>1, <1>13, ResolvedGoes
  <2>2. At(t, "resolved") /\ pc[t] = "resolved"
    BY <1>13 DEF resolved, At
  <2>3. CASE k = "done"
    BY <1>4, <2>1, <2>3
  <2>4. ASSUME f.found PROVE End(meta.view, store, Target(f)) = {f.node.i_inode_no}
    BY <1>1, <2>2, <2>4, ResolvedPath
  <2>5. CASE k = "list"
    <3>1. f.found /\ Target(f) = f.path /\ g = f
      BY <2>1, <2>5 DEF ResolvedTo, Target, Mutators
    <3>2. ~Naming("list", f) /\ ~Creating("list", f)
      BY DEF Naming, Creating, Saved, Numbered, Advanced, WritesInode, WritesSuper
    <3>3. P("list", f)
      BY <2>4, <3>1, <3>2 DEF PathAt
    <3> QED
      BY <2>1, <2>5, <3>1, <3>3
  <2>6. CASE k = "update_inode"
    <3>1. /\ f.found /\ Target(f) = f.path /\ g.path = f.path /\ g.ra = "done"
          /\ g.node.i_inode_no = f.node.i_inode_no
      BY <2>1, <2>6 DEF ResolvedTo, Target, Mutators, Talks, Alike
    <3>2. ~Naming("update_inode", g) /\ ~Creating("update_inode", g)
      BY <3>1 DEF Naming, Creating, Saved, Numbered, Advanced, WritesInode, WritesSuper
    <3>3. P("update_inode", g)
      BY <2>4, <3>1, <3>2 DEF PathAt
    <3> QED
      BY <2>1, <2>6, <3>3
  <2>7. CASE k = "lookup"
    <3>1. /\ f.found /\ Target(f) = Front(f.path) /\ g.path = f.path /\ g.base = f.node
          /\ f.op \in Mutators /\ g.ra = "named"
      BY <2>1, <2>7 DEF ResolvedTo, Target, Talks
    <3> DEFINE n == f.node.i_inode_no
    <3>2. End(meta.view, store, Front(f.path)) = {n}
      BY <2>4, <3>1
    <3>3. f.node.i_block # 0
      <4>1. CASE FrozenAt(pc[t], f)
        BY <1>1, <2>2, <4>1 DEF FrozenAt, LifeInv, WritesInode
      <4>2. CASE Live /\ Exact
        <5>1. LiveTree
          BY <1>1, <4>2 DEF LiveTree
        <5>2. Asked(f) \in Calls /\ Asked(f).path = f.path /\ f.path # <<>>
          BY <1>1, <2>2, <3>1, ThreadFrame DEF ServedAt, Asked, Mutators
        <5>3. InodeAt(meta.view, n).i_block # 0
          BY <3>2, <5>1, <5>2, ThroughDirs
        <5>4. Agree(f.node, meta.view)
          BY <4>2 DEF CoreInv, DirsInv, MakingInv, MakingAt, KnownAt, Known
        <5>5. n \in Nat
          BY <1>1, ThreadFrame DEF Frame, Inode
        <5>6. InodeAt(meta.view, n) = InodeIn(meta.view, n)
          BY <5>5, InodeAtView DEF CoreInv, Context
        <5> QED
          BY <5>3, <5>4, <5>6 DEF Agree
      <4> QED
        BY <1>2, <4>1, <4>2
    <3>4. P("lookup", g)
      BY <1>7, <3>1, <3>2, <3>3 DEF PathAt
    <3> QED
      BY <2>1, <2>7, <3>4
  <2> QED
    BY <2>1, <2>3, <2>5, <2>6, <2>7 DEF ResolvedTo
<1>14. CASE list(t)
  BY <1>1, <1>4, <1>14, ListGoes
<1>15. CASE named(t)
  <2>1. PICK k, g : Goto(t, k, g) /\ NamedTo(f, k, g)
    BY <1>1, <1>15, NamedGoes
  <2>2. pc[t] = "named"
    BY <1>15 DEF named, At
  <2>3. CASE k = "done"
    BY <1>4, <2>1, <2>3
  <2>4. CASE k = "update_inode"
    <3>1. /\ g.path = f.path /\ g.base = f.base /\ g.ra = "inode_written"
          /\ f.found <=> f.op = "rmdir"
      BY <2>1, <2>4 DEF NamedTo, Talks
    <3>2. f.op # "rmdir"
      <4>1. f.op = "rmdir" => Asked(f) \in Calls /\ Asked(f).op = "rmdir"
        BY <1>1, <2>2 DEF ServedAt, Asked
      <4> QED
        BY <4>1 DEF Ordinary
    <3>3. P("update_inode", g)
      BY <1>1, <2>2, <3>1, <3>2 DEF PathAt, Naming
    <3> QED
      BY <2>1, <2>4, <3>3
  <2> QED
    BY <2>1, <2>3, <2>4 DEF NamedTo
<1>16. CASE done(t)
  <2>1. Goto(t, "idle", Idle)
    BY <1>16 DEF done
  <2> QED
    BY <1>3, <1>6, <2>1
<1>17. CASE update_inode(t) /\ f.ra # "inode_written" /\ f.ra # "dir_written"
  <2>1. Goto(t, "write_inode", f) /\ pc[t] = "update_inode" /\ f.ra = "done"
    BY <1>1, <1>17 DEF update_inode, At, RouteAt
  <2>2. ~Naming("write_inode", f) /\ ~Creating("write_inode", f)
    BY <2>1 DEF Naming, Creating, Saved, Numbered, Advanced, WritesInode, WritesSuper
  <2>3. P("write_inode", f)
    BY <1>1, <2>1, <2>2 DEF PathAt, WritesInode
  <2> QED
    BY <2>1, <2>3
<1>18. CASE write_inode(t) /\ f.ra # "inode_written" /\ f.ra # "dir_written"
  <2>1. Goto(t, "done", f)
    BY <1>1, <1>18 DEF write_inode, At, RouteAt
  <2> QED
    BY <1>4, <2>1
<1>19. ~(update_superblock(t) /\ f.ra \notin {"slot", "dir_block", "dir_free"})
       /\ ~(write_superblock(t) /\ f.ra \notin {"slot", "dir_block", "dir_free"})
  BY <1>1 DEF update_superblock, write_superblock, At, RouteAt
<1> QED
  BY CalmSteps, <1>8, <1>9, <1>10, <1>11, <1>12, <1>13, <1>14, <1>15, <1>16, <1>17, <1>18, <1>19

\* While the call makes an inode, the name is still free in the parent.
LEMMA MakesPath ==
  ASSUME Serial, Ordinary, CoreInv, TreeInv, faults' = 0, up = "mounted",
         NEW t \in Thread, Step(t), ~Die, Creating(pc[t], frame[t]), ~At(t, "link")
  PROVE  \E k, g : /\ Goto(t, k, g) /\ PathAt(k, g, meta.view, store)
                   /\ g.base = frame[t].base
<1> DEFINE f == frame[t]
           l == pc[t]
<1>1. /\ PathAt(l, f, meta.view, store) /\ RouteAt(l, f) /\ TypeOK /\ LifeInv /\ TidyInv
      /\ LinksInv /\ l \in Labels /\ f \in Frame /\ l # "link"
  BY ThreadFrame DEF TreeInv, PathInv, CoreInv, Context, PlacedInv, At
<1>2. f.op # "init"
  BY DEF CoreInv, Context, NumbersInv, PhaseInv
<1>3. PICK k, g : Goto(t, k, g) /\ Makes(l, f, k, g)
  BY <1>1, <1>2, MakeFrame
<1>4. /\ g.path = f.path /\ g.base = f.base /\ Creating(k, g) /\ Naming(l, f)
      /\ k # "list" /\ ~(WritesInode(k) /\ g.ra = "done")
      /\ k \notin {"lookup", "get_inode", "read_inode", "named"}
      /\ k = "link" => l = "slot"
  <2>1. /\ l \in {"update_inode", "write_inode", "update_superblock", "write_superblock",
                  "inode_written", "bump_inode", "dir_block", "dir_put", "dir_iblock", "dir_written",
                  "bump_block", "dir_free", "slot"}
        /\ WritesInode(l) => f.ra \in {"inode_written", "dir_written"}
        /\ WritesSuper(l) => f.ra \in {"slot", "dir_block", "dir_free"}
    BY <1>1 DEF Creating, Saved, Numbered, Advanced, WritesInode, WritesSuper, RouteAt
  <2>2. /\ k \in {"update_inode", "write_inode", "update_superblock", "write_superblock",
                  "inode_written", "bump_inode", "dir_block", "dir_put", "dir_iblock", "dir_written",
                  "bump_block", "dir_free", "slot", "link"}
        /\ k = "link" => l = "slot"
        /\ WritesInode(k) => g.ra \in {"inode_written", "dir_written"}
        /\ g.path = f.path /\ g.base = f.base
    BY <1>3, <2>1 DEF Makes, WritesInode, WritesSuper
  <2>3. Creating(k, g)
    BY <1>1, <1>3, MakesShape
  <2> QED
    BY <2>2, <2>3 DEF Naming, WritesInode
<1> DEFINE b == f.base.i_block
           x == Last(f.path)
<1>5. /\ End(meta.view, store, Front(f.path)) = {f.base.i_inode_no} /\ b # 0
      /\ Matches(store[b], x) = {}
  BY <1>1, <1>4 DEF PathAt
<1>6. CASE l # "slot"
  <2>1. k # "link"
    BY <1>4, <1>6
  <2>2. PathAt(k, g, meta.view, store)
    BY <1>4, <1>5, <2>1 DEF PathAt
  <2> QED
    BY <1>3, <1>4, <2>2
<1>7. CASE l = "slot"
  <2>1. slot(t)
    BY <1>7 DEF Step, find_inode, lookup, get_inode, read_inode, walk, resolved, list,
       named, update_inode, write_inode, update_superblock, write_superblock, inode_written,
       bump_inode, dir_block, dir_put, dir_iblock, dir_written, bump_block, dir_free, link, done, At
  <2>2. PICK h : Goto(t, "link", h) /\ SlotTo(f, h)
    BY <1>1, <2>1, SlotGoes
  <2>3. PICK data : /\ Downloaded(b, data)
                    /\ FreeSlots(data) = {} \/ h.slot \in Slot
    BY <1>5, <2>2 DEF SlotTo
  <2>4. Live
    <3>1. mapping.open
      BY <2>3 DEF Downloaded
    <3> QED
      BY <1>1, <3>1 DEF Live, LifeInv
  <2>5. b \in DOMAIN store /\ data = store[b]
    BY <1>1, <1>5, <1>7, <2>3, <2>4, LiveDownload
  <2>6. LiveTree
    BY <1>1, <2>4 DEF LiveTree
  <2>7. x \in Name
    <3>1. f.op \in Mutators
      BY <1>7 DEF CoreInv, Context, ControlOK, Places
    <3> QED
      BY <1>1, <3>1, ThreadFrame
  <2>8. FreeSlots(data) # {}
    BY <1>5, <2>5, <2>6, <2>7, RoomLeft
  <2>9. h.slot # 0
    BY <2>3, <2>8, BoundAssumption DEF Slot
  <2>10. h.path = f.path /\ h.base = f.base
    BY <2>2 DEF SlotTo, Talks
  <2>11. ~WritesInode("link") /\ Naming("link", h)
    BY DEF WritesInode, Naming, Creating, Saved
  <2>12. PathAt("link", h, meta.view, store)
    BY <1>5, <2>9, <2>10, <2>11 DEF PathAt
  <2> QED
    BY <2>2, <2>10, <2>12
<1> QED
  BY <1>6, <1>7

\* A step that links nothing leaves the paths, and the block of the parent.
LEMMA PathKept ==
  ASSUME Serial, Ordinary, CoreInv, CoreInv', TreeInv, LifeInv', up = "mounted",
         NEW t \in Thread, Step(t), ~Die, ~At(t, "link"),
         NEW k, NEW g \in Frame, PathAt(k, g, meta.view, store),
         Naming(k, g) => g.path # <<>>,
         At(t, "dir_put") => g.base = frame[t].base
  PROVE  PathAt(k, g, meta'.view, store')
<1> DEFINE f == frame[t]
           b == g.base.i_block
           n == g.base.i_inode_no
<1>1. /\ LifeInv /\ TidyInv /\ g.path \in Seq(Name) /\ n \in Nat
      /\ Naming(k, g) => Front(g.path) \in Seq(Name)
  BY FrontLast DEF TreeInv, Frame, Inode
<1>2. SameEnds(meta.view, store, meta'.view, store')
  BY <1>1, StepTree
<1>3. Naming(k, g) => store'[b] = store[b]
  <2> SUFFICES ASSUME Naming(k, g) PROVE store'[b] = store[b]
    OBVIOUS
  <2>1. CASE ~At(t, "dir_put")
    <3>1. UNCHANGED store
      BY <1>1, <2>1, StepRemote DEF CoreInv, Context, LifeInv
    <3> QED
      BY <3>1
  <2>2. CASE At(t, "dir_put")
    <3>1. Exact /\ g.base = f.base /\ b # 0
      BY <1>1, <2>2, PutExact DEF PathAt
    <3>2. Agree(f.base, meta.view)
      BY <3>1 DEF CoreInv, DirsInv, MakingInv, MakingAt, KnownAt, Known
    <3>3. InodeAt(meta.view, n).i_block = b
      <4>1. InodeAt(meta.view, n) = InodeIn(meta.view, n)
        BY <1>1, InodeAtView DEF CoreInv, Context
      <4> QED
        BY <3>1, <3>2, <4>1 DEF Agree
    <3>4. n \in Used
      <4>1. End(meta.view, store, Front(g.path)) = {n}
        BY DEF PathAt
      <4>2. End(meta.view, store, Front(g.path)) \subseteq Used
        BY <1>1, UsedSpans, EndIn
      <4> QED
        BY <4>1, <4>2
    <3>5. SameDir(meta.view, store, meta'.view, store', n)
      BY <1>1, <3>4, StepDirs
    <3>6. b \in DOMAIN store
      BY <3>1 DEF CoreInv, EntriesInv, BlocksInv, EntriesAt, HasBlock
    <3> QED
      BY <3>1, <3>3, <3>5, <3>6 DEF SameDir
  <2> QED
    BY <2>1, <2>2
<1>4. k \in {"get_inode", "read_inode"} /\ g.ra = "named" => Naming(k, g)
  BY DEF Naming
<1>5. k = "named" \/ Creating(k, g) => Naming(k, g)
  BY DEF Naming
<1>6. /\ End(meta'.view, store', g.path) = End(meta.view, store, g.path)
      /\ Naming(k, g) => End(meta'.view, store', Front(g.path)) = End(meta.view, store, Front(g.path))
  BY <1>1, <1>2 DEF SameEnds
<1> QED
  BY <1>3, <1>4, <1>5, <1>6 DEF PathAt

LEMMA StepPath ==
  ASSUME Serial, Ordinary, CoreInv, CoreInv', TreeInv, LifeInv',
         NEW t \in Thread, Step(t), ~Die
  PROVE  PathInv'
<1>1. LifeInv /\ faults' = 0 /\ TypeOK /\ TypeOK' /\ Context
  BY DEF TreeInv, LifeInv, CoreInv, Context
<1> SUFFICES ASSUME up' = "mounted", NEW u \in Thread PROVE PathAt(pc'[u], frame'[u], meta'.view, store')
  BY DEF PathInv
<1>2. u = t /\ frame'[u] \in Frame /\ (frame'[u].op \in Mutators => frame'[u].path # <<>>)
  BY <1>1 DEF Serial, TypeOK
<1>3. CASE up = "init"
  <2>1. Goto(t, "idle", Idle)
    BY <1>1, <1>3, InitStep
  <2>2. pc'[u] = "idle" /\ frame'[u] = Idle
    BY <1>1, <2>1, SerialThread
  <2> QED
    BY <2>2, IdleServed
<1>4. CASE up # "init"
  <2>0. up = "mounted"
    BY <1>1, <1>4, StepUp DEF Context, TypeOK
  <2>1. CASE At(t, "link")
    <3>1. PICK g : Goto(t, "done", g)
      <4>1. link(t)
        BY <2>1 DEF Step, find_inode, lookup, get_inode, read_inode, walk, resolved, list,
           named, update_inode, write_inode, update_superblock, write_superblock, inode_written,
           bump_inode, dir_block, dir_put, dir_iblock, dir_written, bump_block, dir_free, slot, done, At
      <4> QED
        BY <1>1, <4>1, LinkGoes
    <3>2. pc'[u] = "done" /\ frame'[u] = g
      BY <1>1, <3>1, SerialThread
    <3>3. Naught("done", g)
      BY DEF Naught, Naming, Creating, Saved, Numbered, Advanced, WritesInode, WritesSuper
    <3> QED
      BY <3>2, <3>3, NaughtPath
  <2>2. CASE ~At(t, "link")
    <3>1. PICK k, g : /\ Goto(t, k, g) /\ PathAt(k, g, meta.view, store)
                      /\ Creating(pc[t], frame[t]) => g.base = frame[t].base
      BY <1>1, <2>0, <2>2, LooksPath, MakesPath
    <3>2. pc'[u] = k /\ frame'[u] = g
      BY <1>1, <3>1, SerialThread
    <3>3. At(t, "dir_put") => Creating(pc[t], frame[t])
      BY DEF At, Creating, Saved
    <3>4. Naming(k, g) => g.path # <<>>
      <4>1. ControlOK' /\ ServedInv'
        BY StepServed DEF CoreInv, Context, TreeInv
      <4>2. Naming(k, g) => g.op \in Mutators
        <5>1. ServedAt(k, g) /\ (frame'[u].op = "init" <=> up' = "init")
          BY <3>2, <4>1 DEF ServedInv, CoreInv, Context, NumbersInv, PhaseInv
        <5>2. \/ {k, g.ra} \cap {"named", "slot", "link"} = {} /\ {k, g.ra} \cap Making = {}
              \/ g.op \in Mutators
          BY <3>2, <4>1, <5>1 DEF ControlOK, Places
        <5>3. g.ra = "named" => g.op \in Mutators
          BY <5>2
        <5> QED
          BY <5>2, <5>3 DEF Naming, Creating, Saved, Numbered, Advanced, Making, WritesInode, WritesSuper
      <4> QED
        BY <1>2, <3>2, <4>2
    <3>5. PathAt(k, g, meta'.view, store')
      BY <1>2, <2>0, <2>2, <3>1, <3>2, <3>3, <3>4, PathKept
    <3> QED
      BY <3>2, <3>5
  <2> QED
    BY <2>1, <2>2
<1> QED
  BY <1>3, <1>4

\* The invariant is inductive.
LEMMA NextTree ==
  ASSUME Serial, Ordinary, CoreInv, CoreInv', TreeInv, [Next]_vars
  PROVE  TreeInv'
<1>1. ASSUME NEW t \in Thread, Step(t), ~Die PROVE TreeInv'
  <2>1. LifeInv'
    BY <1>1, StepLife
  <2>2. TidyInv' /\ SavedInv' /\ ServedInv'
    BY <1>1, StepTidy, StepSaved, StepServed DEF TreeInv
  <2>3. LinksInv'
    BY <1>1, <2>1, StepLinksInv
  <2>4. PathInv'
    BY <1>1, <2>1, StepPath
  <2> QED
    BY <2>1, <2>2, <2>3, <2>4 DEF TreeInv
<1>2. ASSUME NEW t \in Thread, Step(t), Die PROVE TreeInv'
  <2>1. up = "init" => At(t, "dir_free")
    BY <1>2, InitStep DEF TreeInv
  <2> QED
    BY <1>2, <2>1, DieKept
<1>3. ASSUME NEW t \in Thread, Mount(t) PROVE TreeInv'
  BY <1>3, MountKept
<1>4. ASSUME NEW t \in Thread, NEW c \in Calls, Call(t, c) PROVE TreeInv'
  BY <1>4, CallKept
<1>5. CASE Unmount \/ Crash
  BY <1>5, StopKept
<1>6. CASE UNCHANGED vars
  BY <1>6, SameKept
<1> QED
  BY <1>1, <1>2, <1>3, <1>4, <1>5, <1>6 DEF Next

(***************************************************************************)
(* What the tree is told of a step                                         *)
(***************************************************************************)
AskedBy(f) == IF f.op \in {"none", "init"} THEN [op |-> "none", path |-> <<>>] ELSE Asked(f)
\* The answer of a thread at label l with the locals f, as Told says it.
ToldAt(l, f) ==
    IF ~(l = "done") THEN [ret |-> "none", kind |-> "none", names |-> {}]
    ELSE [ret   |-> Returned(f),
          kind  |-> IF f.op \notin Mutators /\ f.ret = "ok" THEN f.node.i_mode ELSE "none",
          names |-> IF f.op = "readdir" THEN NamesIn(f.data) ELSE {}]

\* The calls and the answers of all threads.
AskedAll(h)    == [u \in Thread |-> AskedBy(h[u])]
ToldAll(l, h)  == [u \in Thread |-> ToldAt(l[u], h[u])]
\* The variables call and answer of the abstract tree.
CallsNow == [t \in Thread |-> IF frame[t].op \in {"none", "init"}
                                     THEN [op |-> "none", path |-> <<>>]
                                     ELSE [op |-> frame[t].op, path |-> frame[t].path]]
ToldNow == [t \in Thread |-> Told(t)]

LEMMA CallsMapped == CallsNow = AskedAll(frame) /\ CallsNow' = AskedAll(frame')
  BY DEF CallsNow, AskedAll, AskedBy, Asked

LEMMA ToldMapped == ToldNow = ToldAll(pc, frame)
  BY DEF ToldNow, ToldAll, Told, ToldAt, At, NamesIn

LEMMA ToldNext == ToldNow' = ToldAll(pc', frame')
  BY DEF ToldNow, ToldAll, Told, ToldAt, At, NamesIn

LEMMA SeesStutter ==
  ASSUME TreeOf(meta'.view, store') = TreeOf(meta.view, store),
         AskedAll(frame') = AskedAll(frame), ToldAll(pc', frame') = ToldAll(pc, frame)
  PROVE  UNCHANGED Tree!vars
<1>1. Nodes' = Nodes
  BY NodesTree, NodesNext
<1>2. CallsNow' = CallsNow /\ ToldNow' = ToldNow
  BY CallsMapped, ToldMapped, ToldNext
<1> QED
  BY <1>1, <1>2 DEF Tree!vars, CallsNow, ToldNow

LEMMA IdleMapped == AskedBy(Idle) = Tree!NoCall /\ ToldAt("idle", Idle) = Tree!NoAnswer
  BY DEF AskedBy, ToldAt, Idle, Tree!NoCall, Tree!NoAnswer

LEMMA TreeSame ==
  ASSUME TreeOf(meta'.view, store') = TreeOf(meta.view, store)
  PROVE  Nodes' = Nodes
  BY NodesTree, NodesNext

\* A thread at work has an answer once it is at its end, and not before.
LEMMA ToldLate ==
  ASSUME NEW l, NEW f, l # "done"
  PROVE  ToldAt(l, f) = Tree!NoAnswer
  BY DEF ToldAt, Tree!NoAnswer

\* The end of the process is Stop.
LEMMA StopMapped ==
  ASSUME TreeOf(meta'.view, store') = TreeOf(meta.view, store),
         \A u \in Thread : pc'[u] = "idle" /\ frame'[u] = Idle
  PROVE  Tree!Stop
<1>1. CallsNow' = [u \in Thread |-> Tree!NoCall]
  BY CallsMapped, IdleMapped DEF AskedAll
<1>2. ToldNow' = [u \in Thread |-> Tree!NoAnswer]
  BY ToldNext, IdleMapped DEF ToldAll
<1> QED
  BY <1>1, <1>2, TreeSame DEF Tree!Stop, CallsNow, ToldNow

\* A call of the kernel is a Request.
LEMMA RequestMapped ==
  ASSUME Serial, NEW t \in Thread, NEW c,
         TreeOf(meta'.view, store') = TreeOf(meta.view, store),
         frame[t].op = "none", pc[t] # "done", pc'[t] # "done",
         AskedBy(frame'[t]) = c
  PROVE  Tree!Request(t, c)
<1>1. \A u \in Thread : u = t
  BY DEF Serial
<1>2. CallsNow[t] = Tree!NoCall
  BY DEF CallsNow, Tree!NoCall
<1>3. CallsNow' = [CallsNow EXCEPT ![t] = c]
  <2>1. CallsNow' = [u \in Thread |-> AskedBy(frame'[u])] /\ CallsNow = [u \in Thread |-> AskedBy(frame[u])]
    BY CallsMapped DEF AskedAll
  <2> QED
    BY <1>1, <2>1
<1>4. ToldNow' = ToldNow
  BY <1>1, ToldMapped, ToldNext, ToldLate DEF ToldAll
<1> QED
  BY <1>2, <1>3, <1>4, TreeSame DEF Tree!Request, CallsNow, ToldNow

\* The return of a call is an Answer.
LEMMA AnswerMapped ==
  ASSUME Serial, NEW t \in Thread,
         TreeOf(meta'.view, store') = TreeOf(meta.view, store),
         pc[t] = "done", frame[t].ret # "none", pc'[t] = "idle", frame'[t] = Idle
  PROVE  Tree!Answer(t)
<1>1. \A u \in Thread : u = t
  BY DEF Serial
<1>2. ToldNow[t] # Tree!NoAnswer
  <2>1. ToldNow[t] = ToldAt("done", frame[t])
    BY ToldMapped DEF ToldAll
  <2>2. ToldAt("done", frame[t]).ret = Returned(frame[t]) /\ Tree!NoAnswer.ret = "none"
    BY DEF ToldAt, Tree!NoAnswer
  <2>3. Returned(frame[t]) # "none"
    BY DEF Returned
  <2> QED
    BY <2>1, <2>2, <2>3
<1>3. CallsNow' = [CallsNow EXCEPT ![t] = Tree!NoCall]
  <2>1. CallsNow' = [u \in Thread |-> AskedBy(frame'[u])] /\ CallsNow = [u \in Thread |-> AskedBy(frame[u])]
    BY CallsMapped DEF AskedAll
  <2> QED
    BY <1>1, <2>1, IdleMapped
<1>4. ToldNow' = [ToldNow EXCEPT ![t] = Tree!NoAnswer]
  <2>1. ToldNow' = [u \in Thread |-> ToldAt(pc'[u], frame'[u])] /\ ToldNow = [u \in Thread |-> ToldAt(pc[u], frame[u])]
    BY ToldMapped, ToldNext DEF ToldAll
  <2> QED
    BY <1>1, <2>1, IdleMapped
<1> QED
  BY <1>2, <1>3, <1>4, TreeSame DEF Tree!Answer, CallsNow, ToldNow

Serves(f) == f.op \notin {"none", "init"}

\* A step that changes neither the tree, the call nor its answer is none.
LEMMA StutterMapped ==
  ASSUME Serial, NEW t \in Thread,
         TreeOf(meta'.view, store') = TreeOf(meta.view, store),
         AskedBy(frame'[t]) = AskedBy(frame[t]), pc[t] # "done", pc'[t] # "done"
  PROVE  UNCHANGED Tree!vars
<1>1. \A u \in Thread : u = t
  BY DEF Serial
<1>2. AskedAll(frame') = AskedAll(frame)
  BY <1>1 DEF AskedAll
<1>3. ToldAll(pc', frame') = ToldAll(pc, frame)
  BY <1>1, ToldLate DEF ToldAll
<1> QED
  BY <1>2, <1>3, SeesStutter

\* A call that reaches its end gets its answer.
LEMMA EffectMapped ==
  ASSUME Serial, NEW t \in Thread, NEW ops, NEW ans,
         Serves(frame[t]), frame[t].op \in ops, pc[t] # "done",
         pc'[t] = "done", Talks(frame[t], frame'[t]), ToldAt("done", frame'[t]) = ans
  PROVE  Tree!Effect(t, ops, ans) /\ CallsNow[t] = Asked(frame[t])
<1>1. \A u \in Thread : u = t
  BY DEF Serial
<1>2. CallsNow[t] = Asked(frame[t])
  BY DEF CallsNow, Serves, Asked
<1>3. CallsNow' = CallsNow
  <2>1. AskedBy(frame'[t]) = AskedBy(frame[t])
    BY DEF AskedBy, Asked, Talks
  <2> QED
    BY <1>1, <2>1, CallsMapped DEF AskedAll
<1>4. CallsNow[t].op \in ops
  BY <1>2 DEF Asked
<1>5. ToldNow' = [u \in Thread |-> ToldAt(pc'[u], frame'[u])] /\ ToldNow = [u \in Thread |-> ToldAt(pc[u], frame[u])]
  BY ToldMapped, ToldNext DEF ToldAll
<1>6. ToldNow[t] = Tree!NoAnswer
  BY <1>5, ToldLate
<1>7. ToldNow' = [ToldNow EXCEPT ![t] = ans]
  BY <1>1, <1>5
<1> QED
  BY <1>2, <1>3, <1>4, <1>6, <1>7 DEF Tree!Effect, CallsNow, ToldNow

\* The link of a call is its Make.
LEMMA MakeMapped ==
  ASSUME Serial, TypeOK, NEW t \in Thread, pc[t] = "link", Serves(frame[t]), LinkedTo(frame[t]),
         NEW g, Goto(t, "done", g), Talks(frame[t], g), g.ret = "ok"
  PROVE  \E kind \in {"dir", "file"} : Tree!Make(t, kind)
<1> DEFINE f == frame[t]
           kind == f.node.i_mode
           no == f.node.i_inode_no
           T == TreeOf(meta.view, store)
<1>1. kind \in {"dir", "file"} /\ f.op \in {IF kind = "dir" THEN "mkdir" ELSE "create"}
  BY DEF LinkedTo
<1>2. pc'[t] = "done" /\ frame'[t] = g
  BY SerialThread
<1>3. ToldAt("done", g) = Tree!Plain("ok")
  BY <1>1 DEF ToldAt, Returned, Talks, Mutators, Tree!Plain, Tree!NoAnswer
<1>4. /\ Tree!Effect(t, {IF kind = "dir" THEN "mkdir" ELSE "create"}, Tree!Plain("ok"))
      /\ CallsNow[t] = Asked(f)
  BY <1>1, <1>2, <1>3, EffectMapped
<1>5. CallsNow[t].path = f.path
  BY <1>4 DEF Asked
<1>6. f.path \notin DOMAIN T /\ Front(f.path) \in DOMAIN T
  BY TreeDomain DEF LinkedTo
<1>7. TreeOf(meta'.view, store') = [p \in DOMAIN T \cup {f.path} |-> IF p = f.path THEN kind ELSE T[p]]
  <2> DEFINE file == meta.view
             st == store
             st2 == store'
             a == f.path
  <2>1. Grown(file, st, st2, a, no)
    BY DEF LinkedTo, Grown
  <2> HIDE DEF file, st, st2, a, no
  <2>2. TreeOf(file, st2) = WithPath(TreeOf(file, st), a, InodeAt(file, no).i_mode)
    BY <2>1, LinkTree
  <2> USE DEF file, st, st2, a, no
  <2>3. meta' = meta /\ InodeAt(meta.view, no) = f.node
    BY DEF LinkedTo
  <2> QED
    BY <2>2, <2>3 DEF WithPath
<1>8. Nodes = T /\ Nodes' = [p \in DOMAIN T \cup {f.path} |-> IF p = f.path THEN kind ELSE T[p]]
  BY <1>7, NodesTree, NodesNext
<1> HIDE DEF f, kind, T
<1>9. ~Tree!Exists(f.path) /\ Tree!Exists(Tree!Parent(f.path))
  BY <1>6, <1>8 DEF Tree!Exists, Tree!Parent, Front
<1>10. Nodes' = Tree!With(f.path, kind)
  BY <1>8 DEF Tree!With
<1>11. Tree!Make(t, kind)
  BY <1>4, <1>5, <1>9, <1>10 DEF Tree!Make, CallsNow
<1> QED
  BY <1>1, <1>11

\* A call refused: nothing but its answer changes.
Refuses(t, g, ret) ==
    /\ TreeOf(meta'.view, store') = TreeOf(meta.view, store)
    /\ pc[t] # "done" /\ Serves(frame[t]) /\ Goto(t, "done", g) /\ Talks(frame[t], g)
    /\ g.ret = ret /\ ret # "ok" /\ (g.op = "readdir" => g.data = ZeroBlock)

LEMMA RefusalMapped ==
  ASSUME Serial, TypeOK, NEW t \in Thread, NEW g, NEW ret, Refuses(t, g, ret),
         NEW ops, frame[t].op \in ops
  PROVE  /\ Tree!Effect(t, ops, Tree!Plain(Returned(g))) /\ UNCHANGED Nodes
         /\ CallsNow[t].path = frame[t].path /\ g.op = frame[t].op /\ g.ret = ret
<1>1. pc'[t] = "done" /\ frame'[t] = g
  BY SerialThread DEF Refuses
<1>2. ToldAt("done", g) = Tree!Plain(Returned(g))
  <2>1. g.ret = ret /\ ret # "ok" /\ (g.op = "readdir" => g.data = ZeroBlock)
    BY DEF Refuses
  <2>2. NamesIn(ZeroBlock) = {}
    BY DEF NamesIn, ZeroBlock, NoEntry
  <2> QED
    BY <2>1, <2>2 DEF ToldAt, Returned, Mutators, Tree!Plain, Tree!NoAnswer
<1>3. Tree!Effect(t, ops, Tree!Plain(Returned(g))) /\ CallsNow[t] = Asked(frame[t])
  BY <1>1, <1>2, EffectMapped DEF Refuses
<1> QED
  BY <1>3, TreeSame DEF Refuses, Talks, Asked

\* A mkdir is told the code, a create that all is well.
LEMMA RefusedMapped ==
  ASSUME Serial, TypeOK, NEW t \in Thread, NEW g, NEW ret, Refuses(t, g, ret),
         frame[t].op \in {"mkdir", "create"}
  PROVE  /\ Tree!Refused(t, ret) /\ UNCHANGED Nodes
         /\ CallsNow[t].path = frame[t].path
<1>1. CASE frame[t].op = "create"
  <2>1. /\ Tree!Effect(t, {"create"}, Tree!Plain(Returned(g))) /\ UNCHANGED Nodes
        /\ CallsNow[t].path = frame[t].path /\ g.op = frame[t].op
    BY <1>1, RefusalMapped
  <2>2. Returned(g) = "ok"
    BY <1>1, <2>1 DEF Returned
  <2> QED
    BY <2>1, <2>2 DEF Tree!Refused
<1>2. CASE frame[t].op # "create"
  <2>1. /\ Tree!Effect(t, {"mkdir", "create"}, Tree!Plain(Returned(g))) /\ UNCHANGED Nodes
        /\ CallsNow[t].path = frame[t].path /\ g.op = frame[t].op /\ g.ret = ret
    BY RefusalMapped
  <2>2. Returned(g) = ret
    BY <1>2, <2>1 DEF Returned
  <2> QED
    BY <2>1, <2>2 DEF Tree!Refused
<1> QED
  BY <1>1, <1>2

\* EEXIST is for a path that leads somewhere.
LEMMA TwiceMapped ==
  ASSUME Serial, TypeOK, NEW t \in Thread, NEW g, Refuses(t, g, "EEXIST"),
         frame[t].op \in {"mkdir", "create"},
         frame[t].path \in DOMAIN TreeOf(meta.view, store)
  PROVE  Tree!RefuseTwice(t)
<1>1. /\ Tree!Refused(t, "EEXIST") /\ UNCHANGED Nodes
      /\ CallsNow[t].path = frame[t].path
  BY RefusedMapped
<1>2. Tree!Exists(frame[t].path)
  BY NodesTree DEF Tree!Exists
<1> QED
  BY <1>1, <1>2 DEF Tree!RefuseTwice, CallsNow

\* ENOENT of mkdir or create is for a parent that is not there.
LEMMA OrphanMapped ==
  ASSUME Serial, TypeOK, NEW t \in Thread, NEW g, Refuses(t, g, "ENOENT"),
         frame[t].op \in {"mkdir", "create"},
         Front(frame[t].path) \notin DOMAIN TreeOf(meta.view, store)
  PROVE  Tree!RefuseOrphan(t)
<1>1. /\ Tree!Refused(t, "ENOENT") /\ UNCHANGED Nodes
      /\ CallsNow[t].path = frame[t].path
  BY RefusedMapped
<1>2. ~Tree!Exists(Tree!Parent(frame[t].path))
  BY NodesTree DEF Tree!Exists, Tree!Parent, Front
<1> QED
  BY <1>1, <1>2 DEF Tree!RefuseOrphan, CallsNow

\* ENOENT of a call that looks is for a path that leads nowhere.
LEMMA NotThereMapped ==
  ASSUME Serial, TypeOK, NEW t \in Thread, NEW g, Refuses(t, g, "ENOENT"),
         frame[t].op \in Tree!Looks,
         frame[t].path \notin DOMAIN TreeOf(meta.view, store)
  PROVE  Tree!NotThere(t)
<1>1. /\ Tree!Effect(t, Tree!Looks, Tree!Plain(Returned(g))) /\ UNCHANGED Nodes
      /\ CallsNow[t].path = frame[t].path /\ g.op = frame[t].op /\ g.ret = "ENOENT"
  BY RefusalMapped
<1>3. Returned(g) = "ENOENT"
  BY <1>1 DEF Returned, Tree!Looks
<1>2. ~Tree!Exists(frame[t].path)
  BY NodesTree DEF Tree!Exists
<1> QED
  BY <1>1, <1>2, <1>3 DEF Tree!NotThere, CallsNow

\* A call that looked at what is there.
Saw(t, g) ==
    LET f == frame[t]
        T == TreeOf(meta.view, store)
    IN  /\ TreeOf(meta'.view, store') = T
        /\ pc[t] # "done" /\ Serves(f) /\ Goto(t, "done", g) /\ Talks(f, g) /\ g.ret = "ok"
        /\ f.path \in DOMAIN T /\ g.node.i_mode = T[f.path]
        /\ f.op = "readdir" => NamesIn(g.data) = ChildrenOf(f.path)

\* A call that looks tells what is at its path.
LEMMA LookMapped ==
  ASSUME Serial, TypeOK, NEW t \in Thread, NEW g, Saw(t, g), frame[t].op \in Tree!Looks
  PROVE  Tree!Look(t)
<1> DEFINE p == frame[t].path
           ans == [ret |-> "ok", kind |-> Nodes[p],
                   names |-> IF frame[t].op = "readdir" THEN Tree!Children(p) ELSE {}]
<1>1. pc'[t] = "done" /\ frame'[t] = g
  BY SerialThread DEF Saw
<1>2. Nodes = TreeOf(meta.view, store)
  BY NodesTree
<1>3. Tree!Exists(p) /\ Tree!Children(p) = ChildrenOf(p)
  BY <1>2 DEF Tree!Exists, Tree!Children, ChildrenOf, Saw
<1>4. ToldAt("done", g) = ans
  <2>1. /\ g.ret = "ok" /\ g.op = frame[t].op /\ g.op \notin Mutators
        /\ g.node.i_mode = Nodes[p]
        /\ g.op = "readdir" => NamesIn(g.data) = Tree!Children(p)
    BY <1>2, <1>3 DEF Saw, Talks, Mutators, Tree!Looks
  <2> QED
    BY <2>1 DEF ToldAt, Returned, Mutators
<1>5. Tree!Effect(t, Tree!Looks, ans) /\ CallsNow[t] = Asked(frame[t])
  BY <1>1, <1>4, EffectMapped DEF Saw
<1>6. CallsNow[t].path = p /\ CallsNow[t].op = frame[t].op
  BY <1>5 DEF Asked
<1>7. UNCHANGED Nodes
  BY TreeSame DEF Saw
<1>8. ans = [ret |-> "ok", kind |-> Nodes[CallsNow[t].path],
             names |-> IF CallsNow[t].op = "readdir" THEN Tree!Children(CallsNow[t].path) ELSE {}]
  BY <1>6
<1>9. Tree!Effect(t, Tree!Looks,
           [ret |-> "ok", kind |-> Nodes[CallsNow[t].path],
            names |-> IF CallsNow[t].op = "readdir" THEN Tree!Children(CallsNow[t].path) ELSE {}])
  <2> HIDE DEF ans
  <2> QED
    BY <1>5, <1>8
<1>10. Tree!Exists(CallsNow[t].path)
  BY <1>3, <1>6
<1> QED
  BY <1>7, <1>9, <1>10 DEF Tree!Look, CallsNow

(***************************************************************************)
(* What a call that looks sees                                             *)
(***************************************************************************)
Refined == [Tree!Next]_(Tree!vars)

\* The calls that are served, and what they ask.
LEMMA Asks ==
  ASSUME Ordinary, CoreInv, ServedInv, up # "init", NEW t \in Thread, pc[t] # "idle"
  PROVE  LET f == frame[t]
         IN  /\ Serves(f) /\ Asked(f) \in Calls /\ f.path \in Paths /\ f.path \in Seq(Name)
             /\ f.op \in Tree!Looks \cup {"mkdir", "create"}
             /\ f.op \in {"mkdir", "create"} <=> f.op \in Mutators
             /\ f.op \in {"mkdir", "create"} => f.path # <<>>
<1> DEFINE f == frame[t]
<1>1. ServedAt(pc[t], f) /\ TypeOK /\ (f.op = "init" <=> up = "init")
  BY DEF ServedInv, CoreInv, Context, NumbersInv, PhaseInv
<1>2. f.op \notin {"none", "init"} /\ Asked(f) \in Calls /\ f.op # "unlink"
  BY <1>1 DEF ServedAt
<1>3. f.op \notin {"rmdir", "write"}
  BY <1>2 DEF Ordinary, Asked
<1>4. f.op \in Mutators \cup Readers
  BY <1>2, CallsAssumption DEF Asked
<1>5. f.op \in Tree!Looks \cup {"mkdir", "create"} /\ (f.op \in {"mkdir", "create"} <=> f.op \in Mutators)
  BY <1>2, <1>3, <1>4 DEF Mutators, Readers, Tree!Looks
<1>6. f.path \in Paths
  BY <1>2 DEF Paths, Asked
<1>7. f.op \in Mutators => f.path # <<>>
  BY <1>1, ThreadFrame
<1> QED
  BY <1>2, <1>5, <1>6, <1>7, PathsSeq DEF Serves

\* What is known of the inode a call was led to.
LEMMA NodeAgrees ==
  ASSUME CoreInv, LifeInv, up = "mounted", NEW t \in Thread, Step(t),
         \/ At(t, "resolved") \/ At(t, "list")
         \/ WritesInode(pc[t]) /\ frame[t].ra = "done"
  PROVE  Agree(frame[t].node, meta.view) /\ (frame[t].node.i_block = 0 => Live)
<1> DEFINE f == frame[t]
<1>1. ~Creating(pc[t], f)
  BY DEF Creating, Saved, Numbered, Advanced, WritesInode, WritesSuper, At
<1>2. CASE Live /\ Exact
  BY <1>1, <1>2 DEF CoreInv, DirsInv, MakingInv, MakingAt, KnownAt, Known
<1>3. CASE Frozen /\ FrozenAt(pc[t], f)
  <2>1. /\ Agree(root, meta.view) /\ root.i_block # 0
        /\ WritesInode(pc[t]) => Agree(f.node, meta.view)
    BY <1>3 DEF LifeInv, CoreInv, DirsInv, LoadedInv, Frozen
  <2>2. f.node = root \/ (WritesInode(pc[t]) /\ f.node.i_block # 0)
    BY <1>3 DEF FrozenAt, At, WritesInode
  <2> QED
    BY <2>1, <2>2
<1> QED
  BY <1>2, <1>3, LivePhases

\* The inode at the end of the path of a call is a node of the tree.
LEMMA NodeThere ==
  ASSUME CoreInv, LifeInv, up = "mounted", NEW t \in Thread, Step(t),
         \/ At(t, "resolved") \/ At(t, "list")
         \/ WritesInode(pc[t]) /\ frame[t].ra = "done",
         frame[t].path \in Paths,
         End(meta.view, store, frame[t].path) = {frame[t].node.i_inode_no}
  PROVE  /\ frame[t].path \in DOMAIN TreeOf(meta.view, store)
         /\ TreeOf(meta.view, store)[frame[t].path] = frame[t].node.i_mode
<1> DEFINE f == frame[t]
           n == f.node.i_inode_no
<1>1. f.path \in DOMAIN TreeOf(meta.view, store)
  BY TreeDomain
<1>2. n \in Nat /\ TypeOK
  BY ThreadFrame DEF CoreInv, Context, Frame, Inode
<1>3. InodeIn(meta.view, n).i_mode = f.node.i_mode /\ InodeAt(meta.view, n) = InodeIn(meta.view, n)
  BY <1>2, NodeAgrees, InodeAtView DEF Agree, CoreInv, Context
<1>4. CASE f.path = <<>>
  <2>1. n = 1
    BY <1>4, EndNothing
  <2>2. InodeIn(meta.view, 1).i_mode = "dir"
    BY DEF LifeInv, RootDir
  <2> QED
    BY <1>1, <1>3, <1>4, <2>1, <2>2, TreeKind
<1>5. CASE f.path # <<>>
  BY <1>1, <1>3, <1>5, TreeKind
<1> QED
  BY <1>4, <1>5

\* What readdir lists is what is there.
LEMMA Lists ==
  ASSUME CoreInv, TreeInv, faults' = 0, up = "mounted", NEW t \in Thread, list(t), Step(t), ~Die,
         frame[t].path \in Seq(Name),
         End(meta.view, store, frame[t].path) = {frame[t].node.i_inode_no},
         NEW g, ListTo(frame[t], g)
  PROVE  NamesIn(g.data) = ChildrenOf(frame[t].path)
<1> DEFINE f == frame[t]
           n == f.node.i_inode_no
           b == f.node.i_block
<1>1. pc[t] = "list" /\ At(t, "list") /\ LifeInv /\ TidyInv /\ LinksInv /\ ServedAt(pc[t], f) /\ TypeOK
  BY DEF list, At, TreeInv, ServedInv, CoreInv, Context
<1>2. ~Creating(pc[t], f)
  BY <1>1 DEF Creating, Saved, Numbered, Advanced, WritesInode, WritesSuper
<1>3. Agree(f.node, meta.view) /\ (b = 0 => Live)
  BY <1>1, NodeAgrees
<1>4. Live
  BY <1>3, LivePhases, <1>1 DEF ListTo, Downloaded
<1>5. LiveTree
  BY <1>1, <1>4 DEF LiveTree
<1>6. n \in Nat
  BY <1>1, ThreadFrame DEF Frame, Inode
<1>7. b = InodeAt(meta.view, n).i_block
  BY <1>3, <1>6, InodeAtView DEF Agree, CoreInv, Context
<1>8. ChildrenOf(f.path) = IF b = 0 THEN {} ELSE NamesIn(store[b])
  BY <1>5, <1>7, Listing
<1>9. CASE b = 0
  <2>1. g.data = ZeroBlock
    BY <1>1, <1>9 DEF ListTo, ServedAt
  <2>2. NamesIn(ZeroBlock) = {}
    BY DEF NamesIn, ZeroBlock, NoEntry
  <2> QED
    BY <1>8, <1>9, <2>1, <2>2
<1>10. CASE b # 0
  <2>1. Downloaded(b, g.data)
    BY <1>10 DEF ListTo
  <2>2. g.data = store[b]
    BY <1>1, <1>2, <1>4, <1>10, <2>1, LiveDownload
  <2> QED
    BY <1>8, <1>10, <2>2
<1> QED
  BY <1>9, <1>10

\* The tree stays as it is.
Steady == TreeOf(meta'.view, store') = TreeOf(meta.view, store)

\* A thread that goes on with the same call, short of its answer.
LEMMA CalmMapped ==
  ASSUME Serial, TypeOK, Steady, NEW t \in Thread, pc[t] # "done",
         NEW k, k # "done", NEW g, Goto(t, k, g), Talks(frame[t], g)
  PROVE  Refined
<1>1. pc'[t] = k /\ frame'[t] = g
  BY SerialThread
<1>2. AskedBy(frame'[t]) = AskedBy(frame[t])
  BY <1>1 DEF AskedBy, Asked, Talks
<1> QED
  BY <1>1, <1>2, StutterMapped DEF Refined, Steady

LEMMA MapsNext ==
  ASSUME NEW t \in Thread,
         \/ Tree!RefuseTwice(t) \/ Tree!RefuseOrphan(t) \/ Tree!NotThere(t)
         \/ Tree!Look(t) \/ Tree!Answer(t)
         \/ \E kind \in {"dir", "file"} : Tree!Make(t, kind)
         \/ \E c \in Calls : Tree!Request(t, c)
  PROVE  Refined
  BY DEF Refined, Tree!Next

\* A path that find_inode did not find is not in the tree.
LEMMA FoundNothing ==
  ASSUME CoreInv, LifeInv, up = "mounted", NEW t \in Thread, At(t, "resolved"), ~frame[t].found
  PROVE  Target(frame[t]) \notin DOMAIN TreeOf(meta.view, store)
<1>1. WalkAt(pc[t], frame[t], strtok, meta, store)
  BY DEF CoreInv, FindInv, WalkInv, LifeInv
<1>2. End(meta.view, store, Target(frame[t])) = {}
  BY <1>1 DEF WalkAt, At, Answered, End
<1> QED
  BY <1>2, TreeDomain

\* The operations after find_inode: an answer, or the next part of the call.
LEMMA ResolvedMapped ==
  ASSUME Serial, Ordinary, CoreInv, TreeInv, Steady, up = "mounted",
         NEW t \in Thread, resolved(t), Step(t)
  PROVE  Refined
<1> DEFINE f == frame[t]
<1>1. PICK k, g : Goto(t, k, g) /\ ResolvedTo(f, k, g)
  BY ResolvedGoes DEF CoreInv, Context
<1>2. /\ pc[t] = "resolved" /\ At(t, "resolved") /\ LifeInv /\ ServedInv /\ TypeOK
      /\ ServedAt(pc[t], f)
  BY DEF resolved, At, TreeInv, ServedInv, CoreInv, Context
<1>3. /\ Serves(f) /\ f.path \in Paths /\ f.path \in Seq(Name)
      /\ f.op \in Tree!Looks \cup {"mkdir", "create"}
      /\ f.op \in {"mkdir", "create"} <=> f.op \in Mutators
  BY <1>2, Asks
<1>4. Talks(f, g) /\ g.data = ZeroBlock
  BY <1>1, <1>2 DEF ResolvedTo, ServedAt
<1>5. CASE k # "done"
  BY <1>1, <1>2, <1>4, <1>5, CalmMapped
<1>6. CASE k = "done" /\ ~f.found
  <2>1. Refuses(t, g, "ENOENT")
    BY <1>1, <1>2, <1>3, <1>4, <1>6 DEF Refuses, ResolvedTo, Steady
  <2>2. Target(f) \notin DOMAIN TreeOf(meta.view, store)
    BY <1>2, <1>6, FoundNothing
  <2>3. CASE f.op \in {"mkdir", "create"}
    <3>1. Front(f.path) \notin DOMAIN TreeOf(meta.view, store)
      BY <1>3, <2>2, <2>3 DEF Target
    <3> QED
      BY <1>2, <2>1, <2>3, <3>1, OrphanMapped, MapsNext
  <2>4. CASE f.op \notin {"mkdir", "create"}
    <3>1. f.path \notin DOMAIN TreeOf(meta.view, store) /\ f.op \in Tree!Looks
      BY <1>3, <2>2, <2>4 DEF Target
    <3> QED
      BY <1>2, <2>1, <3>1, NotThereMapped, MapsNext
  <2> QED
    BY <2>3, <2>4
<1>7. CASE k = "done" /\ f.found
  <2>1. f.op \in {"getattr", "open"} /\ g.ret = "ok" /\ g.node = f.node
    BY <1>1, <1>7 DEF ResolvedTo
  <2>2. f.op \notin Mutators /\ f.op \in Tree!Looks /\ f.op # "readdir"
    BY <2>1 DEF Mutators, Tree!Looks
  <2>3. End(meta.view, store, f.path) = {f.node.i_inode_no}
    BY <1>2, <1>7, <2>2, ResolvedPath DEF Target
  <2>4. /\ f.path \in DOMAIN TreeOf(meta.view, store)
        /\ TreeOf(meta.view, store)[f.path] = f.node.i_mode
    BY <1>2, <1>3, <2>3, NodeThere
  <2>5. Saw(t, g)
    BY <1>1, <1>2, <1>3, <1>4, <1>7, <2>1, <2>2, <2>4 DEF Saw, Steady
  <2> QED
    BY <1>2, <2>2, <2>5, LookMapped, MapsNext
<1> QED
  BY <1>5, <1>6, <1>7

\* readdir and read answer when the block is downloaded.
LEMMA ListMapped ==
  ASSUME Serial, Ordinary, CoreInv, TreeInv, Steady, faults' = 0, up = "mounted",
         NEW t \in Thread, list(t), Step(t), ~Die
  PROVE  Refined
<1> DEFINE f == frame[t]
<1>1. PICK g : Goto(t, "done", g) /\ ListTo(f, g)
  BY ListGoes DEF CoreInv, Context
<1>2. /\ pc[t] = "list" /\ At(t, "list") /\ LifeInv /\ ServedInv /\ TypeOK
      /\ ServedAt(pc[t], f) /\ PathAt(pc[t], f, meta.view, store)
  BY DEF list, At, TreeInv, ServedInv, PathInv, CoreInv, Context
<1>3. /\ Serves(f) /\ f.path \in Paths /\ f.path \in Seq(Name)
      /\ f.op \in Tree!Looks
  BY <1>2, Asks DEF ServedAt, Tree!Looks
<1>4. End(meta.view, store, f.path) = {f.node.i_inode_no}
  BY <1>2 DEF PathAt
<1>5. /\ f.path \in DOMAIN TreeOf(meta.view, store)
      /\ TreeOf(meta.view, store)[f.path] = f.node.i_mode
  BY <1>2, <1>3, <1>4, NodeThere
<1>6. NamesIn(g.data) = ChildrenOf(f.path)
  BY <1>1, <1>3, <1>4, Lists
<1>7. Saw(t, g)
  BY <1>1, <1>2, <1>3, <1>5, <1>6 DEF Saw, ListTo, Steady
<1> QED
  BY <1>2, <1>3, <1>7, LookMapped, MapsNext

\* utimens answers when its inode is written.
LEMMA TimesMapped ==
  ASSUME Serial, Ordinary, CoreInv, TreeInv, Steady, up = "mounted",
         NEW t \in Thread, write_inode(t), Step(t), frame[t].ra = "done"
  PROVE  Refined
<1> DEFINE f == frame[t]
<1>1. Goto(t, "done", f)
  BY DEF write_inode
<1>2. /\ pc[t] = "write_inode" /\ WritesInode(pc[t]) /\ LifeInv /\ ServedInv /\ TypeOK
      /\ ServedAt(pc[t], f) /\ PathAt(pc[t], f, meta.view, store)
  BY DEF write_inode, At, WritesInode, TreeInv, ServedInv, PathInv, CoreInv, Context
<1>3. /\ Serves(f) /\ f.path \in Paths /\ f.path \in Seq(Name)
      /\ f.op = "utimens" /\ f.ret = "ok" /\ f.op \in Tree!Looks
  BY <1>2, Asks DEF ServedAt, Tree!Looks
<1>4. End(meta.view, store, f.path) = {f.node.i_inode_no}
  BY <1>2 DEF PathAt
<1>5. /\ f.path \in DOMAIN TreeOf(meta.view, store)
      /\ TreeOf(meta.view, store)[f.path] = f.node.i_mode
  BY <1>2, <1>3, <1>4, NodeThere
<1>6. Saw(t, f)
  BY <1>1, <1>2, <1>3, <1>5 DEF Saw, Talks, Steady
<1> QED
  BY <1>2, <1>3, <1>6, LookMapped, MapsNext

\* mkdir and create refuse a name that is taken.
LEMMA NamedMapped ==
  ASSUME Serial, Ordinary, CoreInv, TreeInv, Steady, up = "mounted",
         NEW t \in Thread, named(t), Step(t)
  PROVE  Refined
<1> DEFINE f == frame[t]
           b == f.base.i_block
           n == f.base.i_inode_no
           x == Last(f.path)
<1>1. PICK k, g : Goto(t, k, g) /\ NamedTo(f, k, g)
  BY NamedGoes DEF CoreInv, Context
<1>2. /\ pc[t] = "named" /\ LifeInv /\ ServedInv /\ TypeOK /\ PathAt(pc[t], f, meta.view, store)
      /\ f \in Frame /\ faults = 0
  BY ThreadFrame DEF named, At, TreeInv, PathInv, CoreInv, Context, LifeInv
<1>3. /\ Serves(f) /\ f.path \in Paths /\ f.path \in Seq(Name)
      /\ f.op \in Tree!Looks \cup {"mkdir", "create"}
      /\ f.op \in {"mkdir", "create"} => f.path # <<>>
  BY <1>2, Asks
<1>4. Talks(f, g)
  BY <1>1 DEF NamedTo
<1>5. CASE k # "done"
  BY <1>1, <1>2, <1>4, <1>5, CalmMapped
<1>6. CASE k = "done"
  <2>1. f.op # "rmdir"
    BY <1>3 DEF Tree!Looks
  <2>2. f.found /\ f.op \in {"mkdir", "create"} /\ g.ret = "EEXIST"
    BY <1>1, <1>6, <2>1 DEF NamedTo
  <2>3. Refuses(t, g, "EEXIST")
    BY <1>1, <1>2, <1>3, <1>4, <1>6, <2>2 DEF Refuses, Talks, Steady
  <2>4. /\ End(meta.view, store, Front(f.path)) = {n} /\ b # 0
        /\ Matches(store[b], x) # {}
    BY <1>2, <2>2 DEF PathAt, Naming
  <2>5. Live /\ Exact
    <3>1. ~FrozenAt(pc[t], f)
      BY <1>2 DEF FrozenAt, WritesInode
    <3> QED
      BY <3>1, LivePhases, <1>2
  <2>6. ~Creating(pc[t], f)
    BY <1>2 DEF Creating, Saved, Numbered, Advanced, WritesInode, WritesSuper
  <2>7. b \in DOMAIN store
    <3>1. EntriesAt(pc[t], f, superblock, store, block)
      BY <2>5 DEF CoreInv, EntriesInv, BlocksInv
    <3> QED
      BY <2>4, <3>1 DEF EntriesAt, HasBlock
  <2>8. Agree(f.base, meta.view)
    BY <2>5 DEF CoreInv, DirsInv, MakingInv, MakingAt, KnownAt, Known
  <2>9. n \in Nat
    BY <1>2 DEF Frame, Inode
  <2>10. InodeAt(meta.view, n).i_block = b
    BY <2>8, <2>9, InodeAtView DEF Agree, CoreInv, Context
  <2>11. PICK i \in Slot : First(Matches(store[b], x), i)
    <3>1. Matches(store[b], x) \in SUBSET Slot
      BY DEF Matches
    <3> QED
      BY <2>4, <3>1, FirstExists
  <2>12. ChildIn(meta.view, store, n, x) = {store[b][i].inode}
    BY <2>4, <2>7, <2>10, <2>11, ChildFound
  <2> DEFINE p0 == Front(f.path)
             path == f.path
             file == meta.view
             st == store
  <2>13. p0 \in Seq(Name) /\ x \in Name /\ path = Append(p0, x) /\ path \in Paths
    BY <1>3, <2>2, FrontLast
  <2>14. /\ End(file, st, p0) = {n}
         /\ ChildIn(file, st, n, x) # {}
    BY <2>4, <2>12
  <2> HIDE DEF p0, path, file, st, n, x
  <2>15. End(file, st, Append(p0, x)) = ChildIn(file, st, n, x)
    BY <2>13, <2>14, EndOnward
  <2>16. path \in DOMAIN TreeOf(file, st)
    <3>1. End(file, st, path) # {}
      BY <2>13, <2>14, <2>15
    <3> QED
      BY <2>13, <3>1, TreeDomain
  <2> USE DEF path, file, st
  <2> QED
    BY <1>2, <2>2, <2>3, <2>16, TwiceMapped, MapsNext
<1> QED
  BY <1>5, <1>6

\* Nothing of a new inode is seen before the link.
LEMMA MakesMapped ==
  ASSUME Serial, CoreInv, Steady, up = "mounted", NEW t \in Thread, Step(t), ~Die,
         Creating(pc[t], frame[t]), ~At(t, "link")
  PROVE  Refined
<1> DEFINE f == frame[t]
           l == pc[t]
<1>1. RouteAt(l, f) /\ TypeOK /\ l \in Labels /\ f \in Frame /\ l # "link" /\ f.op # "init"
  BY ThreadFrame DEF CoreInv, Context, PlacedInv, At, NumbersInv, PhaseInv
<1>2. PICK k, g : Goto(t, k, g) /\ Makes(l, f, k, g)
  BY <1>1, MakeFrame
<1>3. Creating(k, g)
  BY <1>1, <1>2, MakesShape
<1>4. \A h : ~Creating("done", h)
  BY DEF Creating, Saved, Numbered, Advanced, WritesInode, WritesSuper
<1>5. l # "done" /\ k # "done"
  BY <1>3, <1>4
<1>6. Talks(f, g)
  BY <1>2 DEF Makes, Talks
<1> QED
  BY <1>1, <1>2, <1>5, <1>6, CalmMapped

\* Every step of a call that looks.
LEMMA LooksMapped ==
  ASSUME Serial, Ordinary, CoreInv, TreeInv, Steady, faults' = 0, up = "mounted",
         NEW t \in Thread, Step(t), ~Die, ~Creating(pc[t], frame[t])
  PROVE  Refined
<1> DEFINE f == frame[t]
<1>1. ServedAt(pc[t], f) /\ RouteAt(pc[t], f) /\ TypeOK
  BY DEF TreeInv, ServedInv, CoreInv, Context, PlacedInv
<1>2. ASSUME NEW k, k # "done", NEW g, Goto(t, k, g), Talks(f, g), pc[t] # "done" PROVE Refined
  BY <1>1, <1>2, CalmMapped
<1>3. CASE find_inode(t)
  <2>1. PICK k, g : Goto(t, k, g) /\ FindTo(f, k, g)
    BY <1>1, <1>3, FindGoes
  <2> QED
    BY <1>2, <1>3, <2>1 DEF FindTo, find_inode, At
<1>4. CASE lookup(t)
  <2>1. PICK k, g : Goto(t, k, g) /\ LookupTo(f, k, g)
    BY <1>1, <1>4, LookupGoes
  <2>2. pc[t] = "lookup" /\ f.ra \in {"walk", "named"}
    BY <1>1, <1>4 DEF lookup, At, RouteAt
  <2> QED
    BY <1>2, <2>1, <2>2 DEF LookupTo, Carried
<1>5. CASE get_inode(t)
  BY <1>2, <1>5 DEF get_inode, At, Talks
<1>6. CASE read_inode(t)
  <2>1. PICK g : Goto(t, f.ra, g) /\ Carried(f, g) /\ g.found
    BY <1>1, <1>6, ReadGoes
  <2>2. pc[t] = "read_inode" /\ f.ra \in {"walk", "named"}
    BY <1>1, <1>6 DEF read_inode, At, RouteAt
  <2> QED
    BY <1>2, <2>1, <2>2 DEF Carried
<1>7. CASE walk(t)
  <2>1. PICK k, g : Goto(t, k, g) /\ WalkTo(f, k, g)
    BY <1>1, <1>7, WalkGoes
  <2> QED
    BY <1>2, <1>7, <2>1 DEF WalkTo, walk, At
<1>8. CASE resolved(t)
  BY <1>8, ResolvedMapped
<1>9. CASE list(t)
  BY <1>9, ListMapped
<1>10. CASE named(t)
  BY <1>10, NamedMapped
<1>11. CASE done(t)
  <2>1. Goto(t, "idle", Idle) /\ pc[t] = "done"
    BY <1>11 DEF done, At
  <2>2. pc'[t] = "idle" /\ frame'[t] = Idle
    BY <1>1, <2>1, SerialThread
  <2>3. f.ret # "none"
    BY <1>1, <2>1 DEF ServedAt
  <2> QED
    BY <2>1, <2>2, <2>3, AnswerMapped, MapsNext DEF Steady
<1>12. CASE update_inode(t)
  BY <1>2, <1>12 DEF update_inode, At, Talks
<1>13. CASE write_inode(t) /\ f.ra # "inode_written" /\ f.ra # "dir_written"
  <2>1. f.ra = "done"
    BY <1>1, <1>13 DEF write_inode, At, RouteAt
  <2> QED
    BY <1>13, <2>1, TimesMapped
<1>14. ~(update_superblock(t) /\ f.ra \notin {"slot", "dir_block", "dir_free"})
       /\ ~(write_superblock(t) /\ f.ra \notin {"slot", "dir_block", "dir_free"})
  BY <1>1 DEF update_superblock, write_superblock, At, RouteAt
<1> QED
  BY CalmSteps, <1>3, <1>4, <1>5, <1>6, <1>7, <1>8, <1>9, <1>10, <1>11, <1>12, <1>13, <1>14

\* The link, which no transfer can fail.
LEMMA LinkMapped ==
  ASSUME Serial, Ordinary, CoreInv, TreeInv, LifeInv', up = "mounted",
         NEW t \in Thread, Step(t), ~Die, At(t, "link")
  PROVE  Refined
<1>1. link(t)
  BY DEF Step, find_inode, lookup, get_inode, read_inode, walk, resolved, list, named,
     update_inode, write_inode, update_superblock, write_superblock, inode_written,
     bump_inode, dir_block, dir_put, dir_iblock, dir_written, bump_block, dir_free, slot, done, At
<1>2. TypeOK /\ LifeInv /\ ServedInv /\ PathInv /\ faults = 0 /\ pc[t] = "link"
  BY DEF CoreInv, Context, TreeInv, LifeInv, At
<1>3. PICK g : Goto(t, "done", g) /\ Talks(frame[t], g)
                /\ (g.ret = "ok" \/ (faults < MaxFault /\ g.ret = "driver"))
  BY <1>1, <1>2, LinkGoes
<1>4. g.ret = "ok"
  BY <1>2, <1>3 DEF Ordinary
<1>5. LiveTree
  BY <1>2, PutExact DEF LiveTree, TreeInv
<1>6. LinkedTo(frame[t])
  BY <1>2, <1>5, LinkStep
<1>7. Serves(frame[t])
  BY <1>2, Asks
<1> QED
  BY <1>2, <1>3, <1>4, <1>6, <1>7, MakeMapped, MapsNext

\* Every step of a process that is mounted.
LEMMA UpMapped ==
  ASSUME Serial, Ordinary, CoreInv, CoreInv', TreeInv, TreeInv', up = "mounted",
         NEW t \in Thread, Step(t), ~Die
  PROVE  Refined
<1>1. LifeInv /\ LifeInv' /\ TidyInv /\ faults' = 0
  BY DEF TreeInv, LifeInv
<1>2. CASE At(t, "link")
  BY <1>1, <1>2, LinkMapped
<1>3. CASE ~At(t, "link")
  <2>1. Steady
    BY <1>1, <1>3, StepTree DEF Steady
  <2> QED
    BY <1>1, <1>3, <2>1, LooksMapped, MakesMapped
<1> QED
  BY <1>2, <1>3

\* While the file system is formatted there is nothing but the root.
LEMMA InitMapped ==
  ASSUME Serial, CoreInv, CoreInv', TreeInv, TreeInv', up = "init",
         NEW t \in Thread, Step(t), ~Die
  PROVE  Refined
<1>1. LifeInv /\ TidyInv /\ TidyInv' /\ TypeOK /\ TypeOK'
  BY DEF TreeInv, CoreInv, Context
<1>2. frame[t].op = "init"
  BY DEF CoreInv, Context, NumbersInv, PhaseInv
<1>3. AskedBy(frame[t]) = Tree!NoCall
  BY <1>2 DEF AskedBy, Tree!NoCall
<1>0. \A h : ~Creating("done", h)
  BY DEF Creating, Saved, Numbered, Advanced, WritesInode, WritesSuper
<1>4. pc[t] # "done"
  <2>1. InitAt(pc[t], frame[t], meta, superblock)
    BY DEF CoreInv, Context, NumbersInv, InitInv
  <2> QED
    BY <1>0, <2>1 DEF InitAt
<1>5. CASE up' = "init"
  <2>1. Steady
    BY <1>1, <1>5, BareNodes, BareNodesNext DEF Steady
  <2>2. frame'[t].op = "init"
    BY <1>5 DEF CoreInv, Context, NumbersInv, PhaseInv
  <2>3. AskedBy(frame'[t]) = AskedBy(frame[t])
    BY <1>2, <2>2 DEF AskedBy
  <2>4. pc'[t] # "done"
    <3>1. InitAt(pc'[t], frame'[t], meta', superblock')
      BY <1>5 DEF CoreInv, Context, NumbersInv, InitInv
    <3> QED
      BY <1>0, <3>1 DEF InitAt
  <2> QED
    BY <1>4, <2>1, <2>3, <2>4, StutterMapped DEF Refined, Steady
<1>6. CASE UNCHANGED <<meta, store>> /\ Goto(t, "idle", Idle)
  <2>1. Steady
    BY <1>6 DEF Steady
  <2>2. pc'[t] = "idle" /\ frame'[t] = Idle
    BY <1>1, <1>6, SerialThread
  <2>3. AskedBy(frame'[t]) = AskedBy(frame[t])
    BY <1>3, <2>2, IdleMapped
  <2> QED
    BY <1>4, <2>1, <2>2, <2>3, StutterMapped DEF Refined, Steady
<1> QED
  BY <1>1, <1>5, <1>6, InitStep

(***************************************************************************)
(* The theorem                                                             *)
(***************************************************************************)
LEMMA DieMapped ==
  ASSUME CoreInv, TreeInv, Die
  PROVE  Refined
<1>1. \A u \in Thread : pc'[u] = "idle" /\ frame'[u] = Idle
  BY DEF Die, Down
<1>2. LifeInv /\ TidyInv /\ SavedInv
  BY DEF TreeInv
<1>3. TreeOf(meta'.view, store') = TreeOf(meta.view, store)
  <2>1. CASE up = "init"
    <3>1. DOMAIN store' \subseteq DOMAIN store /\ \A b \in DOMAIN store' : store'[b] = store[b]
      BY DEF Die
    <3>2. \A b \in DOMAIN store \ {0} : NoFar(store[b]) /\ Numbers(store[b]) = {}
      BY <1>2, <2>1 DEF TidyInv, Tidy, CoreInv, Context, NumbersInv, EmptyInv, AllNumbers
    <3>3. \A b \in DOMAIN store' \ {0} : NoFar(store'[b]) /\ Numbers(store'[b]) = {}
      BY <3>1, <3>2
    <3>4. \A n : \A x \in Name : ChildIn(meta'.view, store', n, x) = {}
      BY <3>3, NoChildren
    <3>5. TreeOf(meta'.view, store') = [p \in {<<>>} |-> "dir"]
      BY <3>4, BareTree
    <3> QED
      BY <1>2, <2>1, <3>5, BareNodes
  <2>2. CASE up # "init"
    BY <1>2, <2>2, DieTree
  <2> QED
    BY <2>1, <2>2
<1>4. Tree!Stop
  BY <1>1, <1>3, StopMapped
<1> QED
  BY <1>4 DEF Refined, Tree!Next

LEMMA UnmountMapped ==
  ASSUME Ordinary, CoreInv, TreeInv, Unmount \/ Crash
  PROVE  Refined
<1>1. Unmount /\ up = "mounted"
  BY DEF Ordinary, Crash, Unmount
<1>2. CASE Die
  BY <1>2, DieMapped
<1>3. CASE ~Die
  <2>1. Down(Closed(meta)) /\ UNCHANGED store
    BY <1>1, <1>3 DEF Unmount
  <2>2. meta'.view = meta.view /\ \A u \in Thread : pc'[u] = "idle" /\ frame'[u] = Idle
    BY <2>1 DEF Down, Closed, Opened
  <2>3. Tree!Stop
    BY <2>1, <2>2, StopMapped
  <2> QED
    BY <2>3 DEF Refined, Tree!Next
<1> QED
  BY <1>2, <1>3

\* A mount finds the tree the last process left.
LEMMA MountMapped ==
  ASSUME Serial, CoreInv, CoreInv', TreeInv, NEW t \in Thread, Mount(t)
  PROVE  Refined
<1>1. /\ up = "unmounted" /\ UNCHANGED store /\ meta.view = meta.disk
      /\ \A u \in Thread : pc[u] = "idle"
      /\ Context
  BY MountFrame DEF CoreInv
<1>2. frame[t] = Idle
  BY <1>1 DEF Context, NumbersInv, PhaseInv
<1>3. AskedBy(Idle) = Tree!NoCall
  BY IdleMapped
<1>4. CASE meta.disk = Empty
  <2>1. /\ up' = "init" /\ pc' = [pc EXCEPT ![t] = "update_inode"] /\ UNCHANGED meta
    BY <1>4 DEF Mount, Goto
  <2>2. frame'[t].op = "init"
    BY <2>1 DEF CoreInv, Context, NumbersInv, PhaseInv
  <2>3. AskedBy(frame'[t]) = AskedBy(frame[t])
    BY <1>2, <1>3, <2>2 DEF AskedBy, Tree!NoCall
  <2>4. pc'[t] # "done" /\ pc[t] # "done"
    BY <1>1, <2>1 DEF Context, TypeOK
  <2> QED
    BY <1>1, <2>1, <2>3, <2>4, StutterMapped DEF Refined
<1>5. CASE meta.disk # Empty
  <2>1. meta' = AfterRead(Seek(meta, InodePos(1))) /\ UNCHANGED <<pc, frame>>
    BY <1>5 DEF Mount
  <2>2. meta'.view = meta.view
    BY <2>1 DEF AfterRead, Seek
  <2> QED
    BY <1>1, <2>1, <2>2, StutterMapped DEF Refined
<1> QED
  BY <1>4, <1>5

LEMMA CallMapped ==
  ASSUME Serial, Ordinary, CoreInv, TreeInv, NEW t \in Thread, NEW c \in Calls, Call(t, c)
  PROVE  Refined
<1>1. CASE Die
  BY <1>1, DieMapped
<1>2. CASE ~Die
  <2>1. UNCHANGED <<meta, store>> /\ pc[t] = "idle" /\ Context
    BY <1>2, CallFrame DEF CoreInv, At
  <2>2. c.op # "unlink" /\ c.op # "write" /\ c.op \in Mutators \cup Readers
    BY <1>2, CallsAssumption DEF Call, Ordinary
  <2> DEFINE g == [Idle EXCEPT !.op = c.op, !.path = c.path]
  <2>3. Goto(t, "find", g)
    BY <2>2 DEF Call
  <2>4. g.op = c.op /\ g.path = c.path
    BY DEF Idle
  <2>5. c = [op |-> c.op, path |-> c.path]
    BY CallsAssumption
  <2> HIDE DEF g
  <2>6. pc'[t] = "find" /\ frame'[t] = g
    BY <2>1, <2>3, SerialThread DEF Context
  <2>7. AskedBy(frame'[t]) = c
    BY <2>2, <2>4, <2>5, <2>6 DEF AskedBy, Asked, Mutators, Readers
  <2>8. frame[t].op = "none"
    BY <2>1 DEF Context, NumbersInv, PhaseInv, Idle
  <2>9. Tree!Request(t, c)
    BY <2>1, <2>6, <2>7, <2>8, RequestMapped
  <2> QED
    BY <2>9, MapsNext
<1> QED
  BY <1>1, <1>2

\* Every step of the program is a step of DirTree, or none.
LEMMA NextMapped ==
  ASSUME Serial, Ordinary, CoreInv, CoreInv', TreeInv, TreeInv', [Next]_vars
  PROVE  Refined
<1>1. ASSUME NEW t \in Thread, Step(t), ~Die PROVE Refined
  <2>1. CASE up = "init"
    BY <1>1, <2>1, InitMapped
  <2>2. CASE up # "init"
    <3>1. up = "mounted"
      BY <1>1, <2>2, StepUp DEF CoreInv, Context, TypeOK
    <3> QED
      BY <1>1, <3>1, UpMapped
  <2> QED
    BY <2>1, <2>2
<1>2. CASE Die
  BY <1>2, DieMapped
<1>3. ASSUME NEW t \in Thread, Mount(t) PROVE Refined
  BY <1>3, MountMapped
<1>4. ASSUME NEW t \in Thread, NEW c \in Calls, Call(t, c) PROVE Refined
  BY <1>4, CallMapped
<1>5. CASE Unmount \/ Crash
  BY <1>5, UnmountMapped
<1>6. CASE UNCHANGED vars
  <2>1. AskedAll(frame') = AskedAll(frame) /\ ToldAll(pc', frame') = ToldAll(pc, frame)
        /\ TreeOf(meta'.view, store') = TreeOf(meta.view, store)
    BY <1>6 DEF vars
  <2> QED
    BY <2>1, SeesStutter DEF Refined
<1> QED
  BY <1>1, <1>2, <1>3, <1>4, <1>5, <1>6 DEF Next

\* At first there is the root alone.
LEMMA InitMaps == Init => Tree!Init
<1> SUFFICES ASSUME Init PROVE Tree!Init
  OBVIOUS
<1>1. CoreInv /\ TreeInv
  BY InitContext, InitRecorded, InitEntries, InitDirs, InitFind, InitTreeInv DEF CoreInv
<1>2. Nodes = [p \in {<<>>} |-> "dir"]
  <2>1. DOMAIN store = {} /\ TidyInv
    BY <1>1 DEF Init, TreeInv
  <2> QED
    BY <1>1, <2>1, BareNodes, NodesTree
<1>3. CallsNow = [t \in Thread |-> Tree!NoCall]
  BY CallsMapped, IdleMapped DEF AskedAll, Init
<1>4. ToldNow = [t \in Thread |-> Tree!NoAnswer]
  BY ToldMapped, IdleMapped DEF ToldAll, Init
<1> QED
  BY <1>2, <1>3, <1>4 DEF Tree!Init, CallsNow, ToldNow

\* mkdir, create, getattr, readdir, open, read and utimens: with one thread, while no
\* transfer fails and no signal kills the process, and as long as a block has room for
\* all names of a directory, every behaviour of the program is one of DirTree.  A call
\* takes effect at one moment between its request and its answer, what it answers is
\* what the tree was at that moment, and the tree outlives the process, whether it
\* unmounts, dies of unlink, or finds its buffer freed or its mapping file not open.
THEOREM SerialTree == Serial /\ Ordinary /\ Spec => ImplementsDirTree
<1> SUFFICES ASSUME Serial, Ordinary PROVE Spec => ImplementsDirTree
  OBVIOUS
<1> DEFINE Inv == CoreInv /\ TreeInv
<1>1. Init => Inv
  BY InitContext, InitRecorded, InitEntries, InitDirs, InitFind, InitTreeInv DEF CoreInv
<1>2. Inv /\ [Next]_vars => Inv'
  <2> SUFFICES ASSUME CoreInv, TreeInv, [Next]_vars PROVE CoreInv' /\ TreeInv'
    OBVIOUS
  <2>1. CoreInv'
    BY NextCore
  <2> QED
    BY <2>1, NextTree
<1>3. Inv /\ Inv' /\ [Next]_vars => [Tree!Next]_(Tree!vars)
  BY NextMapped DEF Refined
<1>4. Init => Tree!Init
  BY InitMaps
<1> HIDE DEF Inv
<1> QED
  BY <1>1, <1>2, <1>3, <1>4, PTL DEF Spec, ImplementsDirTree, Tree!Spec
=============================================================================
