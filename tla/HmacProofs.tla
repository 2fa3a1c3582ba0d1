----------------------------- MODULE HmacProofs -----------------------------
(***************************************************************************)
(* The MAC of hmac_sha2.c is that of the standard, and a context loses     *)
(* nothing, for keys and messages of any length, in any pieces, over any   *)
(* number of uses of a context.                                            *)
(***************************************************************************)
EXTENDS HmacSha2, SequenceTheorems, WellFoundedInduction, TLAPS

(***************************************************************************)
(* Numbers                                                                 *)
(***************************************************************************)
\* A product, for the provers an operator of which they know the facts below.
Times(n, B) == n * B

LEMMA TimesLe ==
  ASSUME NEW i \in Nat, NEW n \in Nat, NEW B \in Nat, i <= n
  PROVE  Times(i, B) <= Times(n, B)
<1>1. PICK d \in Nat : n = i + d
  <2>1. n - i \in Nat /\ n = i + (n - i)
    OBVIOUS
  <2> QED
    BY <2>1
<1>2. n * B = i * B + d * B /\ d * B \in Nat /\ i * B \in Nat
  BY <1>1
<1> QED
  BY <1>2 DEF Times

LEMMA TimesNat == ASSUME NEW n \in Nat, NEW B \in Nat PROVE Times(n, B) \in Nat
  BY DEF Times

LEMMA TimesAdd ==
  ASSUME NEW n \in Nat, NEW k \in Nat, NEW B \in Nat
  PROVE  Times(n + k, B) = Times(n, B) + Times(k, B)
  BY DEF Times

LEMMA TimesFew ==
  ASSUME NEW B \in Nat
  PROVE  Times(0, B) = 0 /\ Times(1, B) = B /\ Times(2, B) = B + B
  BY DEF Times

LEMMA TimesPred ==
  ASSUME NEW i \in Nat \ {0}, NEW B \in Nat
  PROVE  Times(i - 1, B) = Times(i, B) - B /\ Times(i - 1, B) \in Nat /\ Times(i, B) \in Nat
<1>1. PICK d \in Nat : i = d + 1
  <2>1. i - 1 \in Nat /\ i = (i - 1) + 1
    OBVIOUS
  <2> QED
    BY <2>1
<1>2. /\ Times(i, B) = Times(d, B) + Times(1, B) /\ Times(d, B) \in Nat
      /\ Times(1, B) = B /\ i - 1 = d
  BY <1>1, TimesNat, TimesAdd, TimesFew
<1> QED
  BY <1>2

LEMMA DivFacts ==
  ASSUME NEW n \in Nat, NEW B \in Nat \ {0}
  PROVE  /\ n \div B \in Nat /\ Times(n \div B, B) \in Nat
         /\ Times(n \div B, B) <= n /\ n < Times(n \div B, B) + B
  BY DEF Times

LEMMA DivUnique ==
  ASSUME NEW q \in Nat, NEW r \in Nat, NEW B \in Nat \ {0}, r < B
  PROVE  (Times(q, B) + r) \div B = q
<1> DEFINE d == (Times(q, B) + r) \div B
<1>1. Times(q, B) \in Nat /\ Times(q, B) + r \in Nat
  BY TimesNat
<1>2. d \in Nat /\ Times(d, B) \in Nat /\ Times(d, B) <= Times(q, B) + r
      /\ Times(q, B) + r < Times(d, B) + B
  BY <1>1, DivFacts
<1> HIDE DEF d
<1>3. Times(d + 1, B) = Times(d, B) + B /\ Times(q + 1, B) = Times(q, B) + B
  BY <1>2, TimesNat, TimesAdd, TimesFew
<1>4. CASE d < q
  <2>1. Times(d + 1, B) <= Times(q, B)
    BY <1>2, <1>4, TimesLe
  <2> QED
    BY <1>1, <1>2, <1>3, <2>1
<1>5. CASE q < d
  <2>1. Times(q + 1, B) <= Times(d, B)
    BY <1>2, <1>5, TimesLe
  <2> QED
    BY <1>1, <1>2, <1>3, <2>1
<1> QED
  BY <1>2, <1>4, <1>5 DEF d

LEMMA Slice ==
  ASSUME NEW B \in Nat, NEW x \in Nat, NEW y \in Nat, x = y - B
  PROVE  x + 1 \in Nat \ {0} /\ x + 1 <= y + 1 /\ y - (x + 1) + 1 = B
  OBVIOUS

LEMMA MinTwo ==
  ASSUME NEW a \in Nat, NEW b \in Nat
  PROVE  Min({a, b}) = IF a <= b THEN a ELSE b
  BY DEF Min

(***************************************************************************)
(* Sequences                                                               *)
(***************************************************************************)
LEMMA FunSeq ==
  ASSUME NEW S, NEW n \in Nat, NEW f \in [1 .. n -> S]
  PROVE  f \in Seq(S) /\ Len(f) = n
  OBVIOUS

LEMMA PutSeq ==
  ASSUME NEW S, NEW s \in Seq(S), NEW t \in Seq(S), NEW at \in Nat \ {0}
  PROVE  LET p == Put(s, at, t)
         IN  /\ p \in Seq(S) /\ Len(p) = Len(s)
             /\ \A i \in 1 .. Len(s) :
                  p[i] = IF at <= i /\ i < at + Len(t) THEN t[i - at + 1] ELSE s[i]
<1> DEFINE p == Put(s, at, t)
<1>1. /\ DOMAIN s = 1 .. Len(s) /\ Len(s) \in Nat /\ DOMAIN t = 1 .. Len(t) /\ Len(t) \in Nat
      /\ \A i \in 1 .. Len(s) : s[i] \in S
      /\ \A i \in 1 .. Len(t) : t[i] \in S
  OBVIOUS
<1>2. p = [i \in 1 .. Len(s) |-> IF i - at + 1 \in 1 .. Len(t) THEN t[i - at + 1] ELSE s[i]]
  BY <1>1 DEF Put
<1> HIDE DEF p
<1>3. p \in [1 .. Len(s) -> S]
  BY <1>1, <1>2
<1>4. p \in Seq(S) /\ Len(p) = Len(s)
  BY <1>1, <1>3, FunSeq
<1>5. \A i \in 1 .. Len(s) :
         i - at + 1 \in 1 .. Len(t) <=> at <= i /\ i < at + Len(t)
  BY <1>1
<1> QED
  BY <1>2, <1>4, <1>5 DEF p

\* Bytes a to b of a sequence.
LEMMA SubSeqFacts ==
  ASSUME NEW S, NEW s \in Seq(S), NEW a \in Nat \ {0}, NEW b \in Nat, b <= Len(s), a <= b + 1
  PROVE  LET p == SubSeq(s, a, b)
         IN  /\ p \in Seq(S) /\ Len(p) = b - a + 1
             /\ \A i \in 1 .. b - a + 1 : p[i] = s[a + i - 1]
<1>1. \A i \in a .. b : s[i] \in S
  <2>1. Len(s) \in Nat /\ \A i \in 1 .. Len(s) : s[i] \in S
    OBVIOUS
  <2> QED
    BY <2>1
<1>2. b < a => b = a - 1
  OBVIOUS
<1> QED
  BY <1>1, <1>2, SubSeqProperties

LEMMA ConcatFacts ==
  ASSUME NEW S, NEW m \in Seq(S), NEW p \in Seq(S)
  PROVE  LET c == m \o p
         IN  /\ c \in Seq(S) /\ Len(c) = Len(m) + Len(p)
             /\ \A i \in 1 .. Len(m) : c[i] = m[i]
             /\ \A k \in 1 .. Len(p) : c[Len(m) + k] = p[k]
<1> DEFINE c == m \o p
<1>1. /\ c \in Seq(S) /\ Len(c) = Len(m) + Len(p)
      /\ \A i \in 1 .. Len(m) + Len(p) : c[i] = IF i <= Len(m) THEN m[i] ELSE p[i - Len(m)]
  BY ConcatProperties
<1>2. Len(m) \in Nat /\ Len(p) \in Nat
  OBVIOUS
<1> HIDE DEF c
<1>3. ASSUME NEW i \in 1 .. Len(m) PROVE c[i] = m[i]
  <2>1. i \in 1 .. Len(m) + Len(p) /\ i <= Len(m)
    BY <1>2
  <2> QED
    BY <1>1, <2>1
<1>4. ASSUME NEW k \in 1 .. Len(p) PROVE c[Len(m) + k] = p[k]
  <2> DEFINE i == Len(m) + k
  <2>1. i \in 1 .. Len(m) + Len(p) /\ ~(i <= Len(m)) /\ i - Len(m) = k
    BY <1>2
  <2> HIDE DEF i
  <2>2. c[i] = p[k]
    BY <1>1, <2>1
  <2> QED
    BY <2>2 DEF i
<1> QED
  BY <1>1, <1>3, <1>4 DEF c

Joined(S, c, m, p) ==
    /\ c \in Seq(S) /\ Len(c) = Len(m) + Len(p)
    /\ \A i \in 1 .. Len(m) : c[i] = m[i]
    /\ \A k \in 1 .. Len(p) : c[Len(m) + k] = p[k]

LEMMA ConcatJoins ==
  ASSUME NEW S, NEW m \in Seq(S), NEW p \in Seq(S)
  PROVE  Joined(S, m \o p, m, p)
  BY ConcatFacts DEF Joined

\* A buffer with bytes put behind the first len.
Behind(s, len, t) == Put(s, len + 1, t)

Room(s, len, t) == len + Len(t) <= Len(s)

Filled(S, p, s, len, t) ==
    /\ p \in Seq(S) /\ Len(p) = Len(s)
    /\ \A j \in 1 .. len : p[j] = s[j]
    /\ \A k \in 1 .. Len(t) : p[len + k] = t[k]

LEMMA PutBehind ==
  ASSUME NEW S, NEW s \in Seq(S), NEW t \in Seq(S), NEW len \in Nat, Room(s, len, t)
  PROVE  Filled(S, Behind(s, len, t), s, len, t)
<1> DEFINE at == len + 1
           p == Put(s, at, t)
<1>1. /\ p \in Seq(S) /\ Len(p) = Len(s)
      /\ \A i \in 1 .. Len(s) :
           p[i] = IF at <= i /\ i < at + Len(t) THEN t[i - at + 1] ELSE s[i]
  <2>1. at \in Nat \ {0}
    OBVIOUS
  <2> QED
    BY <2>1, PutSeq
<1>2. Len(s) \in Nat /\ Len(t) \in Nat /\ len + Len(t) <= Len(s)
  BY DEF Room
<1> HIDE DEF p
<1>3. ASSUME NEW j \in 1 .. len PROVE p[j] = s[j]
  <2>1. j \in 1 .. Len(s) /\ ~(at <= j)
    BY <1>2
  <2> QED
    BY <1>1, <2>1
<1>4. ASSUME NEW k \in 1 .. Len(t) PROVE p[len + k] = t[k]
  <2> DEFINE i == len + k
  <2>1. i \in 1 .. Len(s) /\ at <= i /\ i < at + Len(t) /\ i - at + 1 = k
    BY <1>2
  <2> HIDE DEF i
  <2>2. p[i] = t[k]
    BY <1>1, <2>1
  <2> QED
    BY <2>2 DEF i
<1> QED
  BY <1>1, <1>3, <1>4 DEF p, Behind, Filled

(***************************************************************************)
(* Messages cut into blocks                                                *)
(***************************************************************************)
Sized(v) ==
    /\ v.block \in Nat /\ v.length \in 1 .. v.block - 1 /\ v.digest \in 1 .. v.block
    /\ Uint \in Nat /\ 16 * v.block < Uint

Cut(B, s, n) == [i \in 1 .. n |-> SubSeq(s, Times(i - 1, B) + 1, Times(i, B))]

LEMMA CutSeq ==
  ASSUME NEW B \in Nat \ {0}, NEW S, NEW s \in Seq(S), NEW n \in Nat, Times(n, B) <= Len(s)
  PROVE  /\ Cut(B, s, n) \in Seq(Seq(S)) /\ Len(Cut(B, s, n)) = n
         /\ \A i \in 1 .. n :
              /\ Cut(B, s, n)[i] \in Seq(S) /\ Len(Cut(B, s, n)[i]) = B
              /\ \A j \in 1 .. B : Cut(B, s, n)[i][j] = s[Times(i - 1, B) + j]
<1>1. ASSUME NEW i \in 1 .. n
      PROVE  LET p == SubSeq(s, Times(i - 1, B) + 1, Times(i, B))
             IN  /\ p \in Seq(S) /\ Len(p) = B
                 /\ \A j \in 1 .. B : p[j] = s[Times(i - 1, B) + j]
  <2>1. /\ Times(i - 1, B) = Times(i, B) - B /\ Times(i - 1, B) \in Nat /\ Times(i, B) \in Nat
        /\ Times(i, B) <= Times(n, B)
    <3>1. i \in Nat \ {0} /\ B \in Nat /\ i <= n
      OBVIOUS
    <3> QED
      BY <3>1, TimesPred, TimesLe
  <2>6. Times(n, B) \in Nat /\ Len(s) \in Nat
    BY TimesNat
  <2> DEFINE a == Times(i - 1, B) + 1
             b == Times(i, B)
  <2>2. a \in Nat \ {0} /\ b \in Nat /\ b <= Len(s) /\ a <= b + 1 /\ b - a + 1 = B
    <3>1. \A x, y \in Nat : x = y - B =>
             x + 1 \in Nat \ {0} /\ x + 1 <= y + 1 /\ y - (x + 1) + 1 = B
      BY Slice
    <3>2. Times(i, B) <= Len(s)
      BY <2>1, <2>6
    <3> QED
      BY <2>1, <3>1, <3>2
  <2>3. \A j \in 1 .. B : a + j - 1 = Times(i - 1, B) + j
    BY <2>1
  <2> HIDE DEF a, b
  <2>4. /\ SubSeq(s, a, b) \in Seq(S) /\ Len(SubSeq(s, a, b)) = b - a + 1
        /\ \A j \in 1 .. b - a + 1 : SubSeq(s, a, b)[j] = s[a + j - 1]
    BY <2>2, SubSeqFacts
  <2>5. /\ SubSeq(s, a, b) \in Seq(S) /\ Len(SubSeq(s, a, b)) = B
        /\ \A j \in 1 .. B : SubSeq(s, a, b)[j] = s[Times(i - 1, B) + j]
    BY <2>2, <2>3, <2>4
  <2> QED
    BY <2>5 DEF a, b
<1>2. Cut(B, s, n) \in [1 .. n -> Seq(S)]
  BY <1>1 DEF Cut
<1>3. Cut(B, s, n) \in Seq(Seq(S)) /\ Len(Cut(B, s, n)) = n
  BY <1>2, FunSeq
<1>4. \A i \in 1 .. n : Cut(B, s, n)[i] = SubSeq(s, Times(i - 1, B) + 1, Times(i, B))
  BY DEF Cut
<1> QED
  BY <1>1, <1>3, <1>4

\* The place of a byte of block n + q.
LEMMA Places ==
  ASSUME NEW B \in Nat \ {0}, NEW n \in Nat, NEW k \in Nat, NEW q \in 1 .. k, NEW j \in 1 .. B
  PROVE  /\ Times(q - 1, B) + j \in 1 .. Times(k, B)
         /\ Times((n + q) - 1, B) + j = Times(n, B) + (Times(q - 1, B) + j)
<1>1. /\ Times(q - 1, B) = Times(q, B) - B /\ Times(q - 1, B) \in Nat /\ Times(q, B) \in Nat
      /\ Times(q, B) <= Times(k, B) /\ Times(k, B) \in Nat
  <2>1. q \in Nat \ {0} /\ B \in Nat /\ q <= k
    OBVIOUS
  <2> QED
    BY <2>1, TimesPred, TimesLe, TimesNat
<1>5. Times(n, B) \in Nat
  BY TimesNat
<1>2. q - 1 \in Nat /\ n + (q - 1) = (n + q) - 1
  OBVIOUS
<1>3. Times(n + (q - 1), B) = Times(n, B) + Times(q - 1, B)
  BY <1>2, TimesAdd
<1>4. Times((n + q) - 1, B) = Times(n, B) + Times(q - 1, B)
  BY <1>2, <1>3
<1> QED
  BY <1>1, <1>4, <1>5

\* The first k blocks of u are those of s behind n blocks.
Follows(B, s, n, u, k) ==
    /\ Times(k, B) <= Len(u) /\ Times(n, B) + Times(k, B) <= Len(s)
    /\ \A j \in 1 .. Times(k, B) : u[j] = s[Times(n, B) + j]

LEMMA CutAppend ==
  ASSUME NEW B \in Nat \ {0}, NEW S, NEW s \in Seq(S), NEW u \in Seq(S), NEW n \in Nat, NEW k \in Nat,
         Follows(B, s, n, u, k)
  PROVE  Cut(B, s, n) \o Cut(B, u, k) = Cut(B, s, n + k)
<1>0. /\ Times(k, B) <= Len(u) /\ Times(n, B) + Times(k, B) <= Len(s)
      /\ \A j \in 1 .. Times(k, B) : u[j] = s[Times(n, B) + j]
  BY DEF Follows
<1> DEFINE A == Cut(B, s, n)
           D == Cut(B, u, k)
           E == Cut(B, s, n + k)
           c == A \o D
<1>1. Times(n, B) <= Len(s) /\ Times(n + k, B) <= Len(s)
  <2>1. /\ Times(n, B) \in Nat /\ Times(k, B) \in Nat /\ Times(n + k, B) = Times(n, B) + Times(k, B) /\ Len(s) \in Nat
    BY TimesNat, TimesAdd, TimesFew
  <2> QED
    BY <1>0, <2>1
<1>2. A \in Seq(Seq(S)) /\ Len(A) = n
  BY <1>1, CutSeq
<1>10. \A i \in 1 .. n : A[i] = E[i]
  <2>1. \A i \in 1 .. n : i \in 1 .. n + k
    OBVIOUS
  <2> QED
    BY <2>1 DEF Cut
<1>11. D \in Seq(Seq(S)) /\ Len(D) = k
  BY <1>0, CutSeq
<1>3. \A q \in 1 .. k :
         /\ D[q] \in Seq(S) /\ Len(D[q]) = B
         /\ \A j \in 1 .. B : D[q][j] = u[Times(q - 1, B) + j]
  BY <1>0, CutSeq
<1>4. /\ E \in Seq(Seq(S)) /\ Len(E) = n + k
      /\ \A i \in 1 .. n + k :
           /\ E[i] \in Seq(S) /\ Len(E[i]) = B
           /\ \A j \in 1 .. B : E[i][j] = s[Times(i - 1, B) + j]
  <2>1. n + k \in Nat
    OBVIOUS
  <2> QED
    BY <1>1, <2>1, CutSeq
<1>5. \A q \in 1 .. k, j \in 1 .. B :
         /\ Times(q - 1, B) + j \in 1 .. Times(k, B)
         /\ Times((n + q) - 1, B) + j = Times(n, B) + (Times(q - 1, B) + j)
  BY Places
<1> HIDE DEF A, D, E
<1>6. /\ c \in Seq(Seq(S)) /\ Len(c) = n + k
      /\ \A i \in 1 .. n + k : c[i] = IF i <= n THEN A[i] ELSE D[i - n]
  <2>1. /\ A \o D \in Seq(Seq(S)) /\ Len(A \o D) = Len(A) + Len(D)
        /\ \A i \in 1 .. Len(A) + Len(D) :
              (A \o D)[i] = IF i <= Len(A) THEN A[i] ELSE D[i - Len(A)]
    BY <1>2, <1>11, ConcatProperties
  <2> QED
    BY <1>2, <1>11, <2>1
<1>7. ASSUME NEW q \in 1 .. k
      PROVE  D[q] = E[n + q]
  <2>1. n + q \in 1 .. n + k
    OBVIOUS
  <2> DEFINE a == D[q]
             b == E[n + q]
  <2>2. a \in Seq(S) /\ b \in Seq(S) /\ Len(a) = B /\ Len(b) = B
    BY <1>3, <1>4, <2>1
  <2>3. ASSUME NEW j \in 1 .. B PROVE a[j] = b[j]
    <3>1. a[j] = u[Times(q - 1, B) + j] /\ b[j] = s[Times((n + q) - 1, B) + j]
      BY <1>3, <1>4, <2>1
    <3>2. /\ Times(q - 1, B) + j \in 1 .. Times(k, B)
          /\ Times((n + q) - 1, B) + j = Times(n, B) + (Times(q - 1, B) + j)
      BY <1>5
    <3>3. u[Times(q - 1, B) + j] = s[Times(n, B) + (Times(q - 1, B) + j)]
      BY <1>0, <3>2
    <3> QED
      BY <3>1, <3>2, <3>3
  <2> HIDE DEF a, b
  <2>4. a = b
    BY <2>2, <2>3, SeqEqual
  <2> QED
    BY <2>4 DEF a, b
<1> HIDE DEF c
<1>8. ASSUME NEW i \in 1 .. n + k PROVE c[i] = E[i]
  <2>1. CASE i <= n
    <3>1. i \in 1 .. n
      BY <2>1
    <3>2. c[i] = A[i]
      BY <1>6, <2>1
    <3> QED
      BY <1>10, <3>1, <3>2
  <2>2. CASE ~(i <= n)
    <3>1. PICK q \in 1 .. k : i - n = q /\ i = n + q
      <4>1. i - n \in 1 .. k /\ i = n + (i - n)
        BY <2>2
      <4> QED
        BY <4>1
    <3>2. c[i] = D[q]
      BY <1>6, <2>2, <3>1
    <3> QED
      BY <1>7, <3>1, <3>2
  <2> QED
    BY <2>1, <2>2
<1>9. c = E
  BY <1>4, <1>6, <1>8, SeqEqual
<1> QED
  BY <1>9 DEF c, A, D, E

LEMMA CutSame ==
  ASSUME NEW B \in Nat \ {0}, NEW S, NEW s \in Seq(S), NEW u \in Seq(S), NEW n \in Nat,
         Times(n, B) <= Len(u), Times(n, B) <= Len(s), \A j \in 1 .. Times(n, B) : u[j] = s[j]
  PROVE  Cut(B, u, n) = Cut(B, s, n)
<1>1. B \in Nat \ {0} /\ Times(n, B) \in Nat /\ Times(0, B) = 0
  BY TimesNat, TimesAdd, TimesFew
<1>2. Cut(B, s, 0) \o Cut(B, u, n) = Cut(B, s, 0 + n)
  <2>1. \A j \in 1 .. Times(n, B) : s[Times(0, B) + j] = s[j]
    BY <1>1
  <2>2. Times(0, B) + Times(n, B) <= Len(s)
    BY <1>1
  <2>3. Follows(B, s, 0, u, n)
    BY <2>1, <2>2 DEF Follows
  <2> QED
    BY <2>3, CutAppend
<1>3. Cut(B, s, 0) = <<>>
  BY DEF Cut
<1>4. Cut(B, u, n) \in Seq(Seq(S)) /\ 0 + n = n
  BY CutSeq
<1> QED
  BY <1>2, <1>3, <1>4, ConcatEmptySeq

\* The compression function takes in blocks.
LEMMA TransfCut ==
  ASSUME NEW v, NEW b, NEW u, NEW n, NEW h0
  PROVE  transf(v, [h0 |-> h0, blocks |-> b], u, n)
           = [h0 |-> h0, blocks |-> b \o Cut(v.block, u, n)]
<1> DEFINE h == [h0 |-> h0, blocks |-> b]
           c == Cut(v.block, u, n)
<1>1. transf(v, h, u, n) = [h EXCEPT !.blocks = @ \o c]
  BY DEF transf, Cut, Times
<1> HIDE DEF c
<1>2. [h EXCEPT !.blocks = @ \o c] = [h0 |-> h0, blocks |-> b \o c]
  <2>1. h.blocks \o c = b \o c
    OBVIOUS
  <2>2. \A d : [h EXCEPT !.blocks = d] = [h0 |-> h0, blocks |-> d]
    OBVIOUS
  <2> QED
    BY <2>1, <2>2
<1> QED
  BY <1>1, <1>2 DEF c

(***************************************************************************)
(* A context that has taken in the message m: n blocks of it are hashed,   *)
(* the rest, len bytes, is in the buffer.                                  *)
(***************************************************************************)
State(v, m, n, block, len) ==
    [h |-> [h0 |-> v.h0, blocks |-> Cut(v.block, m, n)], block |-> block, len |-> len,
     tot_len |-> Times(n, v.block)]

Rest(B, S, m, n, block, len) ==
    /\ m \in Seq(S) /\ block \in Seq(S) /\ Len(block) = Times(2, B)
    /\ n \in Nat /\ len \in 0 .. B - 1 /\ Len(m) = Times(n, B) + len
    /\ \A j \in 1 .. len : block[j] = m[Times(n, B) + j]

Holds(v, c, m) ==
    \E S, n, block, len : c = State(v, m, n, block, len) /\ Rest(v.block, S, m, n, block, len)

LEMMA RestFacts ==
  ASSUME NEW B \in Nat \ {0}, NEW S, NEW m, NEW n, NEW block, NEW len, Rest(B, S, m, n, block, len)
  PROVE  /\ m \in Seq(S) /\ block \in Seq(S) /\ Len(block) = B + B /\ n \in Nat
         /\ len \in Nat /\ len < B /\ Times(n, B) \in Nat /\ Len(m) = Times(n, B) + len
         /\ \A j \in 1 .. len : block[j] = m[Times(n, B) + j]
  BY TimesFew, TimesNat DEF Rest

Sizes(B, S, m, n, block, len) ==
    /\ m \in Seq(S) /\ block \in Seq(S) /\ Len(block) = B + B /\ n \in Nat
    /\ len \in Nat /\ len < B /\ Times(n, B) \in Nat /\ Len(m) = Times(n, B) + len

LEMMA RestSizes ==
  ASSUME NEW B \in Nat \ {0}, NEW S, NEW m, NEW n, NEW block, NEW len, Rest(B, S, m, n, block, len)
  PROVE  Sizes(B, S, m, n, block, len)
  BY RestFacts DEF Sizes

Begins(q, p) == Len(q) <= Len(p) /\ \A k \in 1 .. Len(q) : q[k] = p[k]

Continues(B, S, c, len, m, n) ==
    /\ c \in Seq(S) /\ Len(c) = B + B
    /\ \A j \in 1 .. len : c[j] = m[Times(n, B) + j]

\* What is put behind the bytes in use continues the message in the buffer.
LEMMA PutContinues ==
  ASSUME NEW B \in Nat \ {0}, NEW S, NEW m, NEW n, NEW block, NEW len, Rest(B, S, m, n, block, len),
         NEW p \in Seq(S), NEW q \in Seq(S), Room(block, len, q), Begins(q, p)
  PROVE  Continues(B, S, Behind(block, len, q), len + Len(q), m \o p, n)
<1> DEFINE filled == Behind(block, len, q)
           m2 == m \o p
<1>1. /\ m \in Seq(S) /\ block \in Seq(S) /\ Len(block) = B + B /\ n \in Nat
      /\ len \in Nat /\ len < B /\ Times(n, B) \in Nat /\ Len(m) = Times(n, B) + len
      /\ \A j \in 1 .. len : block[j] = m[Times(n, B) + j]
  BY RestFacts
<1>2. /\ \A i \in 1 .. Len(m) : m2[i] = m[i]
      /\ \A k \in 1 .. Len(p) : m2[Len(m) + k] = p[k]
  <2>1. m \in Seq(S)
    BY <1>1
  <2> QED
    BY <2>1, ConcatFacts
<1>3. /\ filled \in Seq(S) /\ Len(filled) = Len(block)
      /\ \A j \in 1 .. len : filled[j] = block[j]
      /\ \A k \in 1 .. Len(q) : filled[len + k] = q[k]
  <2>1. len \in Nat /\ block \in Seq(S)
    BY <1>1
  <2>2. Filled(S, filled, block, len, q)
    BY <2>1, PutBehind
  <2> QED
    BY <2>2 DEF Filled
<1> HIDE DEF filled, m2
<1>4. ASSUME NEW j \in 1 .. len + Len(q) PROVE filled[j] = m2[Times(n, B) + j]
  <2>2. CASE j <= len
    <3>1. j \in 1 .. len /\ Times(n, B) + j \in 1 .. Len(m)
      BY <1>1, <2>2
    <3>2. filled[j] = block[j] /\ block[j] = m[Times(n, B) + j]
      BY <1>1, <1>3, <3>1
    <3>3. m2[Times(n, B) + j] = m[Times(n, B) + j]
      BY <1>2, <3>1
    <3> QED
      BY <3>2, <3>3
  <2>3. CASE ~(j <= len)
    <3>1. PICK k \in 1 .. Len(q) : j = len + k
      <4>1. j - len \in 1 .. Len(q) /\ j = len + (j - len)
        BY <1>1, <2>3
      <4> QED
        BY <4>1
    <3>2. k \in 1 .. Len(p) /\ Times(n, B) + j = Len(m) + k
      BY <1>1, <3>1 DEF Begins
    <3>3. filled[j] = q[k] /\ q[k] = p[k]
      BY <1>3, <3>1 DEF Begins
    <3>4. m2[Len(m) + k] = p[k]
      BY <1>2, <3>2
    <3> QED
      BY <3>2, <3>3, <3>4
  <2> QED
    BY <2>2, <2>3
<1> QED
  BY <1>1, <1>3, <1>4 DEF filled, m2, Continues

LEMMA CutsKept ==
  ASSUME NEW B \in Nat \ {0}, NEW S, NEW m \in Seq(S), NEW p \in Seq(S), NEW n \in Nat,
         Times(n, B) <= Len(m)
  PROVE  Cut(B, m, n) = Cut(B, m \o p, n)
<1> DEFINE m2 == m \o p
<1>1. /\ m2 \in Seq(S) /\ Len(m2) = Len(m) + Len(p)
      /\ \A i \in 1 .. Len(m) : m2[i] = m[i]
  BY ConcatFacts
<1> HIDE DEF m2
<1>5. Len(m) \in Nat /\ Len(p) \in Nat
  OBVIOUS
<1>2. Times(n, B) \in Nat /\ Len(m) \in Nat /\ Len(p) \in Nat
  BY <1>5, TimesNat
<1>3. Times(n, B) <= Len(m2) /\ \A j \in 1 .. Times(n, B) : m[j] = m2[j]
  BY <1>1, <1>2
<1>4. Cut(B, m, n) = Cut(B, m2, n)
  BY <1>1, <1>3, CutSame
<1> QED
  BY <1>4 DEF m2

LEMMA UpdateShort ==
  ASSUME NEW B \in Nat \ {0}, NEW S, NEW m, NEW n, NEW block, NEW len, Rest(B, S, m, n, block, len),
         NEW p \in Seq(S), len + Len(p) < B
  PROVE  /\ Rest(B, S, m \o p, n, Behind(block, len, p), len + Len(p))
         /\ Cut(B, m, n) = Cut(B, m \o p, n)
<1> DEFINE filled == Behind(block, len, p)
           m2 == m \o p
<1>1. /\ m \in Seq(S) /\ block \in Seq(S) /\ Len(block) = B + B /\ n \in Nat
      /\ len \in Nat /\ len < B /\ Times(n, B) \in Nat /\ Len(m) = Times(n, B) + len
      /\ Len(p) \in Nat
  <2>1. Sizes(B, S, m, n, block, len)
    BY Zenon, RestSizes
  <2>2. Len(p) \in Nat
    OBVIOUS
  <2> QED
    BY <2>1, <2>2 DEF Sizes
<1>2. m2 \in Seq(S) /\ Len(m2) = Len(m) + Len(p)
  <2>1. m \in Seq(S)
    BY <1>1
  <2> QED
    BY <2>1, ConcatFacts
<1>3. /\ filled \in Seq(S) /\ Len(filled) = B + B
      /\ \A j \in 1 .. len + Len(p) : filled[j] = m2[Times(n, B) + j]
  <2>1. Room(block, len, p) /\ Begins(p, p)
    BY <1>1 DEF Room, Begins
  <2>2. Continues(B, S, filled, len + Len(p), m2, n)
    BY <2>1, PutContinues
  <2> QED
    BY <2>2 DEF Continues
<1>4. Cut(B, m, n) = Cut(B, m2, n)
  <2>1. Times(n, B) <= Len(m)
    BY <1>1
  <2> QED
    BY <1>1, <2>1, CutsKept
<1> HIDE DEF filled, m2
<1>5. Rest(B, S, m2, n, filled, len + Len(p))
  <2>1. len + Len(p) \in 0 .. B - 1 /\ Len(m2) = Times(n, B) + (len + Len(p))
    BY <1>1, <1>2
  <2>2. Len(filled) = Times(2, B)
    BY <1>3, TimesFew
  <2> QED
    BY <1>1, <1>2, <1>3, <2>1, <2>2 DEF Rest
<1> QED
  BY <1>4, <1>5 DEF filled, m2

\* A message that fills the block: rem bytes go into the buffer, the full
\* blocks of the bytes after them are hashed, the bytes left stay.
FilledUp(block, len, p, rem) == Behind(block, len, SubSeq(p, 1, rem))
Shifted(p, rem)              == SubSeq(p, rem + 1, Len(p))
Full(B, s)                   == Len(s) \div B
Left(B, s)                   == SubSeq(s, Times(Full(B, s), B) + 1, Len(s))

LEMMA UpdateLong ==
  ASSUME NEW B \in Nat \ {0}, NEW S, NEW m, NEW n, NEW block, NEW len, Rest(B, S, m, n, block, len),
         NEW p \in Seq(S), ~(len + Len(p) < B)
  PROVE  LET filled   == FilledUp(block, len, p, B - len)
             shifted  == Shifted(p, B - len)
             block_nb == Full(B, shifted)
             rest     == Left(B, shifted)
         IN  /\ Rest(B, S, m \o p, (n + 1) + block_nb, Behind(filled, 0, rest), Len(rest))
             /\ (Cut(B, m, n) \o Cut(B, filled, 1)) \o Cut(B, shifted, block_nb)
                  = Cut(B, m \o p, (n + 1) + block_nb)
<1>1. /\ m \in Seq(S) /\ block \in Seq(S) /\ Len(block) = B + B /\ n \in Nat
      /\ len \in Nat /\ len < B /\ Times(n, B) \in Nat /\ Len(m) = Times(n, B) + len
  <2>1. Sizes(B, S, m, n, block, len)
    BY Zenon, RestSizes
  <2> QED
    BY <2>1 DEF Sizes
<1> DEFINE head     == SubSeq(p, 1, B - len)
           filled   == Behind(block, len, head)
           shifted  == SubSeq(p, (B - len) + 1, Len(p))
           block_nb == Len(shifted) \div B
           rest     == SubSeq(shifted, Times(block_nb, B) + 1, Len(shifted))
           last     == Behind(filled, 0, rest)
           m2       == m \o p
<1>2. /\ Len(p) \in Nat /\ B - len \in Nat /\ B - len <= Len(p) /\ (B - len) + 1 \in Nat \ {0}
      /\ 1 <= (B - len) + 1 /\ (B - len) + 1 <= Len(p) + 1
      /\ (B - len) - 1 + 1 = B - len /\ Len(p) - ((B - len) + 1) + 1 = Len(p) - (B - len)
  <2>1. Len(p) \in Nat
    OBVIOUS
  <2> QED
    BY <1>1, <2>1
<1>3. /\ head \in Seq(S) /\ Len(head) = B - len
      /\ \A k \in 1 .. B - len : head[k] = p[k]
  <2>1. /\ head \in Seq(S) /\ Len(head) = (B - len) - 1 + 1
        /\ \A k \in 1 .. (B - len) - 1 + 1 : head[k] = p[1 + k - 1]
    BY <1>2, SubSeqFacts
  <2>2. \A k \in 1 .. B - len : 1 + k - 1 = k
    OBVIOUS
  <2> QED
    BY <1>2, <2>1, <2>2
<1>4. /\ shifted \in Seq(S) /\ Len(shifted) = Len(p) - (B - len)
      /\ \A k \in 1 .. Len(p) - (B - len) : shifted[k] = p[(B - len) + k]
  <2> DEFINE a == (B - len) + 1
  <2>1. /\ shifted \in Seq(S) /\ Len(shifted) = Len(p) - a + 1
        /\ \A k \in 1 .. Len(p) - a + 1 : shifted[k] = p[a + k - 1]
    BY <1>2, SubSeqFacts
  <2>2. \A k \in 1 .. Len(p) - (B - len) : a + k - 1 = (B - len) + k
    BY <1>2
  <2> QED
    BY <1>2, <2>1, <2>2
<1>5. m2 \in Seq(S) /\ Len(m2) = Len(m) + Len(p)
      /\ \A k \in 1 .. Len(p) : m2[Len(m) + k] = p[k]
  <2>1. m \in Seq(S)
    BY <1>1
  <2> QED
    BY <2>1, ConcatFacts
<1>6. Cut(B, m, n) = Cut(B, m2, n)
  <2>1. Times(n, B) <= Len(m)
    BY <1>1
  <2> QED
    BY <1>1, <2>1, CutsKept
<1> HIDE DEF head
<1>7. /\ filled \in Seq(S) /\ Len(filled) = B + B
      /\ \A j \in 1 .. B : filled[j] = m2[Times(n, B) + j]
  <2>1. len + Len(head) = B
    BY <1>1, <1>2, <1>3
  <2>2. Room(block, len, head) /\ Begins(head, p) /\ head \in Seq(S)
    BY <1>1, <1>2, <1>3 DEF Room, Begins
  <2>3. Continues(B, S, filled, len + Len(head), m2, n)
    BY <2>2, PutContinues
  <2> QED
    BY <2>1, <2>3 DEF Continues
<1> HIDE DEF filled, shifted, m2
<1>8. Times(n + 1, B) = Times(n, B) + B
  BY <1>1, TimesAdd, TimesFew
<1>9. \A k \in 1 .. Len(shifted) : shifted[k] = m2[Times(n + 1, B) + k]
  <2>1. TAKE k \in 1 .. Len(shifted)
  <2>2. k \in 1 .. Len(p) - (B - len) /\ (B - len) + k \in 1 .. Len(p)
        /\ Times(n + 1, B) + k = Len(m) + ((B - len) + k)
    <3>1. /\ Len(shifted) = Len(p) - (B - len) /\ Times(n + 1, B) = Times(n, B) + B
          /\ Len(m) = Times(n, B) + len /\ Times(n, B) \in Nat /\ len \in Nat
          /\ Len(p) \in Nat /\ B - len \in Nat
      BY <1>1, <1>2, <1>4, <1>8
    <3> QED
      BY <3>1
  <2>3. shifted[k] = p[(B - len) + k]
    BY <1>4, <2>2
  <2>4. m2[Len(m) + ((B - len) + k)] = p[(B - len) + k]
    BY <1>5, <2>2
  <2> QED
    BY <2>2, <2>3, <2>4
<1>10. /\ block_nb \in Nat /\ Times(block_nb, B) \in Nat
       /\ Times(block_nb, B) <= Len(shifted) /\ Len(shifted) < Times(block_nb, B) + B
  <2>1. Len(shifted) \in Nat
    BY <1>4
  <2> QED
    BY <2>1, DivFacts
<1> HIDE DEF block_nb
<1>11. /\ rest \in Seq(S) /\ Len(rest) = Len(shifted) - Times(block_nb, B)
       /\ \A k \in 1 .. Len(rest) : rest[k] = shifted[Times(block_nb, B) + k]
  <2> DEFINE a == Times(block_nb, B) + 1
  <2>1. a \in Nat \ {0} /\ Len(shifted) \in Nat /\ a <= Len(shifted) + 1
        /\ Len(shifted) - a + 1 = Len(shifted) - Times(block_nb, B)
    BY <1>4, <1>10
  <2>2. /\ rest \in Seq(S) /\ Len(rest) = Len(shifted) - a + 1
        /\ \A k \in 1 .. Len(shifted) - a + 1 : rest[k] = shifted[a + k - 1]
    BY <1>4, <2>1, SubSeqFacts
  <2>3. \A k \in 1 .. Len(rest) : a + k - 1 = Times(block_nb, B) + k
    BY <1>10
  <2> QED
    BY <2>1, <2>2, <2>3
<1> HIDE DEF rest
<1>12. /\ Times((n + 1) + block_nb, B) = Times(n + 1, B) + Times(block_nb, B)
       /\ (n + 1) + block_nb \in Nat /\ n + 1 \in Nat
  BY <1>1, <1>10, TimesAdd
<1>13. Len(m2) = Times(n + 1, B) + Len(shifted) /\ Len(shifted) \in Nat /\ Times(n + 1, B) \in Nat
  <2>1. /\ Len(m2) = Len(m) + Len(p) /\ Len(m) = Times(n, B) + len
        /\ Len(shifted) = Len(p) - (B - len) /\ Times(n + 1, B) = Times(n, B) + B
        /\ Len(p) \in Nat /\ Times(n, B) \in Nat /\ len \in Nat /\ B - len \in Nat /\ B - len <= Len(p)
    BY <1>1, <1>2, <1>4, <1>5, <1>8
  <2> HIDE DEF m2, shifted
  <2> QED
    BY <2>1
<1>14. /\ last \in Seq(S) /\ Len(last) = B + B
       /\ \A k \in 1 .. Len(rest) : last[k] = rest[k]
  <2>1. Room(filled, 0, rest) /\ 0 \in Nat
    BY <1>4, <1>7, <1>10, <1>11 DEF Room
  <2>2. Filled(S, last, filled, 0, rest)
    BY <1>7, <1>11, <2>1, PutBehind
  <2>3. \A k \in 1 .. Len(rest) : 0 + k = k
    OBVIOUS
  <2> QED
    BY <1>7, <2>2, <2>3 DEF Filled
<1> HIDE DEF last
<1>15. Rest(B, S, m2, (n + 1) + block_nb, last, Len(rest))
  <2>1. Len(rest) \in 0 .. B - 1 /\ Len(m2) = Times((n + 1) + block_nb, B) + Len(rest)
    BY <1>10, <1>11, <1>12, <1>13
  <2>2. ASSUME NEW j \in 1 .. Len(rest) PROVE last[j] = m2[Times((n + 1) + block_nb, B) + j]
    <3>1. Times(block_nb, B) + j \in 1 .. Len(shifted)
          /\ Times((n + 1) + block_nb, B) + j = Times(n + 1, B) + (Times(block_nb, B) + j)
      <4>1. /\ Len(rest) = Len(shifted) - Times(block_nb, B) /\ j \in 1 .. Len(rest)
            /\ Len(shifted) \in Nat /\ Times(block_nb, B) \in Nat /\ Times(n + 1, B) \in Nat
            /\ Times((n + 1) + block_nb, B) = Times(n + 1, B) + Times(block_nb, B)
        BY <1>10, <1>11, <1>12, <1>13
      <4> HIDE DEF m2
      <4> QED
        BY <4>1
    <3>2. last[j] = rest[j] /\ rest[j] = shifted[Times(block_nb, B) + j]
      BY <1>11, <1>14
    <3>3. shifted[Times(block_nb, B) + j] = m2[Times(n + 1, B) + (Times(block_nb, B) + j)]
      BY <1>9, <3>1
    <3> QED
      BY <3>1, <3>2, <3>3
  <2>3. Len(last) = Times(2, B)
    BY <1>14, TimesFew
  <2> QED
    BY <1>5, <1>12, <1>14, <2>1, <2>2, <2>3 DEF Rest
<1>16. Cut(B, m2, n) \o Cut(B, filled, 1) = Cut(B, m2, n + 1)
  <2>1. Times(1, B) = B
    BY TimesFew
  <2>2. Times(1, B) <= Len(filled) /\ Times(n, B) + Times(1, B) <= Len(m2)
    BY <1>1, <1>7, <1>8, <1>13, <2>1
  <2>3. \A j \in 1 .. Times(1, B) : filled[j] = m2[Times(n, B) + j]
    BY <1>7, <2>1
  <2>4. m2 \in Seq(S) /\ filled \in Seq(S) /\ n \in Nat /\ 1 \in Nat
    BY <1>1, <1>5, <1>7
  <2>5. Follows(B, m2, n, filled, 1)
    BY <2>2, <2>3 DEF Follows
  <2> QED
    BY <2>4, <2>5, CutAppend
<1>17. Cut(B, m2, n + 1) \o Cut(B, shifted, block_nb) = Cut(B, m2, (n + 1) + block_nb)
  <2>1. Times(n + 1, B) + Times(block_nb, B) <= Len(m2)
    BY <1>10, <1>13
  <2>2. \A j \in 1 .. Times(block_nb, B) : shifted[j] = m2[Times(n + 1, B) + j]
    BY <1>9, <1>10, <1>13
  <2>3. m2 \in Seq(S) /\ shifted \in Seq(S) /\ n + 1 \in Nat /\ block_nb \in Nat
    BY <1>4, <1>5, <1>10, <1>12
  <2>4. Follows(B, m2, n + 1, shifted, block_nb)
    BY <1>10, <2>1, <2>2 DEF Follows
  <2> DEFINE n1 == n + 1
  <2>5. n1 \in Nat /\ Follows(B, m2, n1, shifted, block_nb)
    BY <2>3, <2>4
  <2> HIDE DEF n1
  <2>6. Cut(B, m2, n1) \o Cut(B, shifted, block_nb) = Cut(B, m2, n1 + block_nb)
    BY <2>3, <2>5, CutAppend
  <2> QED
    BY <2>6 DEF n1
<1>18. (Cut(B, m, n) \o Cut(B, filled, 1)) \o Cut(B, shifted, block_nb)
         = Cut(B, m2, (n + 1) + block_nb)
  BY <1>6, <1>16, <1>17
<1> QED
  BY <1>15, <1>18 DEF last, rest, block_nb, shifted, filled, head, m2, FilledUp, Shifted, Full, Left

(***************************************************************************)
(* sha_update                                                              *)
(***************************************************************************)
LEMMA ModSmall == ASSUME NEW n \in Nat, NEW B \in Nat, n < B PROVE n % B = n
  OBVIOUS

LEMMA UpdateIs ==
  ASSUME NEW v, NEW h, NEW block, NEW len, NEW tot_len, NEW p
  PROVE  LET rem      == Min({Len(p), v.block - len})
             filled   == FilledUp(block, len, p, rem)
             shifted  == Shifted(p, rem)
             block_nb == Full(v.block, shifted)
             rest     == Left(v.block, shifted)
         IN  sha_update(v, [h |-> h, block |-> block, len |-> len, tot_len |-> tot_len], p)
               = IF (len + Len(p)) % Uint < v.block
                 THEN [h |-> h, block |-> filled, len |-> (len + Len(p)) % Uint,
                       tot_len |-> tot_len]
                 ELSE [h       |-> transf(v, transf(v, h, filled, 1), shifted, block_nb),
                       block   |-> Put(filled, 1, rest),
                       len     |-> Len(rest),
                       tot_len |-> (tot_len + Times(block_nb + 1, v.block)) % Uint]
<1> DEFINE c        == [h |-> h, block |-> block, len |-> len, tot_len |-> tot_len]
           rem      == Min({Len(p), v.block - len})
           filled   == Put(block, len + 1, SubSeq(p, 1, rem))
           shifted  == SubSeq(p, rem + 1, Len(p))
           block_nb == Len(shifted) \div v.block
           rest     == SubSeq(shifted, block_nb * v.block + 1, Len(shifted))
<1>1. c.h = h /\ c.block = block /\ c.len = len /\ c.tot_len = tot_len
  OBVIOUS
<1>2. \A f, l : [c EXCEPT !.block = f, !.len = l]
                  = [h |-> h, block |-> f, len |-> l, tot_len |-> tot_len]
  <2>1. TAKE f, l
  <2> DEFINE d == [c EXCEPT !.block = f, !.len = l]
  <2>2. DOMAIN d = {"h", "block", "len", "tot_len"}
    OBVIOUS
  <2>3. d.h = h /\ d.block = f /\ d.len = l /\ d.tot_len = tot_len
    OBVIOUS
  <2>4. d = [x \in DOMAIN d |-> d[x]]
    OBVIOUS
  <2> HIDE DEF d
  <2>5. d = [h |-> h, block |-> f, len |-> l, tot_len |-> tot_len]
    BY <2>2, <2>3, <2>4
  <2> QED
    BY <2>5 DEF d
<1> HIDE DEF c
<1>3. sha_update(v, c, p)
        = IF (len + Len(p)) % Uint < v.block
          THEN [c EXCEPT !.block = filled, !.len = (len + Len(p)) % Uint]
          ELSE [h       |-> transf(v, transf(v, h, filled, 1), shifted, block_nb),
                block   |-> Put(filled, 1, rest),
                len     |-> Len(rest),
                tot_len |-> (tot_len + (block_nb + 1) * v.block) % Uint]
  BY <1>1 DEF sha_update
<1> QED
  BY <1>2, <1>3 DEF c, FilledUp, Shifted, Full, Left, Behind, Times

LEMMA RestWider ==
  ASSUME NEW B, NEW S, NEW T, NEW m, NEW n, NEW block, NEW len, Rest(B, S, m, n, block, len), S \subseteq T
  PROVE  Rest(B, T, m, n, block, len)
<1>1. m \in Seq(S) /\ block \in Seq(S)
  BY DEF Rest
<1>2. m \in Seq(T) /\ block \in Seq(T)
  BY <1>1, SeqMonotonic
<1> QED
  BY <1>2 DEF Rest

LEMMA UpdateHolds ==
  ASSUME NEW v, Sized(v), NEW c, NEW m, Holds(v, c, m), NEW T, NEW p \in Seq(T),
         Len(m) + Len(p) < Uint
  PROVE  Holds(v, sha_update(v, c, p), m \o p)
<1>1. PICK S0, n, block, len : c = State(v, m, n, block, len) /\ Rest(v.block, S0, m, n, block, len)
  BY DEF Holds
<1> DEFINE B == v.block
           S == S0 \cup T
           h(s, i) == [h0 |-> v.h0, blocks |-> Cut(B, s, i)]
<1>2. B \in Nat \ {0}
  BY DEF Sized
<1>3. Rest(B, S, m, n, block, len) /\ p \in Seq(S)
  <2>1. S0 \subseteq S /\ T \subseteq S
    OBVIOUS
  <2>2. p \in Seq(S)
    BY <2>1, SeqMonotonic
  <2>3. Rest(B, S, m, n, block, len)
    BY <1>1, <2>1, RestWider
  <2> QED
    BY <2>2, <2>3
<1>4. c = [h |-> h(m, n), block |-> block, len |-> len, tot_len |-> Times(n, B)]
  BY <1>1 DEF State
<1>5. ASSUME NEW b, NEW u, NEW i
      PROVE  transf(v, [h0 |-> v.h0, blocks |-> b], u, i) = [h0 |-> v.h0, blocks |-> b \o Cut(B, u, i)]
  BY TransfCut
<1> DEFINE rem      == Min({Len(p), B - len})
           filled   == FilledUp(block, len, p, rem)
           shifted  == Shifted(p, rem)
           block_nb == Full(B, shifted)
           rest     == Left(B, shifted)
           c2       == sha_update(v, c, p)
<1>16. c2 = IF (len + Len(p)) % Uint < B
            THEN [h |-> h(m, n), block |-> filled, len |-> (len + Len(p)) % Uint,
                  tot_len |-> Times(n, B)]
            ELSE [h       |-> transf(v, transf(v, h(m, n), filled, 1), shifted, block_nb),
                  block   |-> Put(filled, 1, rest),
                  len     |-> Len(rest),
                  tot_len |-> (Times(n, B) + Times(block_nb + 1, B)) % Uint]
  <2> DEFINE d == [h |-> h(m, n), block |-> block, len |-> len, tot_len |-> Times(n, B)]
             short == [h |-> h(m, n), block |-> filled, len |-> (len + Len(p)) % Uint,
                       tot_len |-> Times(n, B)]
             long  == [h       |-> transf(v, transf(v, h(m, n), filled, 1), shifted, block_nb),
                       block   |-> Put(filled, 1, rest),
                       len     |-> Len(rest),
                       tot_len |-> (Times(n, B) + Times(block_nb + 1, B)) % Uint]
  <2>1. sha_update(v, d, p) = IF (len + Len(p)) % Uint < B THEN short ELSE long
    <3> HIDE DEF h
    <3> QED
      BY UpdateIs
  <2>2. c = d
    BY <1>4
  <2> HIDE DEF d, short, long
  <2>3. c2 = IF (len + Len(p)) % Uint < B THEN short ELSE long
    BY <2>1, <2>2
  <2> QED
    BY <2>3 DEF short, long
<1>7. \A l, k, blk : State(v, m \o p, k, blk, l)
                       = [h |-> h(m \o p, k), block |-> blk, len |-> l, tot_len |-> Times(k, B)]
  BY DEF State
<1>8. /\ len \in Nat /\ len < B /\ n \in Nat /\ Times(n, B) \in Nat /\ Len(p) \in Nat
  <2>1. Len(p) \in Nat
    BY <1>3
  <2> QED
    BY <1>2, <1>3, <2>1, RestFacts
<1>14. Len(m) = Times(n, B) + len /\ Uint \in Nat
  BY <1>2, <1>3, RestFacts DEF Sized
<1>15. (len + Len(p)) % Uint = len + Len(p)
  <2>1. len + Len(p) < Uint /\ len + Len(p) \in Nat
    BY <1>8, <1>14
  <2> QED
    BY <1>14, <2>1, ModSmall
<1>6. c2 = IF len + Len(p) < B
           THEN [h |-> h(m, n), block |-> filled, len |-> len + Len(p), tot_len |-> Times(n, B)]
           ELSE [h       |-> transf(v, transf(v, h(m, n), filled, 1), shifted, block_nb),
                 block   |-> Put(filled, 1, rest),
                 len     |-> Len(rest),
                 tot_len |-> (Times(n, B) + Times(block_nb + 1, B)) % Uint]
  BY <1>15, <1>16
<1>13. rem = IF Len(p) <= B - len THEN Len(p) ELSE B - len
  <2>1. Len(p) \in Nat /\ B - len \in Nat
    BY <1>2, <1>8
  <2> QED
    BY <2>1, MinTwo
<1>9. SUFFICES \E k, blk, l : c2 = State(v, m \o p, k, blk, l) /\ Rest(B, S, m \o p, k, blk, l)
  BY DEF Holds
<1> HIDE DEF B, S, c2, rem
<1>10. CASE len + Len(p) < B
  <2>1. rem = Len(p)
    BY <1>2, <1>8, <1>10, <1>13
  <2>2. SubSeq(p, 1, rem) = p
    BY <1>3, <2>1, SubSeqFull
  <2>3. /\ Rest(B, S, m \o p, n, Behind(block, len, p), len + Len(p))
        /\ Cut(B, m, n) = Cut(B, m \o p, n)
    BY <1>2, <1>3, <1>10, UpdateShort
  <2>5. filled = Behind(block, len, p)
    BY <2>1, <2>2 DEF FilledUp
  <2> HIDE DEF filled
  <2>6. c2 = [h |-> h(m, n), block |-> filled, len |-> len + Len(p), tot_len |-> Times(n, B)]
    BY <1>6, <1>10
  <2>4. c2 = State(v, m \o p, n, Behind(block, len, p), len + Len(p))
    BY <1>7, <2>3, <2>5, <2>6
  <2> QED
    BY <2>3, <2>4
<1>11. CASE ~(len + Len(p) < B)
  <2>1. rem = B - len
    BY <1>2, <1>8, <1>11, <1>13
  <2>2. /\ Rest(B, S, m \o p, (n + 1) + block_nb, Behind(filled, 0, rest), Len(rest))
        /\ (Cut(B, m, n) \o Cut(B, filled, 1)) \o Cut(B, shifted, block_nb)
             = Cut(B, m \o p, (n + 1) + block_nb)
    <3>1. FilledUp(block, len, p, B - len) = filled /\ Shifted(p, B - len) = shifted
      BY <2>1
    <3>2. /\ Rest(B, S, m \o p, (n + 1) + Full(B, Shifted(p, B - len)),
                  Behind(FilledUp(block, len, p, B - len), 0, Left(B, Shifted(p, B - len))),
                  Len(Left(B, Shifted(p, B - len))))
          /\ (Cut(B, m, n) \o Cut(B, FilledUp(block, len, p, B - len), 1))
               \o Cut(B, Shifted(p, B - len), Full(B, Shifted(p, B - len)))
               = Cut(B, m \o p, (n + 1) + Full(B, Shifted(p, B - len)))
      BY <1>2, <1>3, <1>11, UpdateLong
    <3> QED
      BY <3>1, <3>2
  <2>3. transf(v, transf(v, h(m, n), filled, 1), shifted, block_nb) = h(m \o p, (n + 1) + block_nb)
    <3> HIDE DEF filled, shifted, block_nb
    <3>1. transf(v, h(m, n), filled, 1)
            = [h0 |-> v.h0, blocks |-> Cut(B, m, n) \o Cut(B, filled, 1)]
      BY <1>5
    <3>2. transf(v, [h0 |-> v.h0, blocks |-> Cut(B, m, n) \o Cut(B, filled, 1)], shifted, block_nb)
            = [h0 |-> v.h0,
               blocks |-> (Cut(B, m, n) \o Cut(B, filled, 1)) \o Cut(B, shifted, block_nb)]
      BY <1>5
    <3> QED
      BY <2>2, <3>1, <3>2
  <2>4. Put(filled, 1, rest) = Behind(filled, 0, rest)
    BY DEF Behind
  <2>5. (Times(n, B) + Times(block_nb + 1, B)) % Uint = Times((n + 1) + block_nb, B)
    <3>1. Rest(B, S, m \o p, (n + 1) + block_nb, Behind(filled, 0, rest), Len(rest))
      BY <2>2
    <3>2. block_nb \in Nat
      <4>1. Len(shifted) \in Nat
        <5> DEFINE a == rem + 1
        <5>1. a \in Nat \ {0} /\ a <= Len(p) + 1 /\ Len(p) <= Len(p)
          BY <1>2, <1>8, <1>11, <2>1
        <5>2. SubSeq(p, a, Len(p)) \in Seq(S)
          BY <1>3, <1>8, <5>1, SubSeqFacts
        <5> QED
          BY <5>2 DEF Shifted
      <4> QED
        BY <1>2, <4>1, DivFacts DEF Full
    <3> HIDE DEF block_nb
    <3>3. n + (block_nb + 1) = (n + 1) + block_nb /\ block_nb + 1 \in Nat
      BY <1>8, <3>2
    <3>4. Times(n + (block_nb + 1), B) = Times(n, B) + Times(block_nb + 1, B)
      BY <1>2, <1>8, <3>3, TimesAdd
    <3>5. Times((n + 1) + block_nb, B) \in Nat /\ Times((n + 1) + block_nb, B) <= Len(m \o p)
      <4>1. (n + 1) + block_nb \in Nat
        BY <1>8, <3>2
      <4>2. /\ Len(rest) \in Nat /\ Times((n + 1) + block_nb, B) \in Nat
            /\ Len(m \o p) = Times((n + 1) + block_nb, B) + Len(rest)
        <5> HIDE DEF filled, rest
        <5>1. Sizes(B, S, m \o p, (n + 1) + block_nb, Behind(filled, 0, rest), Len(rest))
          BY <1>2, <3>1, RestSizes
        <5> QED
          BY <5>1 DEF Sizes
      <4> HIDE DEF rest
      <4> QED
        BY <4>2
    <3>6. Len(m \o p) = Len(m) + Len(p)
      <4>1. m \in Seq(S)
        BY <1>3 DEF Rest
      <4> QED
        BY <1>3, <4>1, ConcatProperties
    <3>7. Times((n + 1) + block_nb, B) % Uint = Times((n + 1) + block_nb, B)
      <4>1. Times((n + 1) + block_nb, B) < Uint
        BY <1>8, <1>14, <3>5, <3>6
      <4> QED
        BY <1>14, <3>5, <4>1, ModSmall
    <3> QED
      BY <3>3, <3>4, <3>7
  <2> HIDE DEF filled, shifted, block_nb, rest
  <2>6. c2 = State(v, m \o p, (n + 1) + block_nb, Behind(filled, 0, rest), Len(rest))
    BY <1>6, <1>7, <1>11, <2>3, <2>4, <2>5
  <2> QED
    BY <2>2, <2>6
<1> QED
  BY <1>10, <1>11

LEMMA InitHolds ==
  ASSUME NEW v, Sized(v)
  PROVE  Holds(v, sha_init(v), <<>>)
<1> DEFINE B == v.block
           S == {[stack |-> i] : i \in 1 .. 2 * B}
<1>1. B \in Nat \ {0}
  BY DEF Sized
<1>2. Stack(2 * B) \in Seq(S) /\ Len(Stack(2 * B)) = Times(2, B)
  <2>1. Stack(2 * B) \in [1 .. 2 * B -> S]
    BY DEF Stack
  <2>2. 2 * B \in Nat
    BY <1>1
  <2> QED
    BY <2>1, <2>2, FunSeq DEF Times
<1>3. Cut(B, <<>>, 0) = <<>>
  BY DEF Cut
<1>4. Times(0, B) = 0
  BY <1>1, TimesFew
<1>5. sha_init(v) = State(v, <<>>, 0, Stack(2 * B), 0)
  BY <1>3, <1>4 DEF sha_init, State
<1>6. <<>> \in Seq(S) /\ Len(<<>>) = Times(0, B) + 0 /\ 0 \in 0 .. B - 1
  BY <1>1, <1>4
<1> HIDE DEF S
<1>7. Rest(B, S, <<>>, 0, Stack(2 * B), 0)
  BY <1>2, <1>6 DEF Rest
<1> QED
  BY <1>5, <1>7 DEF Holds

(***************************************************************************)
(* sha_final                                                               *)
(***************************************************************************)
LEMMA BytesSeq ==
  ASSUME NEW n \in Nat, NEW b, NEW S, b \in S
  PROVE  Bytes(n, b) \in Seq(S) /\ Len(Bytes(n, b)) = n /\ \A i \in 1 .. n : Bytes(n, b)[i] = b
<1>1. Bytes(n, b) \in [1 .. n -> S]
  BY DEF Bytes
<1>2. \A i \in 1 .. n : Bytes(n, b)[i] = b
  BY DEF Bytes
<1> QED
  BY <1>1, <1>2, FunSeq

\* The blocks the code writes the end of a message into, by the bytes in use.
EndBlocks(v, len) == IF v.block - v.length - 1 < len THEN 2 ELSE 1

LEMMA EndFacts ==
  ASSUME NEW v, Sized(v), NEW len \in Nat, len < v.block
  PROVE  /\ EndBlocks(v, len) \in 1 .. 2
         /\ Times(EndBlocks(v, len), v.block) \in Nat
         /\ len + 2 <= Times(EndBlocks(v, len), v.block)
         /\ Times(EndBlocks(v, len), v.block) <= v.block + v.block
         /\ len + 1 + v.length <= Times(EndBlocks(v, len), v.block)
         /\ Times(EndBlocks(v, len), v.block) < len + 1 + v.length + v.block
<1> DEFINE B == v.block
           L == v.length
<1>1. B \in Nat /\ L \in 1 .. B - 1
  BY DEF Sized
<1>2. Times(1, B) = B /\ Times(2, B) = B + B
  BY <1>1, TimesFew
<1>3. EndBlocks(v, len) = IF B - L - 1 < len THEN 2 ELSE 1
  BY DEF EndBlocks
<1>4. len < B
  OBVIOUS
<1> HIDE DEF B, L
<1>5. /\ EndBlocks(v, len) \in 1 .. 2
      /\ Times(EndBlocks(v, len), B) \in Nat
      /\ len + 2 <= Times(EndBlocks(v, len), B)
      /\ Times(EndBlocks(v, len), B) <= B + B
      /\ len + 1 + L <= Times(EndBlocks(v, len), B)
      /\ Times(EndBlocks(v, len), B) < len + 1 + L + B
  <2>1. CASE B - L - 1 < len
    <3>1. EndBlocks(v, len) = 2
      BY <1>3, <2>1
    <3> QED
      BY <1>1, <1>2, <1>4, <2>1, <3>1
  <2>2. CASE ~(B - L - 1 < len)
    <3>1. EndBlocks(v, len) = 1
      BY <1>3, <2>2
    <3> QED
      BY <1>1, <1>2, <1>4, <2>2, <3>1
  <2> QED
    BY <2>1, <2>2
<1> QED
  BY <1>5 DEF B, L

\* The standard rounds up to the same number of blocks.
LEMMA EndRounds ==
  ASSUME NEW v, Sized(v), NEW n \in Nat, NEW len \in Nat, len < v.block
  PROVE  (((Times(n, v.block) + len) + 1 + v.length + v.block - 1) \div v.block) * v.block
           = Times(n, v.block) + Times(EndBlocks(v, len), v.block)
<1> DEFINE B == v.block
           L == v.length
           k == EndBlocks(v, len)
           r == len + 1 + L + B - 1 - Times(k, B)
<1>1. B \in Nat \ {0} /\ L \in Nat
  BY DEF Sized
<1>2. /\ k \in Nat /\ Times(k, B) \in Nat
      /\ len + 1 + L <= Times(k, B) /\ Times(k, B) < len + 1 + L + B
  BY EndFacts
<1> HIDE DEF B, L, k
<1>3. r \in Nat /\ r < B
  BY <1>1, <1>2
<1>4. n + k \in Nat /\ Times(n + k, B) = Times(n, B) + Times(k, B) /\ Times(n, B) \in Nat
  <2>1. n + k \in Nat /\ k \in Nat /\ B \in Nat
    BY <1>1, <1>2
  <2>2. Times(n + k, B) = Times(n, B) + Times(k, B)
    BY <2>1, TimesAdd
  <2>3. Times(n, B) \in Nat
    BY <2>1, TimesNat
  <2> QED
    BY <2>1, <2>2, <2>3
<1>5. (Times(n, B) + len) + 1 + L + B - 1 = Times(n + k, B) + r
  BY <1>1, <1>2, <1>3, <1>4
<1> HIDE DEF r
<1>6. (Times(n + k, B) + r) \div B = n + k
  BY <1>1, <1>3, <1>4, DivUnique
<1>7. (((Times(n, B) + len) + 1 + L + B - 1) \div B) * B = Times(n, B) + Times(k, B)
  <2>1. ((Times(n, B) + len) + 1 + L + B - 1) \div B = n + k
    BY <1>5, <1>6
  <2>2. (n + k) * B = Times(n + k, B)
    BY DEF Times
  <2> QED
    BY <1>4, <2>1, <2>2
<1> QED
  BY <1>7 DEF B, L, k

PaddedTo(m, y, x, z, b) == m \o <<x>> \o Bytes(y, z) \o <<b>>

IsPadded(S, p, m, y, x, z, b) ==
    /\ p \in Seq(S) /\ Len(p) = Len(m) + y + 2
    /\ \A i \in 1 .. Len(m) : p[i] = m[i]
    /\ p[Len(m) + 1] = x
    /\ \A i \in 1 .. y : p[Len(m) + 1 + i] = z
    /\ p[Len(m) + y + 2] = b

LEMMA PaddedFacts ==
  ASSUME NEW S, NEW m \in Seq(S), NEW y \in Nat, NEW x \in S, NEW z \in S, NEW b \in S
  PROVE  IsPadded(S, PaddedTo(m, y, x, z, b), m, y, x, z, b)
<1> DEFINE one == <<x>>
           zeros == Bytes(y, z)
           last == <<b>>
           m1 == m \o one
           m2 == m1 \o zeros
           m3 == m2 \o last
<1>1. one \in Seq(S) /\ Len(one) = 1 /\ one[1] = x
  OBVIOUS
<1>2. last \in Seq(S) /\ Len(last) = 1 /\ last[1] = b
  OBVIOUS
<1>3. zeros \in Seq(S) /\ Len(zeros) = y /\ \A i \in 1 .. y : zeros[i] = z
  BY BytesSeq
<1>4. Len(m) \in Nat
  OBVIOUS
<1> HIDE DEF one, zeros, last
<1>5. /\ m1 \in Seq(S) /\ Len(m1) = Len(m) + Len(one)
      /\ \A i \in 1 .. Len(m) : m1[i] = m[i]
      /\ \A i \in 1 .. Len(one) : m1[Len(m) + i] = one[i]
  <2>1. Joined(S, m1, m, one)
    BY <1>1, ConcatJoins
  <2> HIDE DEF m1
  <2> QED
    BY <2>1 DEF Joined
<1> HIDE DEF m1
<1>6. /\ m2 \in Seq(S) /\ Len(m2) = Len(m1) + Len(zeros)
      /\ \A i \in 1 .. Len(m1) : m2[i] = m1[i]
      /\ \A i \in 1 .. Len(zeros) : m2[Len(m1) + i] = zeros[i]
  <2>1. Joined(S, m2, m1, zeros)
    BY <1>3, <1>5, ConcatJoins
  <2> HIDE DEF m2
  <2> QED
    BY <2>1 DEF Joined
<1> HIDE DEF m2
<1>7. /\ m3 \in Seq(S) /\ Len(m3) = Len(m2) + Len(last)
      /\ \A i \in 1 .. Len(m2) : m3[i] = m2[i]
      /\ \A i \in 1 .. Len(last) : m3[Len(m2) + i] = last[i]
  <2>1. Joined(S, m3, m2, last)
    BY <1>2, <1>6, ConcatJoins
  <2> HIDE DEF m3
  <2> QED
    BY <2>1 DEF Joined
<1> HIDE DEF m3
<1>8. Len(m1) = Len(m) + 1 /\ Len(m2) = Len(m) + 1 + y /\ Len(m3) = Len(m) + y + 2
  BY <1>1, <1>2, <1>3, <1>4, <1>5, <1>6, <1>7
<1>9. ASSUME NEW i \in 1 .. Len(m) PROVE m3[i] = m[i]
  <2>1. i \in 1 .. Len(m1) /\ i \in 1 .. Len(m2)
    BY <1>4, <1>8
  <2> QED
    BY <1>5, <1>6, <1>7, <2>1
<1>10. m3[Len(m) + 1] = x
  <2>1. Len(m) + 1 \in 1 .. Len(m1) /\ Len(m) + 1 \in 1 .. Len(m2) /\ 1 \in 1 .. Len(one)
    BY <1>1, <1>4, <1>8
  <2>2. m3[Len(m) + 1] = m2[Len(m) + 1]
    BY <1>7, <2>1
  <2>3. m2[Len(m) + 1] = m1[Len(m) + 1]
    BY <1>6, <2>1
  <2>4. m1[Len(m) + 1] = one[1]
    BY <1>5, <2>1
  <2> QED
    BY <1>1, <2>2, <2>3, <2>4
<1>11. ASSUME NEW i \in 1 .. y PROVE m3[Len(m) + 1 + i] = z
  <2>1. i \in 1 .. Len(zeros) /\ Len(m1) + i \in 1 .. Len(m2) /\ Len(m1) + i = Len(m) + 1 + i
    BY <1>3, <1>4, <1>8
  <2>2. m2[Len(m1) + i] = zeros[i] /\ zeros[i] = z
    BY <1>3, <1>6, <2>1
  <2>3. m3[Len(m1) + i] = m2[Len(m1) + i]
    BY <1>7, <2>1
  <2> QED
    BY <2>1, <2>2, <2>3
<1>12. m3[Len(m) + y + 2] = b
  <2>1. 1 \in 1 .. Len(last) /\ Len(m2) + 1 = Len(m) + y + 2
    BY <1>2, <1>4, <1>8
  <2>2. m3[Len(m2) + 1] = last[1]
    BY <1>7, <2>1
  <2> QED
    BY <1>2, <2>1, <2>2
<1>13. PaddedTo(m, y, x, z, b) = m3
  BY DEF PaddedTo, m3, m2, m1, one, zeros, last
<1> QED
  BY <1>7, <1>8, <1>9, <1>10, <1>11, <1>12, <1>13 DEF IsPadded

ClosedTo(block, len, e, x, z, b) ==
    Put(Put(block, len + 1, <<x>> \o Bytes(e - len - 1, z)), e, <<b>>)

IsClosed(S, c, block, len, e, x, z, b) ==
    /\ c \in Seq(S) /\ Len(c) = Len(block)
    /\ \A i \in 1 .. len : c[i] = block[i]
    /\ c[len + 1] = x
    /\ \A i \in 1 .. e - len - 2 : c[len + 1 + i] = z
    /\ c[e] = b

LEMMA ClosedFacts ==
  ASSUME NEW S, NEW block \in Seq(S), NEW len \in Nat, NEW e \in Nat,
         len + 2 <= e, e <= Len(block), NEW x \in S, NEW z \in S, NEW b \in S
  PROVE  IsClosed(S, ClosedTo(block, len, e, x, z, b), block, len, e, x, z, b)
<1> DEFINE one == <<x>>
           y == e - len - 1
           zeros == Bytes(y, z)
           tail == one \o zeros
           ended == Behind(block, len, tail)
           last == <<b>>
           f == e - 1
           closed == Behind(ended, f, last)
<1>1. one \in Seq(S) /\ Len(one) = 1 /\ one[1] = x
  OBVIOUS
<1>2. last \in Seq(S) /\ Len(last) = 1 /\ last[1] = b
  OBVIOUS
<1>3. y \in Nat /\ f \in Nat /\ len + 1 + y = e /\ f + 1 = e /\ Len(block) \in Nat /\ 1 <= y
  <2>1. Len(block) \in Nat
    OBVIOUS
  <2> QED
    BY <2>1
<1>14. e - len - 2 = y - 1
  OBVIOUS
<1> HIDE DEF y, f
<1>4. zeros \in Seq(S) /\ Len(zeros) = y /\ \A i \in 1 .. y : zeros[i] = z
  BY <1>3, BytesSeq
<1> HIDE DEF one, zeros, last
<1>5. /\ tail \in Seq(S) /\ Len(tail) = Len(one) + Len(zeros)
      /\ \A i \in 1 .. Len(one) : tail[i] = one[i]
      /\ \A i \in 1 .. Len(zeros) : tail[Len(one) + i] = zeros[i]
  <2>1. Joined(S, tail, one, zeros)
    BY <1>1, <1>4, ConcatJoins
  <2> HIDE DEF tail
  <2> QED
    BY <2>1 DEF Joined
<1> HIDE DEF tail
<1>6. Filled(S, ended, block, len, tail)
  <2>1. Room(block, len, tail)
    <3>1. Len(tail) = 1 + y
      BY <1>1, <1>4, <1>5
    <3>2. len + (1 + y) <= Len(block)
      BY <1>3
    <3> QED
      BY <3>1, <3>2 DEF Room
  <2> QED
    BY <1>5, <2>1, PutBehind
<1> HIDE DEF ended
<1>7. /\ ended \in Seq(S) /\ Len(ended) = Len(block)
      /\ \A i \in 1 .. len : ended[i] = block[i]
      /\ \A i \in 1 .. 1 + y : ended[len + i] = tail[i]
  <2>1. Len(tail) = 1 + y
    BY <1>1, <1>4, <1>5
  <2> QED
    BY <1>6, <2>1 DEF Filled
<1>8. Filled(S, closed, ended, f, last)
  <2>1. Room(ended, f, last)
    BY <1>2, <1>3, <1>7 DEF Room
  <2> QED
    BY <1>2, <1>3, <1>7, <2>1, PutBehind
<1> HIDE DEF closed
<1>9. /\ closed \in Seq(S) /\ Len(closed) = Len(ended)
      /\ \A i \in 1 .. f : closed[i] = ended[i]
      /\ closed[f + 1] = last[1]
  <2>1. 1 \in 1 .. Len(last)
    BY <1>2
  <2> QED
    BY <1>8, <2>1 DEF Filled
<1>10. ASSUME NEW i \in 1 .. len PROVE closed[i] = block[i]
  <2>1. i \in 1 .. f
    BY <1>3
  <2> QED
    BY <1>7, <1>9, <2>1
<1>11. closed[len + 1] = x
  <2>1. len + 1 \in 1 .. f /\ 1 \in 1 .. 1 + y /\ 1 \in 1 .. Len(one)
    BY <1>1, <1>3
  <2>2. closed[len + 1] = ended[len + 1]
    BY <1>9, <2>1
  <2>3. ended[len + 1] = tail[1]
    BY <1>7, <2>1
  <2>4. tail[1] = one[1]
    BY <1>5, <2>1
  <2> QED
    BY <1>1, <2>2, <2>3, <2>4
<1>12. ASSUME NEW i \in 1 .. y - 1 PROVE closed[len + 1 + i] = z
  <2>1. /\ len + (1 + i) \in 1 .. f /\ 1 + i \in 1 .. 1 + y /\ i \in 1 .. y
        /\ len + 1 + i = len + (1 + i)
    BY <1>3
  <2>2. closed[len + (1 + i)] = ended[len + (1 + i)]
    BY <1>9, <2>1
  <2>3. ended[len + (1 + i)] = tail[1 + i]
    BY <1>7, <2>1
  <2>4. tail[1 + i] = zeros[i]
    BY <1>1, <1>4, <1>5, <2>1
  <2> QED
    BY <1>4, <2>1, <2>2, <2>3, <2>4
<1>13. closed[e] = b
  BY <1>2, <1>3, <1>9
<1>15. ClosedTo(block, len, e, x, z, b) = closed
  <2>1. closed = Put(ended, e, last)
    BY <1>3 DEF closed, Behind
  <2> QED
    BY <2>1 DEF ClosedTo, ended, tail, one, zeros, last, y, Behind
<1>16. closed \in Seq(S) /\ Len(closed) = Len(block)
  BY <1>7, <1>9
<1> QED
  BY <1>10, <1>11, <1>12, <1>13, <1>14, <1>15, <1>16 DEF IsClosed

LEMMA FinalIs ==
  ASSUME NEW v, NEW h, NEW block, NEW len, NEW tot_len, len % v.block = len
  PROVE  sha_final(v, [h |-> h, block |-> block, len |-> len, tot_len |-> tot_len]).h
           = transf(v, h, ClosedTo(block, len, Times(EndBlocks(v, len), v.block), Byte(128), Byte(0),
                                   [bits |-> (8 * (tot_len + len)) % Uint]), EndBlocks(v, len))
<1> DEFINE c == [h |-> h, block |-> block, len |-> len, tot_len |-> tot_len]
           k == EndBlocks(v, len)
           e == Times(k, v.block)
           bits == [bits |-> (8 * (tot_len + len)) % Uint]
           closed == ClosedTo(block, len, e, Byte(128), Byte(0), bits)
<1>1. c.h = h /\ c.block = block /\ c.len = len /\ c.tot_len = tot_len
  OBVIOUS
<1>2. \A f, g : [c EXCEPT !.block = f, !.h = g].h = g
  OBVIOUS
<1> HIDE DEF c
<1>3. /\ k = IF v.block - v.length - 1 < c.len % v.block THEN 2 ELSE 1
      /\ e = k * v.block
  BY <1>1 DEF EndBlocks, Times
<1> HIDE DEF k, e
<1>4. closed = Put(Put(c.block, c.len + 1, <<Byte(128)>> \o Bytes(e - c.len - 1, Byte(0))),
                   e, <<[bits |-> len_b(c)]>>)
  BY <1>1 DEF ClosedTo, len_b
<1> HIDE DEF closed
<1>5. sha_final(v, c) = [c EXCEPT !.block = closed, !.h = transf(v, c.h, closed, k)]
  BY <1>3, <1>4 DEF sha_final
<1>6. sha_final(v, c).h = transf(v, h, closed, k)
  BY <1>1, <1>2, <1>5
<1> QED
  BY <1>6 DEF c, closed, k, e

SameEnd(B, S, m, n, k, closed, padded) ==
    /\ closed \in Seq(S) /\ padded \in Seq(S)
    /\ Len(padded) = Times(n, B) + Times(k, B)
    /\ Cut(B, m, n) \o Cut(B, closed, k) = Cut(B, padded, n + k)

\* The code and the standard end a message in the same blocks.
LEMMA EndsAgree ==
  ASSUME NEW B \in Nat \ {0}, NEW S, NEW m, NEW n, NEW block, NEW len, Rest(B, S, m, n, block, len),
         NEW k \in Nat, NEW y \in Nat, Times(k, B) \in Nat, len + y + 2 = Times(k, B), Times(k, B) <= B + B,
         NEW x \in S, NEW z \in S, NEW b \in S
  PROVE  SameEnd(B, S, m, n, k, ClosedTo(block, len, Times(k, B), x, z, b), PaddedTo(m, y, x, z, b))
<1> DEFINE e == Times(k, B)
           t == Times(n, B)
           closed == ClosedTo(block, len, e, x, z, b)
           padded == PaddedTo(m, y, x, z, b)
<1>1. /\ m \in Seq(S) /\ block \in Seq(S) /\ Len(block) = B + B /\ n \in Nat
      /\ len \in Nat /\ len < B /\ t \in Nat /\ Len(m) = t + len
      /\ \A j \in 1 .. len : block[j] = m[t + j]
  <2>1. /\ m \in Seq(S) /\ block \in Seq(S) /\ Len(block) = B + B /\ n \in Nat
        /\ len \in Nat /\ len < B /\ Times(n, B) \in Nat /\ Len(m) = Times(n, B) + len
        /\ \A j \in 1 .. len : block[j] = m[Times(n, B) + j]
    BY RestFacts
  <2> HIDE DEF t
  <2>2. t = Times(n, B)
    BY DEF t
  <2> QED
    BY <2>1, <2>2
<1>2. e \in Nat /\ len + y + 2 = e /\ e <= B + B
  OBVIOUS
<1> HIDE DEF e, t
<1>3. /\ closed \in Seq(S) /\ Len(closed) = Len(block)
      /\ \A i \in 1 .. len : closed[i] = block[i]
      /\ closed[len + 1] = x
      /\ \A i \in 1 .. e - len - 2 : closed[len + 1 + i] = z
      /\ closed[e] = b
  <2>1. block \in Seq(S) /\ len \in Nat /\ e \in Nat /\ len + 2 <= e /\ e <= Len(block)
    BY <1>1, <1>2
  <2>2. IsClosed(S, closed, block, len, e, x, z, b)
    BY <2>1, ClosedFacts
  <2> HIDE DEF closed
  <2> QED
    BY <2>2 DEF IsClosed
<1>4. /\ padded \in Seq(S) /\ Len(padded) = Len(m) + y + 2
      /\ \A i \in 1 .. Len(m) : padded[i] = m[i]
      /\ padded[Len(m) + 1] = x
      /\ \A i \in 1 .. y : padded[Len(m) + 1 + i] = z
      /\ padded[Len(m) + y + 2] = b
  <2>1. m \in Seq(S)
    BY <1>1
  <2>2. IsPadded(S, padded, m, y, x, z, b)
    BY <2>1, PaddedFacts
  <2> HIDE DEF padded
  <2> QED
    BY <2>2 DEF IsPadded
<1> HIDE DEF closed, padded
<1>5. Len(padded) = t + e /\ Len(closed) = B + B
  BY <1>1, <1>2, <1>3, <1>4
<1>6. ASSUME NEW j \in 1 .. e PROVE closed[j] = padded[t + j]
  <2>1. CASE j \in 1 .. len
    <3>1. t + j \in 1 .. Len(m)
      BY <1>1, <2>1
    <3>2. padded[t + j] = m[t + j]
      BY <1>4, <3>1
    <3> QED
      BY <1>1, <1>3, <2>1, <3>2
  <2>2. CASE j = len + 1
    <3>1. t + j = Len(m) + 1
      BY <1>1, <2>2
    <3> QED
      BY <1>3, <1>4, <2>2, <3>1
  <2>3. CASE j \in len + 2 .. e - 1
    <3>1. PICK i \in 1 .. y : j = len + 1 + i
      <4>1. j - len - 1 \in 1 .. y /\ j = len + 1 + (j - len - 1)
        BY <1>1, <1>2, <2>3
      <4> QED
        BY <4>1
    <3>2. t + j = Len(m) + 1 + i /\ i \in 1 .. e - len - 2
      BY <1>1, <1>2, <3>1
    <3>3. closed[len + 1 + i] = z
      BY <1>3, <3>2
    <3>4. padded[Len(m) + 1 + i] = z
      BY <1>4
    <3> QED
      BY <3>1, <3>2, <3>3, <3>4
  <2>4. CASE j = e
    <3>1. t + j = Len(m) + y + 2
      BY <1>1, <1>2, <2>4
    <3> QED
      BY <1>3, <1>4, <2>4, <3>1
  <2> QED
    BY <1>1, <1>2, <2>1, <2>2, <2>3, <2>4
<1>7. Cut(B, m, n) = Cut(B, padded, n)
  <2>1. Times(n, B) <= Len(m) /\ Times(n, B) <= Len(padded)
    BY <1>1, <1>2, <1>5 DEF t
  <2>2. \A j \in 1 .. Times(n, B) : m[j] = padded[j]
    <3>1. \A j \in 1 .. t : j \in 1 .. Len(m)
      BY <1>1
    <3> QED
      BY <1>4, <3>1 DEF t
  <2> QED
    BY <1>1, <1>4, <2>1, <2>2, CutSame
<1>8. Cut(B, padded, n) \o Cut(B, closed, k) = Cut(B, padded, n + k)
  <2>1. Follows(B, padded, n, closed, k)
    <3>1. e <= Len(closed) /\ t + e <= Len(padded)
      BY <1>1, <1>2, <1>5
    <3> QED
      BY <1>6, <3>1 DEF e, t, Follows
  <2>2. padded \in Seq(S) /\ closed \in Seq(S) /\ n \in Nat
    BY <1>1, <1>3, <1>4
  <2> QED
    BY <2>1, <2>2, CutAppend
<1>9. Cut(B, m, n) \o Cut(B, closed, k) = Cut(B, padded, n + k)
  BY <1>7, <1>8
<1> QED
  BY <1>3, <1>4, <1>5, <1>9 DEF closed, padded, e, t, SameEnd

LEMMA BlocksCut ==
  ASSUME NEW v, NEW B, B = v.block, B \in Nat \ {0}, NEW s, NEW q \in Nat, Len(s) = Times(q, B)
  PROVE  Blocks(v, s) = Cut(v.block, s, q)
<1>1. Len(s) \div v.block = q
  <2>1. 0 \in Nat /\ 0 < B /\ Times(q, B) + 0 = Times(q, B)
    <3>1. Times(q, B) \in Nat
      BY TimesNat
    <3> QED
      BY <3>1
  <2>2. (Times(q, B) + 0) \div B = q
    BY <2>1, DivUnique
  <2> QED
    BY <2>1, <2>2
<1> QED
  BY <1>1 DEF Blocks, Cut, Times

LEMMA FinalHash ==
  ASSUME NEW v, Sized(v), NEW c, NEW m, Holds(v, c, m), 8 * Len(m) < Uint
  PROVE  sha_final(v, c).h = [h0 |-> v.h0, blocks |-> Blocks(v, Padded(v, m))]
<1>1. PICK S0, n, block, len : c = State(v, m, n, block, len) /\ Rest(v.block, S0, m, n, block, len)
  BY DEF Holds
<1> DEFINE B == v.block
           x == Byte(128)
           z == Byte(0)
           b == [bits |-> 8 * Len(m)]
           S == S0 \cup {x, z, b}
           k == EndBlocks(v, len)
           y == Times(k, B) - len - 2
           h == [h0 |-> v.h0, blocks |-> Cut(B, m, n)]
           closed == ClosedTo(block, len, Times(k, B), x, z, b)
           padded == PaddedTo(m, y, x, z, b)
<1>2. B \in Nat \ {0}
  BY DEF Sized
<1>3. Rest(B, S, m, n, block, len)
  <2>1. S0 \subseteq S
    OBVIOUS
  <2> QED
    BY <1>1, <2>1, RestWider
<1>4. x \in S /\ z \in S /\ b \in S
  OBVIOUS
<1> HIDE DEF x, z, b, S
<1>5. /\ len \in Nat /\ len < B /\ n \in Nat /\ Times(n, B) \in Nat /\ Len(m) = Times(n, B) + len
  BY <1>2, <1>3, RestFacts
<1>6. /\ k \in Nat /\ Times(k, B) \in Nat /\ len + 2 <= Times(k, B) /\ Times(k, B) <= B + B
  BY <1>5, EndFacts
<1>7. c = [h |-> h, block |-> block, len |-> len, tot_len |-> Times(n, B)]
  BY <1>1 DEF State
<1>8. len % v.block = len
  BY <1>2, <1>5, ModSmall
<1>9. sha_final(v, c).h = transf(v, h, closed, k)
  <2>1. b = [bits |-> (8 * (Times(n, B) + len)) % Uint]
    <3> DEFINE l == 8 * (Times(n, B) + len)
    <3>1. l \in Nat /\ l = 8 * Len(m) /\ Uint \in Nat
      BY <1>5 DEF Sized
    <3>2. l < Uint
      BY <3>1
    <3> HIDE DEF l
    <3>3. l % Uint = l
      BY <3>1, <3>2, ModSmall
    <3> QED
      BY <3>1, <3>3 DEF b, l
  <2> HIDE DEF h
  <2>2. sha_final(v, [h |-> h, block |-> block, len |-> len, tot_len |-> Times(n, B)]).h
          = transf(v, h, ClosedTo(block, len, Times(EndBlocks(v, len), v.block), Byte(128), Byte(0),
                                  [bits |-> (8 * (Times(n, B) + len)) % Uint]), EndBlocks(v, len))
    BY <1>8, FinalIs
  <2> QED
    BY <1>7, <2>1, <2>2 DEF x, z
<1>10. transf(v, h, closed, k) = [h0 |-> v.h0, blocks |-> Cut(v.block, m, n) \o Cut(v.block, closed, k)]
  <2> HIDE DEF closed, k
  <2> QED
    BY TransfCut
<1>11. Padded(v, m) = padded
  <2>1. (((Len(m) + 1 + v.length) + v.block - 1) \div v.block) * v.block = Times(n, B) + Times(k, B)
    <3>1. (((Times(n, v.block) + len) + 1 + v.length + v.block - 1) \div v.block) * v.block
            = Times(n, v.block) + Times(EndBlocks(v, len), v.block)
      BY <1>5, EndRounds
    <3> QED
      BY <1>5, <3>1
  <2>2. (Times(n, B) + Times(k, B)) - Len(m) - 2 = y
    <3> HIDE DEF B, k
    <3> QED
      BY <1>5, <1>6
  <2>3. Padded(v, m) = m \o <<x>> \o Bytes((Times(n, B) + Times(k, B)) - Len(m) - 2, z) \o <<b>>
    BY <2>1 DEF Padded, x, z, b
  <2> HIDE DEF y
  <2> QED
    BY <2>2, <2>3 DEF PaddedTo
<1> HIDE DEF B, k
<1>12. y \in Nat /\ len + y + 2 = Times(k, B)
  BY <1>5, <1>6
<1> HIDE DEF y
<1>13. /\ Len(padded) = Times(n, B) + Times(k, B)
       /\ Cut(B, m, n) \o Cut(B, closed, k) = Cut(B, padded, n + k)
  <2>1. SameEnd(B, S, m, n, k, closed, padded)
    BY <1>2, <1>3, <1>4, <1>6, <1>12, EndsAgree
  <2> HIDE DEF padded, closed
  <2> QED
    BY <2>1 DEF SameEnd
<1> HIDE DEF padded, closed
<1>14. Blocks(v, padded) = Cut(v.block, padded, n + k)
  <2>1. Times(n + k, B) = Times(n, B) + Times(k, B) /\ n + k \in Nat
    BY <1>2, <1>5, <1>6, TimesAdd
  <2>2. Len(padded) = Times(n + k, B) /\ B = v.block
    BY <1>13, <2>1 DEF B
  <2> QED
    BY <1>2, <2>1, <2>2, BlocksCut
<1> QED
  BY <1>9, <1>10, <1>11, <1>13, <1>14 DEF B

LEMMA DigestHash ==
  ASSUME NEW v, Sized(v), NEW c, NEW m, Holds(v, c, m), 8 * Len(m) < Uint
  PROVE  digest(v, c) = Hash(v, m)
  BY FinalHash DEF digest, Hash

(***************************************************************************)
(* The keys, padded                                                        *)
(***************************************************************************)
LEMMA HashSeq ==
  ASSUME NEW v, Sized(v), NEW m
  PROVE  \E T : Hash(v, m) \in Seq(T) /\ Len(Hash(v, m)) = v.digest
<1> DEFINE h == [h0 |-> v.h0, blocks |-> Blocks(v, Padded(v, m))]
           T == {[of |-> h, at |-> i] : i \in 1 .. v.digest}
<1>1. Hash(v, m) = [i \in 1 .. v.digest |-> [of |-> h, at |-> i]]
  BY DEF Hash
<1> HIDE DEF h
<1>2. Hash(v, m) \in [1 .. v.digest -> T]
  BY <1>1
<1>3. v.digest \in Nat
  BY DEF Sized
<1> HIDE DEF T
<1>4. Hash(v, m) \in Seq(T) /\ Len(Hash(v, m)) = v.digest
  BY <1>2, <1>3, FunSeq
<1> QED
  BY <1>4

LEMMA ShaHash ==
  ASSUME NEW v, Sized(v), NEW T, NEW m \in Seq(T), 8 * Len(m) < Uint
  PROVE  sha(v, m) = Hash(v, m)
<1>1. Holds(v, sha_update(v, sha_init(v), m), <<>> \o m)
  <2>1. Len(<<>>) + Len(m) < Uint
    BY DEF Sized
  <2> QED
    BY <2>1, InitHolds, UpdateHolds
<1>2. <<>> \o m = m
  BY ConcatEmptySeq
<1> QED
  BY <1>1, <1>2, DigestHash DEF sha

Short(v, k) == IF Len(k) > v.block THEN Hash(v, k) ELSE k

MaskedBytes(v, s, mask) ==
    LET full == s \o Bytes(v.block - Len(s), Byte(0))
    IN  [i \in 1 .. v.block |-> Xor(full[i], mask)]

Masked(v, k, mask) == MaskedBytes(v, Short(v, k), mask)

LEMMA ShortSeq ==
  ASSUME NEW v, Sized(v), NEW T, NEW k \in Seq(T), 8 * Len(k) < Uint
  PROVE  /\ key_used(v, k) = Short(v, k)
         /\ \E S : Short(v, k) \in Seq(S)
         /\ Len(Short(v, k)) \in Nat /\ Len(Short(v, k)) <= v.block
<1>1. key_used(v, k) = Short(v, k)
  BY ShaHash DEF key_used, Short
<1>2. CASE Len(k) > v.block
  <2>1. Short(v, k) = Hash(v, k)
    BY <1>2 DEF Short
  <2>2. PICK S : Hash(v, k) \in Seq(S) /\ Len(Hash(v, k)) = v.digest
    BY HashSeq
  <2>3. v.digest \in Nat /\ v.digest <= v.block
    BY DEF Sized
  <2> QED
    BY <1>1, <2>1, <2>2, <2>3
<1>3. CASE ~(Len(k) > v.block)
  <2>1. Short(v, k) = k
    BY <1>3 DEF Short
  <2>2. Len(k) \in Nat /\ v.block \in Nat
    BY DEF Sized
  <2>3. Len(k) <= v.block
    BY <1>3, <2>2
  <2> QED
    BY <1>1, <2>1, <2>2, <2>3
<1> QED
  BY <1>2, <1>3

LEMMA PadMasked ==
  ASSUME NEW v, Sized(v), NEW S, NEW s \in Seq(S), Len(s) <= v.block, NEW mask
  PROVE  /\ Pad(v, s, mask) = MaskedBytes(v, s, mask)
         /\ \E T : MaskedBytes(v, s, mask) \in Seq(T) /\ Len(MaskedBytes(v, s, mask)) = v.block
<1> DEFINE B == v.block
           r == B - Len(s)
           zero == Byte(0)
           zeros == Bytes(r, zero)
           full == s \o zeros
           all == [i \in 1 .. B |-> Xor(full[i], mask)]
           b == Byte(mask)
           front == [i \in 1 .. Len(s) |-> Xor(s[i], mask)]
           back == Bytes(r, b)
           pad == front \o back
           S2 == S \cup {zero}
           T == {Xor(s[i], mask) : i \in 1 .. Len(s)} \cup {b} \cup {Xor(full[i], mask) : i \in 1 .. B}
<1>1. B \in Nat /\ Len(s) \in Nat /\ r \in Nat /\ Len(s) + r = B
  <2>1. B \in Nat /\ Len(s) \in Nat
    BY DEF Sized
  <2> QED
    BY <2>1
<1>2. Xor(zero, mask) = b
  BY DEF Xor
<1>3. zero \in S2 /\ s \in Seq(S2)
  <2>1. S \subseteq S2
    OBVIOUS
  <2>2. s \in Seq(S2)
    BY <2>1, SeqMonotonic
  <2> QED
    BY <2>2
<1> HIDE DEF B, r, zero, b, S2
<1>4. zeros \in Seq(S2) /\ Len(zeros) = r /\ \A i \in 1 .. r : zeros[i] = zero
  BY <1>1, <1>3, BytesSeq
<1> HIDE DEF zeros
<1>5. Joined(S2, full, s, zeros)
  BY <1>3, <1>4, ConcatJoins
<1> HIDE DEF full
<1>6. all \in [1 .. B -> T]
  OBVIOUS
<1>7. front \in [1 .. Len(s) -> T] /\ b \in T
  OBVIOUS
<1>8. /\ \A i \in 1 .. B : all[i] = Xor(full[i], mask)
      /\ \A i \in 1 .. Len(s) : front[i] = Xor(s[i], mask)
  OBVIOUS
<1> HIDE DEF all, front, T
<1>9. all \in Seq(T) /\ Len(all) = B
  BY <1>1, <1>6, FunSeq
<1>10. front \in Seq(T) /\ Len(front) = Len(s)
  BY <1>1, <1>7, FunSeq
<1>11. back \in Seq(T) /\ Len(back) = r /\ \A i \in 1 .. r : back[i] = b
  BY <1>1, <1>7, BytesSeq
<1> HIDE DEF back
<1>12. Joined(T, pad, front, back)
  BY <1>10, <1>11, ConcatJoins
<1> HIDE DEF pad
<1>13. pad \in Seq(T) /\ Len(pad) = B
  BY <1>1, <1>10, <1>11, <1>12 DEF Joined
<1>14. ASSUME NEW i \in 1 .. B PROVE pad[i] = all[i]
  <2>1. CASE i \in 1 .. Len(s)
    <3>1. pad[i] = front[i]
      BY <1>10, <1>12, <2>1 DEF Joined
    <3>2. full[i] = s[i]
      BY <1>5, <2>1 DEF Joined
    <3> QED
      BY <1>8, <2>1, <3>1, <3>2
  <2>2. CASE i \notin 1 .. Len(s)
    <3>1. PICK q \in 1 .. r : i = Len(s) + q
      <4>1. i - Len(s) \in 1 .. r /\ i = Len(s) + (i - Len(s))
        BY <1>1, <2>2
      <4> QED
        BY <4>1
    <3>2. pad[Len(front) + q] = back[q]
      BY <1>11, <1>12 DEF Joined
    <3>3. full[Len(s) + q] = zeros[q]
      BY <1>4, <1>5 DEF Joined
    <3>4. pad[i] = b /\ full[i] = zero
      BY <1>4, <1>10, <1>11, <3>1, <3>2, <3>3
    <3> QED
      BY <1>2, <1>8, <3>4
  <2> QED
    BY <2>1, <2>2
<1>15. pad = all
  BY <1>9, <1>13, <1>14, SeqEqual
<1>16. Pad(v, s, mask) = pad
  BY DEF Pad, pad, front, back, b, r, B
<1>17. Pad(v, s, mask) = all /\ \E U : all \in Seq(U) /\ Len(all) = B
  BY <1>9, <1>15, <1>16
<1> QED
  BY <1>17 DEF all, full, zeros, zero, r, B, MaskedBytes

LEMMA MaskedSeq ==
  ASSUME NEW v, Sized(v), NEW T, NEW k \in Seq(T), 8 * Len(k) < Uint, NEW mask
  PROVE  /\ Pad(v, key_used(v, k), mask) = Masked(v, k, mask)
         /\ \E S : Masked(v, k, mask) \in Seq(S)
         /\ Len(Masked(v, k, mask)) = v.block
<1>1. PICK S : Short(v, k) \in Seq(S)
  BY ShortSeq
<1>2. key_used(v, k) = Short(v, k) /\ Len(Short(v, k)) <= v.block
  BY ShortSeq
<1>3. /\ Pad(v, Short(v, k), mask) = Masked(v, k, mask)
      /\ \E U : Masked(v, k, mask) \in Seq(U) /\ Len(Masked(v, k, mask)) = v.block
  BY <1>1, <1>2, PadMasked DEF Masked
<1> QED
  BY <1>2, <1>3

LEMMA KeyedHolds ==
  ASSUME NEW v, Sized(v), NEW T, NEW k \in Seq(T), 8 * Len(k) < Uint, NEW mask
  PROVE  Holds(v, Keyed(v, k, mask), Masked(v, k, mask))
<1>1. PICK S : Masked(v, k, mask) \in Seq(S)
  BY MaskedSeq
<1>5. Len(<<>>) + Len(Masked(v, k, mask)) < Uint
  <2>1. Len(Masked(v, k, mask)) = v.block
    BY MaskedSeq
  <2> QED
    BY <2>1 DEF Sized
<1>2. Pad(v, key_used(v, k), mask) = Masked(v, k, mask)
  BY MaskedSeq
<1>3. Holds(v, sha_update(v, sha_init(v), Masked(v, k, mask)), <<>> \o Masked(v, k, mask))
  BY <1>1, <1>5, InitHolds, UpdateHolds
<1>4. <<>> \o Masked(v, k, mask) = Masked(v, k, mask)
  BY <1>1, ConcatEmptySeq
<1> QED
  BY <1>2, <1>3, <1>4 DEF Keyed

LEMMA HmacIs ==
  ASSUME NEW v, NEW k, NEW m
  PROVE  Hmac(v, k, m) = Hash(v, Masked(v, k, 92) \o Hash(v, Masked(v, k, 54) \o m))
  BY DEF Hmac, Masked, MaskedBytes, Short

(***************************************************************************)
(* The contexts of a MAC: what reinit copies holds the padded keys; until  *)
(* final the inner context holds its key and the message behind it.        *)
(***************************************************************************)
KeyBytes     == {[key |-> i] : i \in Nat}
MessageBytes == {[msg |-> i] : i \in Nat}

IsContext(c) == c = [inside |-> c.inside, outside |-> c.outside,
                     inside_reinit |-> c.inside_reinit, outside_reinit |-> c.outside_reinit]

Inner(m) == Masked(variant, key, 54) \o m

KeyInRange == 8 * Len(key) < Uint

ContextHolds ==
    ctx # NoContext =>
        /\ IsContext(ctx)
        /\ KeyInRange => /\ Holds(variant, ctx.inside_reinit, Masked(variant, key, 54))
                         /\ Holds(variant, ctx.outside_reinit, Masked(variant, key, 92))
        /\ InRange /\ mac = <<>> => /\ Holds(variant, ctx.inside, Inner(message))
                                    /\ Holds(variant, ctx.outside, Masked(variant, key, 92))

MacInv ==
    /\ variant \in Variants /\ key \in Seq(KeyBytes) /\ message \in Seq(MessageBytes)
    /\ mac # <<>> => ctx # NoContext
    /\ ContextHolds
    /\ MacCorrect

LEMMA VariantsSized == ASSUME NEW v \in Variants PROVE Sized(v)
  BY SizeAssumption, UintAssumption
  DEF Variants, Sized, hmac_sha224, hmac_sha256, hmac_sha384, hmac_sha512, Sha224, Sha256, Sha384, Sha512

\* The key and the message behind it.
LEMMA InnerLen ==
  ASSUME NEW v, Sized(v), NEW T, NEW k \in Seq(T), 8 * Len(k) < Uint, NEW U, NEW m \in Seq(U), NEW mask
  PROVE  Len(Masked(v, k, mask) \o m) = v.block + Len(m)
<1>1. PICK S0 : Masked(v, k, mask) \in Seq(S0)
  BY MaskedSeq
<1>2. Len(Masked(v, k, mask)) = v.block
  BY MaskedSeq
<1> DEFINE S == S0 \cup U
<1>3. S0 \subseteq S /\ U \subseteq S
  OBVIOUS
<1> HIDE DEF S
<1>4. Masked(v, k, mask) \in Seq(S) /\ m \in Seq(S)
  BY <1>1, <1>3, SeqMonotonic
<1> QED
  BY <1>2, <1>4, ConcatProperties

LEMMA NotEmpty ==
  ASSUME NEW a, NEW b, NEW c, NEW d
  PROVE  [inside |-> a, outside |-> b, inside_reinit |-> c, outside_reinit |-> d] # NoContext
<1> DEFINE r == [inside |-> a, outside |-> b, inside_reinit |-> c, outside_reinit |-> d]
<1>1. "inside" \in DOMAIN r
  OBVIOUS
<1>2. DOMAIN NoContext = {}
  BY DEF NoContext
<1> HIDE DEF r
<1>3. r # NoContext
  BY <1>1, <1>2
<1> QED
  BY <1>3 DEF r

LEMMA CountedSeq ==
  ASSUME NEW n \in Nat, NEW base \in Nat
  PROVE  /\ [i \in 1 .. n |-> [key |-> i]] \in Seq(KeyBytes)
         /\ [i \in 1 .. n |-> [msg |-> base + i]] \in Seq(MessageBytes)
<1>1. [i \in 1 .. n |-> [key |-> i]] \in [1 .. n -> KeyBytes]
  BY DEF KeyBytes
<1>2. [i \in 1 .. n |-> [msg |-> base + i]] \in [1 .. n -> MessageBytes]
  BY DEF MessageBytes
<1> QED
  BY <1>1, <1>2, FunSeq

LEMMA NoMac == ASSUME mac' = <<>> PROVE MacCorrect'
<1>1. DOMAIN mac' = {}
  OBVIOUS
<1> QED
  BY <1>1 DEF MacCorrect, IsMac

LEMMA InitMac == Init => MacInv
<1> SUFFICES ASSUME Init PROVE MacInv
  OBVIOUS
<1>1. DOMAIN mac = {}
  BY DEF Init
<1>2. MacCorrect
  BY <1>1 DEF MacCorrect, IsMac
<1>3. key \in Seq(KeyBytes) /\ message \in Seq(MessageBytes)
  BY DEF Init
<1> QED
  BY <1>2, <1>3 DEF Init, MacInv, ContextHolds

LEMMA init_Mac ==
  ASSUME MacInv, NEW v \in Variants, NEW size \in 0 .. v.block + MaxLonger, init(v, size)
  PROVE  MacInv'
<1>1. Sized(v)
  BY VariantsSized
<1>2. size \in Nat
  <2>1. v.block \in Nat /\ MaxLonger \in Nat
    BY <1>1, BoundAssumption DEF Sized
  <2> QED
    BY <2>1
<1>3. key' \in Seq(KeyBytes)
  BY <1>2, CountedSeq DEF init
<1>4. variant' = v /\ message' = <<>> /\ mac' = <<>> /\ ctx' = hmac_init(v, key')
  BY DEF init
<1>5. ctx' = [inside |-> Keyed(v, key', 54), outside |-> Keyed(v, key', 92),
              inside_reinit |-> Keyed(v, key', 54), outside_reinit |-> Keyed(v, key', 92)]
  BY <1>4 DEF hmac_init
<1>6. ASSUME KeyInRange'
      PROVE  /\ Holds(v, Keyed(v, key', 54), Masked(v, key', 54))
             /\ Holds(v, Keyed(v, key', 92), Masked(v, key', 92))
  BY <1>1, <1>3, <1>6, KeyedHolds DEF KeyInRange
<1>7. ASSUME KeyInRange' PROVE Masked(v, key', 54) \o <<>> = Masked(v, key', 54)
  <2>1. PICK S : Masked(v, key', 54) \in Seq(S)
    BY <1>1, <1>3, <1>7, MaskedSeq DEF KeyInRange
  <2> QED
    BY <2>1, ConcatEmptySeq
<1>8. /\ ctx'.inside = Keyed(v, key', 54) /\ ctx'.outside = Keyed(v, key', 92)
      /\ ctx'.inside_reinit = Keyed(v, key', 54) /\ ctx'.outside_reinit = Keyed(v, key', 92)
  BY <1>5
<1>9. IsContext(ctx')
  BY <1>5, <1>8 DEF IsContext
<1>10. ContextHolds'
  BY <1>4, <1>6, <1>7, <1>8, <1>9 DEF ContextHolds, Inner, InRange, KeyInRange
<1>11. message' \in Seq(MessageBytes)
  BY <1>4
<1> QED
  BY <1>3, <1>4, <1>10, <1>11, NoMac DEF MacInv

LEMMA UpdateMac ==
  ASSUME MacInv, NEW size \in Nat, hmac_update(size)
  PROVE  MacInv'
<1> DEFINE piece == [i \in 1 .. size |-> [msg |-> Len(message) + i]]
           c == sha_update(variant, ctx.inside, piece)
<1>1. Sized(variant)
  BY VariantsSized DEF MacInv
<1>2. message \in Seq(MessageBytes) /\ key \in Seq(KeyBytes) /\ Len(message) \in Nat
  BY DEF MacInv
<1>3. piece \in Seq(MessageBytes)
  BY <1>2, CountedSeq
<1>4. /\ ctx # NoContext /\ mac = <<>> /\ message' = message \o piece
      /\ ctx' = [ctx EXCEPT !.inside = c]
      /\ UNCHANGED <<variant, key, mac>>
  BY DEF hmac_update
<1> HIDE DEF piece
<1>5. /\ IsContext(ctx)
      /\ KeyInRange => /\ Holds(variant, ctx.inside_reinit, Masked(variant, key, 54))
                       /\ Holds(variant, ctx.outside_reinit, Masked(variant, key, 92))
      /\ InRange => /\ Holds(variant, ctx.inside, Inner(message))
                    /\ Holds(variant, ctx.outside, Masked(variant, key, 92))
  BY <1>4 DEF MacInv, ContextHolds
<1>15. Len(message \o piece) = Len(message) + Len(piece) /\ Len(piece) \in Nat
  BY <1>2, <1>3, ConcatProperties
<1>16. ASSUME InRange'
       PROVE  /\ InRange /\ KeyInRange
              /\ Len(Inner(message)) + Len(piece) < Uint
  <2>1. 8 * Len(key) < Uint /\ 8 * (variant.block + (Len(message) + Len(piece))) < Uint
    BY <1>4, <1>15, <1>16 DEF InRange
  <2>2. Len(Inner(message)) = variant.block + Len(message)
    BY <1>1, <1>2, <2>1, InnerLen DEF Inner
  <2>3. variant.block \in Nat /\ Uint \in Nat
    BY <1>1 DEF Sized
  <2> QED
    BY <1>2, <1>15, <2>1, <2>2, <2>3 DEF InRange, KeyInRange
<1>6. ASSUME InRange' PROVE Holds(variant, c, Inner(message) \o piece)
  BY <1>1, <1>3, <1>5, <1>6, <1>16, UpdateHolds
<1>7. ASSUME InRange' PROVE Inner(message) \o piece = Inner(message \o piece)
  <2>1. PICK S0 : Masked(variant, key, 54) \in Seq(S0)
    BY <1>1, <1>2, <1>7, <1>16, MaskedSeq DEF KeyInRange
  <2> DEFINE S == S0 \cup MessageBytes
  <2>2. S0 \subseteq S /\ MessageBytes \subseteq S
    OBVIOUS
  <2> HIDE DEF S
  <2>3. Masked(variant, key, 54) \in Seq(S) /\ message \in Seq(S) /\ piece \in Seq(S)
    BY <1>2, <1>3, <2>1, <2>2, SeqMonotonic
  <2> QED
    BY <2>3, ConcatAssociative DEF Inner
<1> HIDE DEF c
<1>8. ctx' = [inside |-> c, outside |-> ctx.outside,
              inside_reinit |-> ctx.inside_reinit, outside_reinit |-> ctx.outside_reinit]
  BY <1>4, <1>5 DEF IsContext
<1>9. /\ ctx'.inside = c /\ ctx'.outside = ctx.outside
      /\ ctx'.inside_reinit = ctx.inside_reinit /\ ctx'.outside_reinit = ctx.outside_reinit
  BY <1>8
<1>10. IsContext(ctx')
  BY <1>8, <1>9 DEF IsContext
<1>11. ContextHolds'
  BY <1>4, <1>5, <1>6, <1>7, <1>9, <1>10, <1>16 DEF ContextHolds, Inner, KeyInRange
<1>12. message' \in Seq(MessageBytes)
  BY <1>2, <1>3, <1>4, ConcatProperties
<1>13. MacCorrect'
  BY <1>4, NoMac
<1>14. mac' = <<>> /\ variant' \in Variants /\ key' \in Seq(KeyBytes)
  BY <1>4 DEF MacInv
<1> QED
  BY <1>11, <1>12, <1>13, <1>14 DEF MacInv

LEMMA FinalMac ==
  ASSUME MacInv, NEW mac_size \in MacSize, hmac_final(mac_size)
  PROVE  MacInv'
<1> DEFINE inner == digest(variant, ctx.inside)
           outer == sha_update(variant, ctx.outside, inner)
           temp == digest(variant, outer)
           a == sha_final(variant, ctx.inside)
           b == sha_final(variant, outer)
<1>1. Sized(variant)
  BY VariantsSized DEF MacInv
<1>2. message \in Seq(MessageBytes) /\ key \in Seq(KeyBytes) /\ mac_size \in Nat \ {0}
  BY BoundAssumption DEF MacInv
<1>3. /\ ctx # NoContext /\ mac = <<>>
      /\ mac' = [i \in 1 .. mac_size |-> IF i <= variant.digest THEN temp[i] ELSE [stack |-> i]]
      /\ ctx' = [ctx EXCEPT !.inside = a, !.outside = b]
      /\ UNCHANGED <<variant, key, message>>
  BY DEF hmac_final, Mac
<1>4. /\ IsContext(ctx)
      /\ KeyInRange => /\ Holds(variant, ctx.inside_reinit, Masked(variant, key, 54))
                       /\ Holds(variant, ctx.outside_reinit, Masked(variant, key, 92))
      /\ InRange => /\ Holds(variant, ctx.inside, Inner(message))
                    /\ Holds(variant, ctx.outside, Masked(variant, key, 92))
  BY <1>3 DEF MacInv, ContextHolds
<1>9. ASSUME InRange PROVE temp = Hmac(variant, key, message)
  <2> DEFINE hash == Hash(variant, Inner(message))
             first == Masked(variant, key, 92)
  <2>1. /\ 8 * Len(key) < Uint /\ 8 * (variant.block + Len(message)) < Uint
        /\ Len(Inner(message)) = variant.block + Len(message)
    BY <1>1, <1>2, <1>9, InnerLen DEF Inner, InRange
  <2>2. inner = hash
    BY <1>1, <1>4, <1>9, <2>1, DigestHash
  <2>3. PICK T : hash \in Seq(T) /\ Len(hash) = variant.digest
    BY <1>1, HashSeq
  <2>4. /\ variant.block \in Nat /\ variant.digest \in Nat /\ Uint \in Nat
        /\ variant.digest <= variant.block /\ 16 * variant.block < Uint
    BY <1>1 DEF Sized
  <2> HIDE DEF inner, hash
  <2>5. /\ Len(first) = variant.block
        /\ Len(first \o hash) = variant.block + Len(hash)
    <3>1. Len(first) = variant.block
      BY <1>1, <1>2, <2>1, MaskedSeq
    <3>2. Len(Masked(variant, key, 92) \o hash) = variant.block + Len(hash)
      BY <1>1, <1>2, <2>1, <2>3, InnerLen
    <3> QED
      BY <3>1, <3>2
  <2> HIDE DEF first
  <2>6. Len(first) + Len(hash) < Uint /\ 8 * Len(first \o hash) < Uint
    BY <2>3, <2>4, <2>5
  <2>7. Holds(variant, outer, first \o hash)
    <3>1. Holds(variant, ctx.outside, first)
      BY <1>4, <1>9 DEF first
    <3> QED
      BY <1>1, <2>2, <2>3, <2>6, <3>1, UpdateHolds
  <2> HIDE DEF outer
  <2>8. temp = Hash(variant, first \o hash)
    BY <1>1, <2>6, <2>7, DigestHash
  <2> QED
    BY <2>8, HmacIs DEF Inner, first, hash
<1> HIDE DEF temp, a, b
<1>10. DOMAIN mac' = 1 .. mac_size /\ mac' # <<>>
  <2>1. DOMAIN mac' = 1 .. mac_size /\ 1 \in 1 .. mac_size
    BY <1>2, <1>3
  <2>2. mac' = <<>> => DOMAIN mac' = {}
    OBVIOUS
  <2> QED
    BY <2>1, <2>2
<1>11. MacCorrect'
  <2>1. ASSUME InRange
        PROVE  \A i \in 1 .. mac_size :
                 mac'[i] = IF i <= variant.digest THEN Hmac(variant, key, message)[i] ELSE [stack |-> i]
    BY <1>3, <1>9, <2>1
  <2>2. InRange' = InRange
    BY <1>3 DEF InRange
  <2> QED
    BY <1>3, <1>10, <2>1, <2>2 DEF MacCorrect, IsMac
<1>12. ctx' = [inside |-> a, outside |-> b,
               inside_reinit |-> ctx.inside_reinit, outside_reinit |-> ctx.outside_reinit]
  BY <1>3, <1>4 DEF IsContext
<1>13. /\ ctx'.inside = a /\ ctx'.outside = b
       /\ ctx'.inside_reinit = ctx.inside_reinit /\ ctx'.outside_reinit = ctx.outside_reinit
  BY <1>12
<1>14. IsContext(ctx') /\ ctx' # NoContext
  BY <1>12, <1>13, NotEmpty DEF IsContext
<1>15. ContextHolds'
  BY <1>3, <1>4, <1>10, <1>13, <1>14 DEF ContextHolds, KeyInRange
<1>16. variant' \in Variants /\ key' \in Seq(KeyBytes) /\ message' \in Seq(MessageBytes)
  BY <1>2, <1>3 DEF MacInv
<1> QED
  BY <1>11, <1>14, <1>15, <1>16 DEF MacInv

LEMMA ReinitMac == ASSUME MacInv, hmac_reinit PROVE MacInv'
<1>1. Sized(variant)
  BY VariantsSized DEF MacInv
<1>2. /\ mac # <<>> /\ message' = <<>> /\ mac' = <<>> /\ UNCHANGED <<variant, key>>
      /\ ctx' = [ctx EXCEPT !.inside = ctx.inside_reinit, !.outside = ctx.outside_reinit]
  BY DEF hmac_reinit
<1>3. /\ IsContext(ctx) /\ key \in Seq(KeyBytes)
      /\ KeyInRange => /\ Holds(variant, ctx.inside_reinit, Masked(variant, key, 54))
                       /\ Holds(variant, ctx.outside_reinit, Masked(variant, key, 92))
  BY <1>2 DEF MacInv, ContextHolds
<1>4. ctx' = [inside |-> ctx.inside_reinit, outside |-> ctx.outside_reinit,
              inside_reinit |-> ctx.inside_reinit, outside_reinit |-> ctx.outside_reinit]
  BY <1>2, <1>3 DEF IsContext
<1>5. /\ ctx'.inside = ctx.inside_reinit /\ ctx'.outside = ctx.outside_reinit
      /\ ctx'.inside_reinit = ctx.inside_reinit /\ ctx'.outside_reinit = ctx.outside_reinit
  BY <1>4
<1>6. IsContext(ctx')
  BY <1>4, <1>5 DEF IsContext
<1>7. ASSUME KeyInRange PROVE Masked(variant, key, 54) \o <<>> = Masked(variant, key, 54)
  <2>1. PICK S : Masked(variant, key, 54) \in Seq(S)
    BY <1>1, <1>3, <1>7, MaskedSeq DEF KeyInRange
  <2> QED
    BY <2>1, ConcatEmptySeq
<1>8. ContextHolds'
  BY <1>2, <1>3, <1>5, <1>6, <1>7 DEF ContextHolds, Inner, InRange, KeyInRange
<1>9. message' \in Seq(MessageBytes) /\ variant' \in Variants /\ key' \in Seq(KeyBytes)
  BY <1>2 DEF MacInv
<1>10. MacCorrect'
  BY <1>2, NoMac
<1> QED
  BY <1>2, <1>8, <1>9, <1>10 DEF MacInv

LEMMA NextMac == ASSUME MacInv, [Next]_vars PROVE MacInv'
<1>1. ASSUME NEW v \in Variants, NEW size \in 0 .. v.block + MaxLonger, init(v, size)
      PROVE  MacInv'
  BY <1>1, init_Mac
<1>2. ASSUME NEW size \in 0 .. MaxPiece, hmac_update(size) PROVE MacInv'
  <2>1. size \in Nat
    BY BoundAssumption
  <2> QED
    BY <1>2, <2>1, UpdateMac
<1>3. ASSUME NEW mac_size \in MacSize, hmac_final(mac_size) PROVE MacInv'
  BY <1>3, FinalMac
<1>4. CASE hmac_reinit
  BY <1>4, ReinitMac
<1>5. CASE UNCHANGED vars
  BY <1>5 DEF vars, MacInv, ContextHolds, Inner, InRange, KeyInRange, MacCorrect, IsMac
<1> QED
  BY <1>1, <1>2, <1>3, <1>4, <1>5 DEF Next

\* The MAC is that of the standard (hmac_sha224 to hmac_sha512): whatever the
\* sizes of blocks and digests, the pieces the message comes in and the
\* lengths of key and message as long as their bits can be counted in an
\* unsigned int, and again after every reinit.
THEOREM MacOfStandard == Spec => []MacCorrect
<1>1. Init => MacInv
  BY InitMac
<1>2. MacInv /\ [Next]_vars => MacInv'
  BY NextMac
<1>3. MacInv => MacCorrect
  BY DEF MacInv
<1> QED
  BY <1>1, <1>2, <1>3, PTL DEF Spec

(***************************************************************************)
(* What a context holds, put back together                                 *)
(***************************************************************************)
\* A set of numbers has a least element.
LEMMA Least ==
  ASSUME NEW T, T \subseteq Nat, T # {}
  PROVE  \E x \in T : \A y \in T : x <= y
<1> DEFINE R == OpToRel(<, Nat)
<1>1. IsWellFoundedOn(R, Nat)
  BY NatLessThanWellFounded
<1>2. \A x, y \in Nat : x < y => <<x, y>> \in R
  BY DEF OpToRel
<1> HIDE DEF R
<1>3. PICK x \in T : \A y \in T : ~ (<<y, x>> \in R)
  BY <1>1, WFMin
<1>4. \A y \in T : ~(y < x)
  BY <1>2, <1>3
<1> QED
  BY <1>4

LEMMA SubSeqJoin ==
  ASSUME NEW S, NEW s \in Seq(S), NEW a \in Nat, NEW b \in Nat, a <= b, b <= Len(s)
  PROVE  SubSeq(s, 1, a) \o SubSeq(s, a + 1, b) = SubSeq(s, 1, b)
<1> DEFINE p == SubSeq(s, 1, a)
           q == SubSeq(s, a + 1, b)
           r == SubSeq(s, 1, b)
           c == p \o q
<1>1. p \in Seq(S) /\ Len(p) = a /\ \A i \in 1 .. a : p[i] = s[i]
  <2>1. a <= Len(s) /\ 1 \in Nat \ {0} /\ 1 <= a + 1 /\ a - 1 + 1 = a
    OBVIOUS
  <2>2. /\ p \in Seq(S) /\ Len(p) = a - 1 + 1
        /\ \A i \in 1 .. a - 1 + 1 : p[i] = s[1 + i - 1]
    BY <2>1, SubSeqFacts
  <2> QED
    BY <2>1, <2>2
<1>2. q \in Seq(S) /\ Len(q) = b - a /\ \A i \in 1 .. b - a : q[i] = s[a + i]
  <2>1. a + 1 \in Nat \ {0} /\ a + 1 <= b + 1 /\ b - (a + 1) + 1 = b - a
    OBVIOUS
  <2>2. /\ q \in Seq(S) /\ Len(q) = b - (a + 1) + 1
        /\ \A i \in 1 .. b - (a + 1) + 1 : q[i] = s[(a + 1) + i - 1]
    BY <2>1, SubSeqFacts
  <2> QED
    BY <2>1, <2>2
<1>3. r \in Seq(S) /\ Len(r) = b /\ \A i \in 1 .. b : r[i] = s[i]
  <2>1. 1 \in Nat \ {0} /\ 1 <= b + 1 /\ b - 1 + 1 = b
    OBVIOUS
  <2>2. /\ r \in Seq(S) /\ Len(r) = b - 1 + 1
        /\ \A i \in 1 .. b - 1 + 1 : r[i] = s[1 + i - 1]
    BY <2>1, SubSeqFacts
  <2> QED
    BY <2>1, <2>2
<1> HIDE DEF p, q, r
<1>4. Joined(S, c, p, q)
  BY <1>1, <1>2, ConcatJoins
<1> HIDE DEF c
<1>5. c \in Seq(S) /\ Len(c) = b
  BY <1>1, <1>2, <1>4 DEF Joined
<1>6. ASSUME NEW i \in 1 .. b PROVE c[i] = r[i]
  <2>1. CASE i <= a
    <3>1. i \in 1 .. a
      BY <2>1
    <3> QED
      BY <1>1, <1>3, <1>4, <3>1 DEF Joined
  <2>2. CASE ~(i <= a)
    <3>1. PICK k \in 1 .. b - a : i = a + k
      <4>1. i - a \in 1 .. b - a /\ i = a + (i - a)
        BY <2>2
      <4> QED
        BY <4>1
    <3>2. c[a + k] = q[k]
      BY <1>1, <1>2, <1>4 DEF Joined
    <3> QED
      BY <1>2, <1>3, <3>1, <3>2
  <2> QED
    BY <2>1, <2>2
<1>7. c = r
  BY <1>3, <1>5, <1>6, SeqEqual
<1> QED
  BY <1>7 DEF c, p, q, r

\* The bytes at the end of one sequence are those at the beginning of another.
LEMMA SameBytes ==
  ASSUME NEW S, NEW s \in Seq(S), NEW t \in Seq(S), NEW a \in Nat, NEW k \in Nat,
         k <= Len(s), Len(t) = a + k, \A j \in 1 .. k : s[j] = t[a + j]
  PROVE  SubSeq(s, 1, k) = SubSeq(t, a + 1, Len(t))
<1> DEFINE p == SubSeq(s, 1, k)
           q == SubSeq(t, a + 1, Len(t))
<1>1. p \in Seq(S) /\ Len(p) = k /\ \A i \in 1 .. k : p[i] = s[i]
  <2>1. 1 \in Nat \ {0} /\ 1 <= k + 1 /\ k - 1 + 1 = k
    OBVIOUS
  <2>2. /\ p \in Seq(S) /\ Len(p) = k - 1 + 1
        /\ \A i \in 1 .. k - 1 + 1 : p[i] = s[1 + i - 1]
    BY <2>1, SubSeqFacts
  <2> QED
    BY <2>1, <2>2
<1>2. q \in Seq(S) /\ Len(q) = k /\ \A i \in 1 .. k : q[i] = t[a + i]
  <2> DEFINE b == Len(t)
  <2>1. b \in Nat /\ a + 1 \in Nat \ {0} /\ a + 1 <= b + 1 /\ b - (a + 1) + 1 = k
    OBVIOUS
  <2>2. b <= Len(t) /\ q = SubSeq(t, a + 1, b)
    OBVIOUS
  <2> HIDE DEF b, q
  <2>3. /\ SubSeq(t, a + 1, b) \in Seq(S) /\ Len(SubSeq(t, a + 1, b)) = b - (a + 1) + 1
        /\ \A i \in 1 .. b - (a + 1) + 1 : SubSeq(t, a + 1, b)[i] = t[(a + 1) + i - 1]
    BY <2>1, <2>2, SubSeqFacts
  <2> QED
    BY <2>1, <2>2, <2>3
<1> HIDE DEF p, q
<1>3. \A i \in 1 .. k : p[i] = q[i]
  BY <1>1, <1>2
<1>4. p = q
  BY <1>1, <1>2, <1>3, SeqEqual
<1> QED
  BY <1>4 DEF p, q

\* What FlattenSeq recurs by.
Flattens(seqs, f) ==
    f = [i \in 1 .. Len(seqs) |-> IF i = 1 THEN seqs[i] ELSE f[i - 1] \o seqs[i]]

LEMMA FlattenIs ==
  ASSUME NEW seqs, Len(seqs) # 0
  PROVE  FlattenSeq(seqs) = (CHOOSE f : Flattens(seqs, f))[Len(seqs)]
  BY DEF FlattenSeq, Flattens

\* The blocks one after the other are the bytes they were cut from.
LEMMA FlatCut ==
  ASSUME NEW B \in Nat \ {0}, NEW S, NEW s \in Seq(S), NEW n \in Nat, Times(n, B) <= Len(s)
  PROVE  FlattenSeq(Cut(B, s, n)) = SubSeq(s, 1, Times(n, B))
<1> DEFINE seqs == Cut(B, s, n)
           g == [i \in 1 .. n |-> SubSeq(s, 1, Times(i, B))]
<1>1. Len(seqs) = n
  BY CutSeq
<1>2. CASE n = 0
  <2>1. seqs = <<>> /\ Times(n, B) = 0
    BY <1>2, TimesFew DEF Cut
  <2>2. SubSeq(s, 1, 0) = <<>>
    OBVIOUS
  <2> QED
    BY <1>1, <1>2, <2>1, <2>2 DEF FlattenSeq
<1>3. CASE n # 0
  <2>1. \A i \in 1 .. n : seqs[i] = SubSeq(s, Times(i - 1, B) + 1, Times(i, B))
    BY DEF Cut
  <2>2. ASSUME NEW i \in 1 .. n, i # 1
        PROVE  g[i] = g[i - 1] \o seqs[i]
    <3>1. i \in Nat \ {0} /\ i - 1 \in 1 .. n /\ i <= n
      BY <2>2
    <3>2. /\ Times(i - 1, B) = Times(i, B) - B /\ Times(i - 1, B) \in Nat /\ Times(i, B) \in Nat
          /\ Times(i, B) <= Times(n, B) /\ Times(n, B) \in Nat
      BY <3>1, TimesPred, TimesLe, TimesNat
    <3>3. Times(i - 1, B) <= Times(i, B) /\ Times(i, B) <= Len(s)
      BY <3>2
    <3>4. SubSeq(s, 1, Times(i - 1, B)) \o SubSeq(s, Times(i - 1, B) + 1, Times(i, B))
            = SubSeq(s, 1, Times(i, B))
      BY <3>2, <3>3, SubSeqJoin
    <3> QED
      BY <2>1, <3>1, <3>4
  <2>3. g[1] = seqs[1]
    <3>1. 1 \in 1 .. n /\ 1 - 1 = 0
      BY <1>3
    <3>2. Times(0, B) = 0
      BY TimesFew
    <3> QED
      BY <2>1, <3>1, <3>2
  <2>4. g = [i \in 1 .. n |-> g[i]]
    OBVIOUS
  <2>5. FlattenSeq(seqs) = (CHOOSE f : Flattens(seqs, f))[n]
    BY <1>1, <1>3, FlattenIs
  <2>6. g[n] = SubSeq(s, 1, Times(n, B))
    <3>1. n \in 1 .. n
      BY <1>3
    <3> QED
      BY <3>1
  <2> HIDE DEF g, seqs
  <2>7. Flattens(seqs, g)
    <3>1. \A i \in 1 .. n : g[i] = IF i = 1 THEN seqs[i] ELSE g[i - 1] \o seqs[i]
      BY <2>2, <2>3
    <3>2. g = [i \in 1 .. n |-> IF i = 1 THEN seqs[i] ELSE g[i - 1] \o seqs[i]]
      BY <2>4, <3>1
    <3> QED
      BY <1>1, <3>2 DEF Flattens
  <2>8. ASSUME NEW f, Flattens(seqs, f) PROVE f[n] = g[n]
    <3> DEFINE T == {i \in 1 .. n : f[i] # g[i]}
    <3>1. \A i \in 1 .. n : f[i] = IF i = 1 THEN seqs[i] ELSE f[i - 1] \o seqs[i]
      BY <1>1, <2>8 DEF Flattens
    <3>2. CASE T = {}
      BY <1>3, <3>2
    <3>3. CASE T # {}
      <4>1. PICK x \in T : \A y \in T : x <= y
        <5>1. T \subseteq Nat
          OBVIOUS
        <5> HIDE DEF T
        <5> QED
          BY <3>3, <5>1, Least
      <4>2. x \in 1 .. n /\ f[x] # g[x]
        OBVIOUS
      <4>3. x # 1
        BY <2>3, <3>1, <4>2
      <4>4. x - 1 \in 1 .. n /\ ~(x <= x - 1)
        BY <4>2, <4>3
      <4>5. f[x - 1] = g[x - 1]
        BY <4>1, <4>4
      <4> QED
        BY <2>2, <3>1, <4>2, <4>3, <4>5
    <3> QED
      BY <3>2, <3>3
  <2>9. Flattens(seqs, CHOOSE f : Flattens(seqs, f))
    BY <2>7
  <2> QED
    BY <2>5, <2>8, <2>9, <2>6 DEF seqs
<1> QED
  BY <1>2, <1>3

Whole(v, c, m) ==
    /\ c.len < v.block
    /\ c.tot_len = Len(c.h.blocks) * v.block
    /\ FlattenSeq(c.h.blocks) \o SubSeq(c.block, 1, c.len) = m

LEMMA HoldsWhole ==
  ASSUME NEW v, Sized(v), NEW c, NEW m, Holds(v, c, m)
  PROVE  Whole(v, c, m)
<1> DEFINE B == v.block
<1>1. B \in Nat \ {0}
  BY DEF Sized
<1>2. PICK S, n, block, len : c = State(v, m, n, block, len) /\ Rest(B, S, m, n, block, len)
  BY DEF Holds
<1>3. /\ c.h.blocks = Cut(B, m, n) /\ c.block = block /\ c.len = len /\ c.tot_len = Times(n, B)
  BY <1>2 DEF State
<1> HIDE DEF B
<1>4. /\ m \in Seq(S) /\ block \in Seq(S) /\ Len(block) = B + B /\ n \in Nat
      /\ len \in Nat /\ len < B /\ Times(n, B) \in Nat /\ Len(m) = Times(n, B) + len
      /\ \A j \in 1 .. len : block[j] = m[Times(n, B) + j]
  <2>1. Sizes(B, S, m, n, block, len)
    BY <1>1, <1>2, RestSizes
  <2>2. \A j \in 1 .. len : block[j] = m[Times(n, B) + j]
    BY <1>2 DEF Rest
  <2> QED
    BY <2>1, <2>2 DEF Sizes
<1> DEFINE a == Times(n, B)
<1>5. a \in Nat /\ a <= Len(m) /\ Len(m) \in Nat /\ len <= Len(block) /\ len = Len(m) - a
  BY <1>1, <1>4
<1>6. Len(Cut(B, m, n)) = n /\ FlattenSeq(Cut(B, m, n)) = SubSeq(m, 1, a)
  BY <1>1, <1>4, <1>5, CutSeq, FlatCut
<1>7. \A j \in 1 .. len : block[j] = m[a + j]
  BY <1>4
<1> HIDE DEF a
<1>8. SubSeq(block, 1, len) = SubSeq(m, a + 1, Len(m))
  <2>1. Len(m) = a + len
    BY <1>4 DEF a
  <2> QED
    BY <1>4, <1>5, <1>7, <2>1, SameBytes
<1>9. SubSeq(m, 1, a) \o SubSeq(m, a + 1, Len(m)) = SubSeq(m, 1, Len(m))
  <2> DEFINE b == Len(m)
  <2>1. a \in Nat /\ b \in Nat /\ a <= b /\ b <= Len(m) /\ m \in Seq(S)
    BY <1>4, <1>5
  <2> HIDE DEF b
  <2>2. SubSeq(m, 1, a) \o SubSeq(m, a + 1, b) = SubSeq(m, 1, b)
    BY <2>1, SubSeqJoin
  <2> QED
    BY <2>2 DEF b
<1>10. SubSeq(m, 1, Len(m)) = m
  BY <1>4
<1>11. c.tot_len = Len(c.h.blocks) * B
  BY <1>3, <1>6 DEF Times
<1> QED
  BY <1>3, <1>4, <1>6, <1>8, <1>9, <1>10, <1>11 DEF Whole, B

\* A message of one block is all in what is hashed.
LEMMA BlockWhole ==
  ASSUME NEW v, Sized(v), NEW c, NEW m, Holds(v, c, m), Len(m) = v.block
  PROVE  FlattenSeq(c.h.blocks) = m
<1> DEFINE B == v.block
<1>1. B \in Nat \ {0}
  BY DEF Sized
<1>2. PICK S, n, block, len : c = State(v, m, n, block, len) /\ Rest(B, S, m, n, block, len)
  BY DEF Holds
<1>3. c.h.blocks = Cut(B, m, n)
  BY <1>2 DEF State
<1>4. Len(m) = B
  OBVIOUS
<1> HIDE DEF B
<1>5. /\ m \in Seq(S) /\ n \in Nat
      /\ len \in Nat /\ len < B /\ Times(n, B) \in Nat /\ Len(m) = Times(n, B) + len
  <2>1. Sizes(B, S, m, n, block, len)
    BY <1>1, <1>2, RestSizes
  <2> QED
    BY <2>1 DEF Sizes
<1>6. Times(n, B) = B
  <2>1. n # 0
    BY <1>1, <1>4, <1>5, TimesFew
  <2>2. 1 <= n
    BY <1>5, <2>1
  <2>3. Times(1, B) <= Times(n, B) /\ Times(1, B) = B
    BY <1>1, <1>5, <2>2, TimesLe, TimesFew
  <2> QED
    BY <1>1, <1>4, <1>5, <2>3
<1>7. FlattenSeq(Cut(B, m, n)) = SubSeq(m, 1, B)
  BY <1>1, <1>4, <1>5, <1>6, FlatCut
<1>8. SubSeq(m, 1, Len(m)) = m
  BY <1>5
<1> QED
  BY <1>3, <1>4, <1>7, <1>8

\* The context holds every byte of the padded key and of the message once and in
\* order (sha_update of each variant), whatever the sizes of the blocks, the
\* pieces the message comes in and the lengths of key and message as long as
\* their bits can be counted, and again after every reinit.
THEOREM MacLosesNothing == Spec => []NothingLost
<1>1. Init => MacInv
  BY InitMac
<1>2. MacInv /\ [Next]_vars => MacInv'
  BY NextMac
<1>3. MacInv => NothingLost
  <2> SUFFICES ASSUME MacInv, InRange, ctx # NoContext, mac = <<>>
               PROVE  /\ ctx.inside.len < variant.block
                      /\ ctx.inside.tot_len = Len(ctx.inside.h.blocks) * variant.block
                      /\ FlattenSeq(ctx.inside.h.blocks) \o SubSeq(ctx.inside.block, 1, ctx.inside.len)
                           = FlattenSeq(ctx.inside_reinit.h.blocks) \o message
    BY DEF NothingLost
  <2> DEFINE padded == Masked(variant, key, 54)
  <2>1. Sized(variant)
    BY VariantsSized DEF MacInv
  <2>2. Holds(variant, ctx.inside_reinit, padded) /\ Holds(variant, ctx.inside, padded \o message)
    BY DEF MacInv, ContextHolds, Inner, InRange, KeyInRange
  <2>3. Len(padded) = variant.block
    BY <2>1, MaskedSeq DEF MacInv, InRange
  <2> HIDE DEF padded
  <2>4. FlattenSeq(ctx.inside_reinit.h.blocks) = padded
    BY <2>1, <2>2, <2>3, BlockWhole
  <2>5. Whole(variant, ctx.inside, padded \o message)
    BY <2>1, <2>2, HoldsWhole
  <2> QED
    BY <2>4, <2>5 DEF Whole
<1> QED
  BY <1>1, <1>2, <1>3, PTL DEF Spec
=============================================================================
