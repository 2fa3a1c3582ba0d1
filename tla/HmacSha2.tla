------------------------------ MODULE HmacSha2 ------------------------------
(***************************************************************************)
(* hmac/hmac_sha2.c: a context from init over updates to final, and again  *)
(* from reinit.  The driver signs its request for a token with it.         *)
(***************************************************************************)
EXTENDS Sha2

CONSTANTS
  MaxLonger,   \* bound: bytes of a key beyond those of a block
  MaxMessage,  \* bound: bytes of a message
  MaxPiece,    \* bound: bytes of an update
  MacSize      \* sizes of the MAC a caller asks for

ASSUME BoundAssumption ==
    {MaxLonger, MaxMessage, MaxPiece} \subseteq Nat /\ MacSize \subseteq Nat \ {0}

VARIABLES
  variant,   \* the hash function
  key,       \* the key
  ctx,       \* [inside, outside, inside_reinit, outside_reinit]
  message,   \* the bytes given since init or reinit
  mac        \* the MAC, when final has been called

vars == <<variant, key, ctx, message, mac>>

\* The functions of each family: those below, over its hash function.
hmac_sha224 == Sha224
hmac_sha256 == Sha256
hmac_sha384 == Sha384
hmac_sha512 == Sha512
Variants    == {hmac_sha224, hmac_sha256, hmac_sha384, hmac_sha512}

Xor(b, mask) == IF b = Byte(0) THEN Byte(mask) ELSE [of |-> b, xor |-> mask]

Pad(v, k, mask) == [i \in 1 .. Len(k) |-> Xor(k[i], mask)] \o Bytes(v.block - Len(k), Byte(mask))

key_used(v, k) == IF Len(k) > v.block THEN sha(v, k) ELSE k

Keyed(v, k, mask) == sha_update(v, sha_init(v), Pad(v, key_used(v, k), mask))

hmac_init(v, k) ==
    LET inside  == Keyed(v, k, 54)
        outside == Keyed(v, k, 92)
    IN  [inside |-> inside, outside |-> outside,
         inside_reinit |-> inside, outside_reinit |-> outside]

\* memcpy takes mac_size bytes of a digest, and of what lies behind it.
Mac(v, c, mac_size) ==
    LET temp == digest(v, sha_update(v, c.outside, digest(v, c.inside)))
    IN  [i \in 1 .. mac_size |-> IF i <= v.digest THEN temp[i] ELSE [stack |-> i]]

NoContext == <<>>

init(v, size) ==
    /\ ctx = NoContext
    /\ variant' = v
    /\ key' = [i \in 1 .. size |-> [key |-> i]]
    /\ ctx' = hmac_init(v, key')
    /\ message' = <<>>
    /\ mac' = <<>>

hmac_update(size) ==
    LET piece == [i \in 1 .. size |-> [msg |-> Len(message) + i]]
    IN  /\ ctx # NoContext /\ mac = <<>>
        /\ Len(message) + size <= MaxMessage
        /\ message' = message \o piece
        /\ ctx' = [ctx EXCEPT !.inside = sha_update(variant, @, piece)]
        /\ UNCHANGED <<variant, key, mac>>

hmac_final(mac_size) ==
    /\ ctx # NoContext /\ mac = <<>>
    /\ mac' = Mac(variant, ctx, mac_size)
    /\ ctx' = [ctx EXCEPT !.inside = sha_final(variant, @),
                          !.outside = sha_final(variant,
                              sha_update(variant, @, digest(variant, ctx.inside)))]
    /\ UNCHANGED <<variant, key, message>>

\* Mutated: the outer context stays.
hmac_reinit_inside ==
    /\ mac # <<>>
    /\ ctx' = [ctx EXCEPT !.inside = ctx.inside_reinit]
    /\ message' = <<>>
    /\ mac' = <<>>
    /\ UNCHANGED <<variant, key>>

hmac_reinit ==
    /\ mac # <<>>
    /\ ctx' = [ctx EXCEPT !.inside = ctx.inside_reinit, !.outside = ctx.outside_reinit]
    /\ message' = <<>>
    /\ mac' = <<>>
    /\ UNCHANGED <<variant, key>>

Init == /\ variant \in Variants
        /\ ctx = NoContext
        /\ key = <<>> /\ message = <<>> /\ mac = <<>>

Next == \/ \E v \in Variants : \E size \in 0 .. v.block + MaxLonger : init(v, size)
        \/ \E size \in 0 .. MaxPiece : hmac_update(size)
        \/ \E mac_size \in MacSize : hmac_final(mac_size)
        \/ hmac_reinit

Spec == Init /\ [][Next]_vars

(***************************************************************************)
(* The standards: FIPS 180-2, RFC 2104.                                    *)
(***************************************************************************)
Padded(v, m) ==
    LET used  == Len(m) + 1 + v.length
        total == ((used + v.block - 1) \div v.block) * v.block
    IN  m \o <<Byte(128)>> \o Bytes(total - Len(m) - 2, Byte(0)) \o <<[bits |-> 8 * Len(m)]>>

Blocks(v, s) == [i \in 1 .. Len(s) \div v.block |-> SubSeq(s, (i - 1) * v.block + 1, i * v.block)]

Hash(v, m) == [i \in 1 .. v.digest |->
                  [of |-> [h0 |-> v.h0, blocks |-> Blocks(v, Padded(v, m))], at |-> i]]

Hmac(v, k, m) ==
    LET short == IF Len(k) > v.block THEN Hash(v, k) ELSE k
        full  == short \o Bytes(v.block - Len(short), Byte(0))
        Masked(mask) == [i \in 1 .. v.block |-> Xor(full[i], mask)]
    IN  Hash(v, Masked(92) \o Hash(v, Masked(54) \o m))

\* The bits of the key, and those of a padded key with the message behind it,
\* can be counted in an unsigned int: a key, or a message and a block, short of 2^29 bytes.
InRange == 8 * Len(key) < Uint /\ 8 * (variant.block + Len(message)) < Uint

IsMac(m) ==
    \A i \in DOMAIN mac :
        mac[i] = IF i <= variant.digest THEN m[i] ELSE [stack |-> i]

\* The MAC is that of the standard, for every length of key and message in
\* range, in whatever pieces the message came, for every use of a context
\* after a reinit, and for a MAC of any size up to the digest.  What a caller
\* takes beyond it is of the stack.
MacCorrect == InRange => IsMac(Hmac(variant, key, message))

\* "FIPS 180-2 SHA-224/256/384/512 implementation": the standard has messages
\* of any length below 2^64 bits.  The code counts the bits in an unsigned int, and
\* what is longer is closed with a length that has wrapped.
MacOfAnyLength == IsMac(Hmac(variant, key, message))

\* The context holds every byte of the padded key and the message once and in
\* order: the blocks hashed, then the bytes in use, which never fill a block.
NothingLost ==
    InRange /\ ctx # NoContext /\ mac = <<>> =>
        LET c == ctx.inside
        IN  /\ c.len < variant.block
            /\ c.tot_len = Len(c.h.blocks) * variant.block
            /\ FlattenSeq(c.h.blocks) \o SubSeq(c.block, 1, c.len)
                 = FlattenSeq(ctx.inside_reinit.h.blocks) \o message
=============================================================================
