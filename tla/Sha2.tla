-------------------------------- MODULE Sha2 --------------------------------
(***************************************************************************)
(* hmac/sha2.c: the hash of a message that comes in pieces.  A context     *)
(* keeps a buffer of two blocks, the bytes of it in use, the bytes hashed  *)
(* before, and the chaining value.                                         *)
(*                                                                         *)
(* Bytes are symbols.  The compression function is free: the chaining      *)
(* value is the initial one and the blocks that went into it.  The code    *)
(* spells the same functions out four times; they differ in their sizes    *)
(* and in where they start.  A record stands for one of these copies, the  *)
(* operators below for the functions of each.                              *)
(***************************************************************************)
EXTENDS Integers, Sequences, SequencesExt

CONSTANTS
  SHA256_BLOCK_SIZE, SHA512_BLOCK_SIZE,
  SHA224_DIGEST_SIZE, SHA256_DIGEST_SIZE, SHA384_DIGEST_SIZE, SHA512_DIGEST_SIZE,
  Length256, Length512, \* bytes a block keeps for the length: 8 and 16
  Uint                  \* numbers of an unsigned int: 2^32

ASSUME SizeAssumption ==
    /\ {SHA256_BLOCK_SIZE, SHA512_BLOCK_SIZE} \subseteq Nat
    /\ Length256 \in 1 .. SHA256_BLOCK_SIZE - 1
    /\ Length512 \in 1 .. SHA512_BLOCK_SIZE - 1
    /\ {SHA224_DIGEST_SIZE, SHA256_DIGEST_SIZE} \subseteq 1 .. SHA256_BLOCK_SIZE
    /\ {SHA384_DIGEST_SIZE, SHA512_DIGEST_SIZE} \subseteq 1 .. SHA512_BLOCK_SIZE

\* The bits of two blocks can be counted.
ASSUME UintAssumption ==
    Uint \in Nat /\ 16 * SHA256_BLOCK_SIZE < Uint /\ 16 * SHA512_BLOCK_SIZE < Uint

Sha224 == [h0 |-> "sha224_h0", block |-> SHA256_BLOCK_SIZE,
           digest |-> SHA224_DIGEST_SIZE, length |-> Length256]
Sha256 == [h0 |-> "sha256_h0", block |-> SHA256_BLOCK_SIZE,
           digest |-> SHA256_DIGEST_SIZE, length |-> Length256]
Sha384 == [h0 |-> "sha384_h0", block |-> SHA512_BLOCK_SIZE,
           digest |-> SHA384_DIGEST_SIZE, length |-> Length512]
Sha512 == [h0 |-> "sha512_h0", block |-> SHA512_BLOCK_SIZE,
           digest |-> SHA512_DIGEST_SIZE, length |-> Length512]

Byte(n)    == [byte |-> n]
Bytes(n, b) == [i \in 1 .. n |-> b]
Stack(n)   == [i \in 1 .. n |-> [stack |-> i]]   \* not initialised
Put(s, at, t) == [i \in DOMAIN s |-> IF i - at + 1 \in DOMAIN t THEN t[i - at + 1] ELSE s[i]]

\* n blocks go into a chaining value.
transf(v, h, bytes, n) ==
    [h EXCEPT !.blocks = @ \o [i \in 1 .. n |-> SubSeq(bytes, (i - 1) * v.block + 1, i * v.block)]]

sha_init(v) == [h |-> [h0 |-> v.h0, blocks |-> <<>>], block |-> Stack(2 * v.block),
                len |-> 0, tot_len |-> 0]

\* Mutated: a message that ends with the block is kept, not hashed.
sha_update_full(v, ctx, message) ==
    LET rem == Min({Len(message), v.block - ctx.len})
    IN  IF ctx.len + Len(message) <= v.block
        THEN [ctx EXCEPT !.block = Put(@, ctx.len + 1, message), !.len = @ + Len(message)]
        ELSE [ctx EXCEPT !.block = Put(@, ctx.len + 1, SubSeq(message, 1, rem)),
                         !.h = transf(v, @, Put(ctx.block, ctx.len + 1, message), 1),
                         !.len = Len(message) - rem, !.tot_len = @ + v.block]

sha_update(v, ctx, message) ==
    LET rem      == Min({Len(message), v.block - ctx.len})
        filled   == Put(ctx.block, ctx.len + 1, SubSeq(message, 1, rem))
        shifted  == SubSeq(message, rem + 1, Len(message))
        block_nb == Len(shifted) \div v.block
        rest     == SubSeq(shifted, block_nb * v.block + 1, Len(shifted))
        used     == (ctx.len + Len(message)) % Uint
    IN  IF used < v.block
        THEN [ctx EXCEPT !.block = filled, !.len = used]
        ELSE [h       |-> transf(v, transf(v, ctx.h, filled, 1), shifted, block_nb),
              block   |-> Put(filled, 1, rest),
              len     |-> Len(rest),
              tot_len |-> (ctx.tot_len + (block_nb + 1) * v.block) % Uint]

\* The bits of the message, in an unsigned int.
len_b(ctx) == (8 * (ctx.tot_len + ctx.len)) % Uint

\* Mutated: one byte fewer is kept for the end.
sha_final_tight(v, ctx) ==
    LET block_nb == IF v.block - v.length < ctx.len % v.block THEN 2 ELSE 1
        pm_len   == block_nb * v.block
        ended    == Put(ctx.block, ctx.len + 1,
                        <<Byte(128)>> \o Bytes(pm_len - ctx.len - 1, Byte(0)))
        closed   == Put(ended, pm_len, <<[bits |-> len_b(ctx)]>>)
    IN  [ctx EXCEPT !.block = closed, !.h = transf(v, @, closed, block_nb)]

\* The length is one symbol, in the last byte of those kept for it.
sha_final(v, ctx) ==
    LET block_nb == IF v.block - v.length - 1 < ctx.len % v.block THEN 2 ELSE 1
        pm_len   == block_nb * v.block
        ended    == Put(ctx.block, ctx.len + 1,
                        <<Byte(128)>> \o Bytes(pm_len - ctx.len - 1, Byte(0)))
        closed   == Put(ended, pm_len, <<[bits |-> len_b(ctx)]>>)
    IN  [ctx EXCEPT !.block = closed, !.h = transf(v, @, closed, block_nb)]

digest(v, ctx) == [i \in 1 .. v.digest |-> [of |-> sha_final(v, ctx).h, at |-> i]]

\* sha224, sha256, sha384, sha512
sha(v, message) == digest(v, sha_update(v, sha_init(v), message))
=============================================================================
