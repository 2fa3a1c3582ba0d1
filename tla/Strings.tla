------------------------------ MODULE Strings ------------------------------
(***************************************************************************)
(* misc/utils.c on buffers of characters, which the functions change in    *)
(* place, and the callbacks that move bytes between curl and a buffer.     *)
(* A buffer is a function on its positions 1 .. n; a write outside of it   *)
(* enlarges the domain.                                                    *)
(***************************************************************************)
EXTENDS Integers, Sequences, FiniteSetsExt

NUL == "NUL"

Written(buf, at, s) ==
    [i \in DOMAIN buf \cup at .. at + Len(s) - 1 |->
        IF i \in at .. at + Len(s) - 1 THEN s[i - at + 1] ELSE buf[i]]

Piece(buf, at, n) == [i \in 1 .. n |-> buf[at + i - 1]]
Zeros(n) == [i \in 1 .. n |-> NUL]

strlen(buf, at) == Min({i \in DOMAIN buf : i >= at /\ buf[i] = NUL}) - at
Text(buf) == Piece(buf, 1, strlen(buf, 1))

(***************************************************************************)
(* trim, unquote, replace                                                  *)
(***************************************************************************)
WHITE_SPACE == {" "}

\* Mutated: the tail stays.
trim_head(buf) ==
    LET scan == Min({i \in DOMAIN buf : buf[i] \notin WHITE_SPACE})
        len  == strlen(buf, scan)
    IN  Written(Written(buf, 1, Piece(buf, scan, len)), len + 1, <<NUL>>)

trim(buf) ==
    LET scan  == Min({i \in DOMAIN buf : buf[i] \notin WHITE_SPACE})
        len   == strlen(buf, scan)
        moved == Written(buf, 1, Piece(buf, scan, len))
        itr   == Max({0} \cup {i \in 1 .. len : moved[i] \notin WHITE_SPACE})
    IN  Written(moved, itr + 1, <<NUL>>)

\* One character: buf_itr writes behind src_itr, which reads.
RECURSIVE Unquoted(_, _, _, _)
Unquoted(buf, buf_itr, src_itr, quote) ==
    CASE buf[src_itr] = NUL   -> Written(buf, buf_itr, Zeros(src_itr - buf_itr))
      [] buf[src_itr] = quote -> Unquoted(buf, buf_itr, src_itr + 1, quote)
      [] OTHER -> Unquoted(Written(buf, buf_itr, <<buf[src_itr]>>),
                           buf_itr + 1, src_itr + 1, quote)

\* Mutated: a terminator, and the rest of the buffer stays.
unquote_ended(buf, quote) ==
    Written(buf, 1, Append(SelectSeq(Text(buf), LAMBDA c : c # quote), NUL))

unquote(buf, quote) == Unquoted(buf, 1, 1, quote)

\* strstr: the occurrences of s from at on.
Occurrences(buf, at, s) ==
    {i \in at .. at + strlen(buf, at) - Len(s) : Piece(buf, i, Len(s)) = s}

\* Mutated: the reader goes on behind as many characters as were written.
RECURSIVE ReplacedShort(_, _, _, _, _)
ReplacedShort(buf, ptr, itr, oldstr, newstr) ==
    LET found == Occurrences(buf, itr, oldstr)
        occur == Min(found)
        copy  == Written(buf, ptr, Piece(buf, itr, occur - itr) \o newstr)
    IN  IF found = {} THEN Written(buf, ptr, Piece(buf, itr, strlen(buf, itr) + 1))
        ELSE ReplacedShort(copy, ptr + occur - itr + Len(newstr),
                           occur + Len(newstr), oldstr, newstr)

\* What is left to do with the reader at itr and the writer at ptr.
RECURSIVE Replaced(_, _, _, _, _)
Replaced(buf, ptr, itr, oldstr, newstr) ==
    LET found == Occurrences(buf, itr, oldstr)
        occur == Min(found)
        copy  == Written(buf, ptr, Piece(buf, itr, occur - itr) \o newstr)
    IN  IF found = {} THEN Written(buf, ptr, Piece(buf, itr, strlen(buf, itr) + 1))
        ELSE Replaced(copy, ptr + occur - itr + Len(newstr),
                      occur + Len(oldstr), oldstr, newstr)

replace(buf, oldstr, newstr) == Replaced(buf, 1, 1, oldstr, newstr)

(***************************************************************************)
(* The callbacks of curl.  A response is its buffer with buf_left and      *)
(* buf_offset, a request what is left of its buffer.                       *)
(***************************************************************************)
\* Mutated: the buffer is not cleared.
wt_callback_dirty(rsp, data) ==
    LET byte == IF Len(data) < rsp.buf_left THEN Len(data) ELSE rsp.buf_left
    IN  [buffer     |-> Written(rsp.buffer, rsp.buf_offset + 1, SubSeq(data, 1, byte)),
         buf_offset |-> rsp.buf_offset + byte,
         buf_left   |-> rsp.buf_left - byte,
         ret        |-> byte]

wt_callback(rsp, data) ==
    LET byte  == IF Len(data) < rsp.buf_left THEN Len(data) ELSE rsp.buf_left
        clean == IF rsp.buf_offset = 0 THEN Written(rsp.buffer, 1, Zeros(rsp.buf_left))
                 ELSE rsp.buffer
    IN  [buffer     |-> Written(clean, rsp.buf_offset + 1, SubSeq(data, 1, byte)),
         buf_offset |-> rsp.buf_offset + byte,
         buf_left   |-> rsp.buf_left - byte,
         ret        |-> byte]

\* Mutated: the request does not advance.
rd_callback_still(request, size) ==
    LET copy_len == IF size < Len(request) THEN size ELSE Len(request)
    IN  [sent |-> SubSeq(request, 1, copy_len), left |-> request]

rd_callback(request, size) ==
    LET copy_len == IF size < Len(request) THEN size ELSE Len(request)
    IN  [sent |-> SubSeq(request, 1, copy_len),
         left |-> SubSeq(request, copy_len + 1, Len(request))]

(***************************************************************************)
(* base16lower: the digits of the first len bits.                          *)
(***************************************************************************)
\* Mutated: the low half first.
base16_swapped(stream, len) ==
    [j \in 1 .. len \div 4 |->
        LET i == 4 * (j - 1)
        IN  IF i % 8 # 0 THEN stream[i \div 8 + 1] \div 16 ELSE stream[i \div 8 + 1] % 16]

base16lower(stream, len) ==
    [j \in 1 .. len \div 4 |->
        LET i == 4 * (j - 1)
        IN  IF i % 8 # 0 THEN stream[i \div 8 + 1] % 16 ELSE stream[i \div 8 + 1] \div 16]
=============================================================================
