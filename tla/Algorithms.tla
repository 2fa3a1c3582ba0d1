----------------------------- MODULE Algorithms -----------------------------
(***************************************************************************)
(* The sequential algorithms of the program against what they are for, on  *)
(* every input up to a bound.  A behaviour writes an input of one kind,    *)
(* one item at a time: a text, the bits of a number, the sizes of the      *)
(* pieces of a transfer, the lines of a configuration file.                *)
(***************************************************************************)
EXTENDS Strings, Numbers, Configure

CONSTANTS
  Characters,  \* of texts
  Keys,        \* of configuration files
  Values,      \* of their settings
  Bound        \* bound: length of an input of each kind

ASSUME BoundAssumption == Bound \in [{"text", "bits", "sizes", "lines"} -> Nat]

VARIABLES kind, input

Items == [text  |-> Characters,
          bits  |-> {0, 1},
          sizes |-> 0 .. 3,
          lines |-> [key : Keys, value : Values]]

Init == kind \in DOMAIN Items /\ input = <<>>

Extend == /\ Len(input) < Bound[kind]
          /\ \E x \in Items[kind] : input' = Append(input, x)
          /\ UNCHANGED kind

Again == input # <<>> /\ input' = <<>> /\ UNCHANGED kind

Spec == Init /\ [][Extend \/ Again]_<<kind, input>>

(***************************************************************************)
(* Texts.  The buffer has two bytes after the terminator, not zero.        *)
(***************************************************************************)
Buffer == input \o <<NUL, "x", "x">>

Untouched(buf) ==
    /\ DOMAIN buf = DOMAIN Buffer
    /\ \A i \in Len(input) + 2 .. Len(Buffer) : buf[i] = "x"

\* A text without the characters of a set at its ends.
Bare(s, set) ==
    LET I == {i \in DOMAIN s : s[i] \notin set}
    IN  IF I = {} THEN <<>> ELSE SubSeq(s, Min(I), Max(I))

\* trim leaves the text without the white space at its ends, in its buffer.
TrimCorrect ==
    kind = "text" =>
        Untouched(trim(Buffer)) /\ Text(trim(Buffer)) = Bare(input, WHITE_SPACE)

Unquote == unquote(Buffer, "q")

\* A text with quotes at its ends only, like the strings of JSON the driver
\* has: unquote, reading and writing one buffer, leaves what stands between
\* them and clears the bytes it frees ("Clear rest buffer").
UnquoteCorrect ==
    kind = "text" /\ (\A i \in DOMAIN Bare(input, {"q"}) : Bare(input, {"q"})[i] # "q") =>
        LET kept == Bare(input, {"q"})
        IN  /\ Untouched(Unquote)
            /\ Piece(Unquote, 1, Len(input) + 1) = kept \o Zeros(Len(input) + 1 - Len(kept))

\* "Remove heading and tailing quote's": and none of those between.  The code
\* takes every quote away.
UnquoteEnds == kind = "text" => Text(Unquote) = Bare(input, {"q"})

\* The text with oldstr replaced from the left, as a definition.
RECURSIVE Rewritten(_, _, _)
Rewritten(s, oldstr, newstr) ==
    IF Len(s) < Len(oldstr) THEN s
    ELSE IF SubSeq(s, 1, Len(oldstr)) = oldstr
    THEN newstr \o Rewritten(SubSeq(s, Len(oldstr) + 1, Len(s)), oldstr, newstr)
    ELSE <<Head(s)>> \o Rewritten(Tail(s), oldstr, newstr)

\* replace in place, the reader never overtaken by the writer: for the one
\* pair the driver uses, and for the pairs of a period and of nothing.
ReplaceCorrect ==
    kind = "text" =>
        \A p \in {<< <<"\\", "/">>, <<"/">> >>, << <<"/", "/">>, <<"/">> >>,
                  << <<"a", "/", "a">>, <<>> >>} :
            LET buf == replace(Buffer, p[1], p[2])
            IN  Untouched(buf) /\ Text(buf) = Rewritten(input, p[1], p[2])

(***************************************************************************)
(* Transfers.  The answer comes in pieces of the sizes of the input; the   *)
(* buffer holds a former answer.                                           *)
(***************************************************************************)
Size   == 5
Total(sizes) == FoldLeft(LAMBDA sum, n : sum + n, 0, sizes)
Answer(n) == [i \in 1 .. n |-> ToString(i)]
Before(i) == Total(SubSeq(input, 1, i - 1))

\* curl stops at the first piece the callback does not take whole.
Received ==
    FoldLeft(LAMBDA rsp, i :
               IF rsp.ret # rsp.want THEN rsp
               ELSE wt_callback(rsp, SubSeq(Answer(9), Before(i) + 1, Before(i) + input[i]))
                    @@ [want |-> input[i]],
             [buffer |-> [i \in 1 .. Size |-> "old"], buf_left |-> Size, buf_offset |-> 0,
              ret |-> 0, want |-> 0],
             [i \in DOMAIN input |-> i])

\* A response buffer holds the answer followed by zeros, in whatever pieces it
\* came, with nothing of the former answer; an answer that is too long is
\* cut, and curl is told.
ReceiveCorrect ==
    kind = "sizes" /\ input # <<>> =>
        LET n == Min({Total(input), Size})
        IN  /\ Received.buffer = Answer(n) \o Zeros(Size - n)
            /\ Received.ret = Received.want <=> Total(input) <= Size

Pulled ==
    FoldLeft(LAMBDA r, size : LET s == rd_callback(r.left, size)
                              IN  [sent |-> r.sent \o s.sent, left |-> s.left],
             [sent |-> <<>>, left |-> Answer(Size)], input)

\* A request is sent from its first byte to its last, each once, whatever
\* the buffers of curl hold.
SendCorrect == kind = "sizes" => Pulled.sent = Answer(Min({Total(input), Size}))

(***************************************************************************)
(* Numbers                                                                 *)
(***************************************************************************)
Number == FoldLeft(LAMBDA v, b : 2 * v + b, 0, input)

\* The signature is sent as two digits for each byte, the high half first.
Base16Correct ==
    kind = "bits" /\ Number < 256 =>
        LET hex == base16lower(<<Number, 0>>, 16)
        IN  Len(hex) = 4 /\ 16 * hex[1] + hex[2] = Number /\ hex[3] = 0 /\ hex[4] = 0

\* lsbPos finds the lowest bit of every number; so the block size that init
\* makes of a power of two in kilobytes is that many bytes.
LsbCorrect ==
    kind = "bits" =>
        /\ Number > 0 => Number % 2 ^ lsbPos(Number) = 0 /\ Number % 2 ^ (lsbPos(Number) + 1) # 0
        /\ Number <= 20 => 2 ^ (lsbPos(2 ^ Number) + 10) = 1024 * 2 ^ Number

\* blocknumber and blockoffset split a cursor into a block and a place in it.
\* s_log_block_size is the one bit the code's blockoffset clears, so that it
\* is right below two blocks and wrong from there on.
OffsetSplit ==
    kind = "bits" => /\ blockoffset(Number, 2) \in 0 .. 3
                     /\ blocknumber(Number, 2) * 4 + blockoffset(Number, 2) = Number

\* The loop of read comes to its end on a file of up to two blocks, whatever
\* it is asked for, and on a file of three if it is asked for two of them.
ReadEnds ==
    kind = "bits" /\ Number < 64 =>
        /\ \A size \in 0 .. 13, n \in 0 .. 2 : sdisk_read(Number, size, n, 2).ends
        /\ \A size \in 0 .. 8 : sdisk_read(0, size, 3, 2).ends

\* The superblock and every inode have bytes of their own.
RecordsApart ==
    kind = "bits" =>
        /\ InodeBytes(Number) \cap 0 .. sdisk_super_block - 1 = {}
        /\ InodeBytes(Number) \cap InodeBytes(Number + 1) = {}

\* "Find offset of an empty slot in directory, -1 if full": the slot lies in
\* the block of 1024 bytes.  Entries of 72 bytes, with longs of 8, do not
\* divide the block, and the code tests only where a slot begins.
SlotFits ==
    kind = "bits" =>
        LET offset == empty_dir_slot(Number, 1024)
        IN  offset # -1 => offset + sdisk_dir_entry <= 1024

(***************************************************************************)
(* Configuration                                                           *)
(***************************************************************************)
Files == [d \in 0 .. 2 |-> IF d = 0 THEN {<<[key |-> "ACCOUNT", value |-> "me"],
                                           [key |-> "BLOCKSIZE", value |-> "9"]>>} ELSE {}]

LastOf(key) == LET I == {i \in DOMAIN input : input[i].key = key}
             IN  IF I = {} THEN NULL ELSE input[Max(I)].value

\* A file of known keys that names the one disk there is, in either case or
\* first in a list:
\* the settings are those of the last lines, the disk is configured, and its
\* own file has changed none of them.
ConfigureKnown ==
    kind = "lines"
    /\ (\A i \in DOMAIN input :
          CASE input[i].key = "DISKS" -> input[i].value \in {"vdisk", "VDISK", "vdisk:oss"}
            [] input[i].key = "BLOCKSIZE" -> input[i].value \in {"1", "2"}
            [] OTHER -> input[i].key = "#")
    => \E s \in configure(input, Files) :
         /\ configure(input, Files) = {s}
         /\ s.globalSettings[SYS_BLOCKSIZE] = LastOf("BLOCKSIZE")
         /\ s.globalSettings[SYS_DISKS] = LastOf("DISKS")
         /\ s.cloudConfs[0] # Unset <=> LastOf("DISKS") # NULL

\* The block size is that of the last line that sets it, whatever else the
\* file holds.
BlockSizeKept ==
    kind = "lines" =>
        \A s \in configure(input, Files) : s.globalSettings[SYS_BLOCKSIZE] = LastOf("BLOCKSIZE")

\* "All the setting is stored as `key=value` pairs": every setting of the file
\* of a disk is found at the place its key has.  The code asks getSysConf for
\* the place, which puts all of them in the first.
SettingsKept ==
    kind = "lines" /\ (\A i \in DOMAIN input : input[i].key \in DOMAIN VdiskKey \cup {"#"}) =>
        \A conf \in configureDisk({input}), i \in DOMAIN input :
            input[i].key # "#" => conf[getDiskConf(input[i].key)] = LastOf(input[i].key)
=============================================================================
