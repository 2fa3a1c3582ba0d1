--------------------------- MODULE MappingProofs ---------------------------
(***************************************************************************)
(* Proofs about the mapping file with one thread, for any blocks.          *)
(***************************************************************************)
EXTENDS MappingFile, FiniteSetTheorems, TLAPS

Serial == \A t, u \in Thread : t = u

(***************************************************************************)
(* The inductive invariant                                                 *)
(***************************************************************************)
Label == {"idle", "seek", "reseek", "read", "mapped", "post", "authenticate",
          "access", "open", "place", "write"}
Frame == [pc : Label, op : {"none", "get", "put"}, blk : Block \cup {0}, fid : SUBSET Block,
          mode : {"none", "rb+", "wb+"}]

FrameOK == /\ frame \in [Thread -> Frame]
           /\ \A t \in Thread : frame[t].pc # "idle" => frame[t].blk \in Block

\* Every identifier is at the place of its block.
Right(file) == DOMAIN file \subseteq Block /\ \A p \in DOMAIN file : file[p] = p

\* There is one stream at most, and no file without an opening.
StreamOK ==
    /\ DOMAIN stream = IF mapping = NULL THEN {} ELSE {mapping}
    /\ Right(disk)
    /\ mapping # NULL => there /\ Right(stream[mapping].written)
    /\ ~there => DOMAIN disk = {}

\* The position is that of the block about to be read or written, and the file
\* is emptied only when it was not there.
PlaceOK ==
    \A t \in Thread :
        /\ frame[t].pc \in {"read", "write"} => mapping # NULL /\ stream[mapping].pos = frame[t].blk
        /\ frame[t].pc \in {"access", "open"} => mapping = NULL
        /\ frame[t].pc = "open" /\ frame[t].mode = "wb+" => ~there

IInv == FrameOK /\ StreamOK /\ PlaceOK /\ FidCorrect

(***************************************************************************)
(* Lemmas                                                                  *)
(***************************************************************************)
LEMMA EmptyRight == Right(Empty) /\ DOMAIN Empty = {}
  BY DEF Right, Empty

LEMMA OverRight ==
  ASSUME NEW f, NEW g, Right(f), Right(g)
  PROVE  Right(Over(f, g)) /\ DOMAIN Over(f, g) = DOMAIN f \cup DOMAIN g
  BY DEF Right, Over

LEMMA NobodyOK == Nobody \in [Thread -> Frame] /\ \A t \in Thread : Nobody[t].pc = "idle"
  BY DEF Nobody, Idle, Frame, Label

\* With one thread, the frame that moves is the only one.
LEMMA GotoFrame ==
  ASSUME Serial, FrameOK, NEW t \in Thread, NEW l \in Label, NEW f \in Frame, Goto(t, l, f)
  PROVE  /\ frame' \in [Thread -> Frame]
         /\ \A u \in Thread : /\ frame'[u].pc = l /\ frame'[u].op = f.op /\ frame'[u].blk = f.blk
                              /\ frame'[u].fid = f.fid /\ frame'[u].mode = f.mode
  <1>1. [f EXCEPT !.pc = l] \in Frame
    BY DEF Frame
  <1>2. frame' = [frame EXCEPT ![t] = [f EXCEPT !.pc = l]]
    BY DEF Goto
  <1>3. \A u \in Thread : frame'[u] = [f EXCEPT !.pc = l]
    BY <1>2 DEF Serial, FrameOK
  <1> QED
    BY <1>1, <1>2, <1>3 DEF Frame, FrameOK

\* A step of the thread that leaves the file and its stream.
LEMMA MoveOK ==
  ASSUME Serial, IInv, NEW t \in Thread, NEW l \in Label, NEW f \in Frame, Goto(t, l, f),
         UNCHANGED <<there, disk, mapping, stream>>,
         l # "idle" => f.blk \in Block,
         l \notin {"read", "write", "mapped"},
         l \in {"access", "open"} => mapping = NULL,
         l = "open" /\ f.mode = "wb+" => ~there
  PROVE  IInv'
  <1>1. /\ frame' \in [Thread -> Frame]
        /\ \A u \in Thread : /\ frame'[u].pc = l /\ frame'[u].op = f.op /\ frame'[u].blk = f.blk
                             /\ frame'[u].fid = f.fid /\ frame'[u].mode = f.mode
    BY GotoFrame DEF IInv
  <1>2. FrameOK'
    BY <1>1 DEF FrameOK
  <1>3. StreamOK'
    BY DEF IInv, StreamOK
  <1>4. PlaceOK' /\ FidCorrect'
    BY <1>1 DEF PlaceOK, FidCorrect, At
  <1> QED
    BY <1>2, <1>3, <1>4 DEF IInv

\* The process ends, with a file whose identifiers are in place.
LEMMA EndedOK ==
  ASSUME IInv, Ended, Right(disk'), ~there => DOMAIN disk' = {}
  PROVE  IInv'
  <1>1. frame' = Nobody /\ mapping' = NULL /\ DOMAIN stream' = {} /\ there' = there
    BY DEF Ended
  <1>2. FrameOK' /\ PlaceOK' /\ FidCorrect'
    BY <1>1, NobodyOK DEF FrameOK, PlaceOK, FidCorrect, At
  <1>3. StreamOK'
    BY <1>1 DEF StreamOK
  <1> QED
    BY <1>2, <1>3 DEF IInv

LEMMA DieOK == ASSUME IInv, Die PROVE IInv' /\ Right(disk) /\ disk' = disk
  BY EndedOK DEF Die, IInv, StreamOK

\* exit writes identifiers to their places, and leaves what is on the disk.
LEMMA ExitOK ==
  ASSUME IInv, exit
  PROVE  IInv' /\ DOMAIN disk \subseteq DOMAIN disk' /\ Right(disk')
  <1>1. \A s \in DOMAIN stream : s = mapping /\ mapping # NULL /\ Right(stream[s].written)
    BY DEF IInv, StreamOK
  <1>2. \A p \in Block : Buffered(p) \subseteq {p}
    BY <1>1 DEF Buffered, Right
  <1>3. Right(disk)
    BY DEF IInv, StreamOK
  <1>4. disk' \in [DOMAIN disk \cup {p \in Block : Buffered(p) # {}} -> Block]
        /\ \A p \in DOMAIN disk' :
              disk'[p] \in IF Buffered(p) = {} THEN {disk[p]} ELSE Buffered(p)
    BY DEF exit
  <1>5. DOMAIN disk' = DOMAIN disk \cup {p \in Block : Buffered(p) # {}}
    BY <1>4
  <1>6. \A p \in DOMAIN disk' : p \in Block /\ disk'[p] = p
    <2> SUFFICES ASSUME NEW p \in DOMAIN disk' PROVE p \in Block /\ disk'[p] = p
      OBVIOUS
    <2>1. p \in Block
      BY <1>3, <1>5 DEF Right
    <2>2. CASE Buffered(p) = {}
      <3>1. p \in DOMAIN disk
        BY <1>5, <2>2
      <3> QED
        BY <1>3, <1>4, <2>1, <2>2, <3>1 DEF Right
    <2>3. CASE Buffered(p) # {}
      BY <1>2, <1>4, <2>1, <2>3
    <2> QED
      BY <2>2, <2>3
  <1>7. Right(disk')
    BY <1>6 DEF Right
  <1>8. ~there => DOMAIN disk' = {}
    <2> SUFFICES ASSUME ~there PROVE DOMAIN disk' = {}
      OBVIOUS
    <2>1. DOMAIN stream = {} /\ DOMAIN disk = {}
      BY DEF IInv, StreamOK
    <2>2. \A p \in Block : Buffered(p) = {}
      BY <2>1 DEF Buffered
    <2> QED
      BY <1>5, <2>1, <2>2
  <1>9. IInv'
    BY <1>7, <1>8, EndedOK DEF exit
  <1> QED
    BY <1>5, <1>7, <1>9

(***************************************************************************)
(* The actions                                                             *)
(***************************************************************************)
\* What a call of the stream does to the file.
LEMMA FlushedOK ==
  ASSUME IInv, mapping # NULL, NEW p, Flushed(mapping, p)
  PROVE  /\ Right(disk') /\ DOMAIN disk \subseteq DOMAIN disk'
         /\ DOMAIN stream' = {mapping} /\ stream'[mapping] = [pos |-> p, written |-> Empty]
         /\ disk' = View
  <1>1. mapping \in DOMAIN stream /\ DOMAIN stream = {mapping} /\ Right(disk)
        /\ Right(stream[mapping].written)
    BY DEF IInv, StreamOK
  <1>2. disk' = Over(disk, stream[mapping].written)
    BY DEF Flushed
  <1>3. Right(disk') /\ DOMAIN disk \subseteq DOMAIN disk'
    BY <1>1, <1>2, OverRight
  <1> QED
    BY <1>1, <1>2, <1>3 DEF Flushed, View

\* A seek: the buffer goes to the file, the position is that of the block.
LEMMA SoughtOK ==
  ASSUME Serial, IInv, NEW t \in Thread, NEW l \in {"reseek", "read", "write"},
         Goto(t, l, frame[t]), frame[t].pc # "idle", mapping # NULL,
         Flushed(mapping, frame[t].blk), UNCHANGED <<there, mapping>>
  PROVE  IInv' /\ DOMAIN disk \subseteq DOMAIN disk' /\ Right(disk')
  <1>1. frame[t] \in Frame /\ frame[t].blk \in Block /\ l \in Label
    BY DEF IInv, FrameOK, Label
  <1>2. /\ frame' \in [Thread -> Frame]
        /\ \A u \in Thread : frame'[u].pc = l /\ frame'[u].blk = frame[t].blk
    BY <1>1, GotoFrame DEF IInv
  <1>3. /\ Right(disk') /\ DOMAIN disk \subseteq DOMAIN disk' /\ DOMAIN stream' = {mapping}
        /\ stream'[mapping] = [pos |-> frame[t].blk, written |-> Empty]
    BY FlushedOK
  <1>4. FrameOK'
    BY <1>1, <1>2 DEF FrameOK
  <1>5. StreamOK'
    BY <1>3, EmptyRight DEF IInv, StreamOK
  <1>6. PlaceOK' /\ FidCorrect'
    BY <1>2, <1>3 DEF PlaceOK, FidCorrect, At
  <1> QED
    BY <1>3, <1>4, <1>5, <1>6 DEF IInv

LEMMA SeekOK ==
  ASSUME Serial, IInv, NEW t \in Thread,
         \/ seek(t, "seek", "reseek") \/ seek(t, "reseek", "read") \/ place(t)
  PROVE  IInv' /\ DOMAIN disk \subseteq DOMAIN disk' /\ Right(disk')
  <1>1. CASE Die
    BY <1>1, DieOK
  <1>2. CASE ~Die
    BY <1>2, SoughtOK DEF seek, place, At
  <1> QED
    BY <1>1, <1>2

LEMMA FreadOK ==
  ASSUME Serial, IInv, NEW t \in Thread, fread(t)
  PROVE  IInv' /\ DOMAIN disk \subseteq DOMAIN disk' /\ Right(disk')
  <1> DEFINE f == frame[t]
             p == stream[mapping].pos
             file == Over(disk, stream[mapping].written)
             got == IF p \in DOMAIN file THEN {file[p]} ELSE {}
             next == IF \E q \in DOMAIN file : q >= p THEN p + 1 ELSE p
  <1>1. /\ f.pc = "read" /\ f \in Frame /\ f.blk \in Block /\ mapping # NULL /\ p = f.blk
        /\ UNCHANGED <<there, mapping>>
    BY DEF fread, At, IInv, FrameOK, PlaceOK
  <1>2. Goto(t, "mapped", [f EXCEPT !.fid = got]) /\ Flushed(mapping, next)
    BY DEF fread
  <1>3. Right(file) /\ Right(stream[mapping].written)
    BY <1>1, OverRight DEF IInv, StreamOK
  <1>4. got = {b \in {f.blk} : b \in DOMAIN file} /\ got \in SUBSET Block
    BY <1>1, <1>3 DEF Right
  <1> HIDE DEF got, next
  <1>5. [f EXCEPT !.fid = got] \in Frame
    BY <1>1, <1>4 DEF Frame
  <1>6. /\ frame' \in [Thread -> Frame]
        /\ \A u \in Thread : /\ frame'[u].pc = "mapped" /\ frame'[u].blk = f.blk
                             /\ frame'[u].fid = got
    <2> DEFINE g == [f EXCEPT !.fid = got]
    <2>1. g.blk = f.blk /\ g.fid = got /\ g \in Frame
      BY <1>1, <1>5 DEF Frame
    <2>2. Goto(t, "mapped", g) /\ "mapped" \in Label
      BY <1>2 DEF Label
    <2> HIDE DEF g, f
    <2> QED
      BY <2>1, <2>2, GotoFrame DEF IInv
  <1>7. /\ Right(disk') /\ DOMAIN disk \subseteq DOMAIN disk' /\ DOMAIN stream' = {mapping}
        /\ stream'[mapping] = [pos |-> next, written |-> Empty] /\ disk' = file
    BY <1>1, <1>2, FlushedOK DEF View
  <1>8. View' = Over(disk', Empty)
    BY <1>1, <1>7 DEF View
  <1>9. Right(View') /\ DOMAIN View' = DOMAIN file
    <2>1. Right(disk') /\ Right(Empty) /\ DOMAIN Empty = {}
      BY <1>7, EmptyRight
    <2>2. Right(Over(disk', Empty)) /\ DOMAIN Over(disk', Empty) = DOMAIN disk' \cup DOMAIN Empty
      BY <2>1, OverRight
    <2> QED
      BY <1>7, <1>8, <2>1, <2>2
  <1>10. FidCorrect'
    BY <1>4, <1>6, <1>9 DEF FidCorrect
  <1>11. FrameOK' /\ PlaceOK'
    BY <1>1, <1>6 DEF FrameOK, PlaceOK
  <1>12. StreamOK'
    BY <1>1, <1>7, EmptyRight DEF IInv, StreamOK
  <1> QED
    BY <1>7, <1>10, <1>11, <1>12 DEF IInv

LEMMA FwriteOK ==
  ASSUME Serial, IInv, NEW t \in Thread, fwrite(t) PROVE IInv' /\ UNCHANGED disk
  <1> DEFINE f == frame[t]
             s == stream[mapping]
             one == [p \in {s.pos} |-> f.blk]
  <1>1. /\ f.pc = "write" /\ f.blk \in Block /\ mapping # NULL /\ s.pos = f.blk
        /\ UNCHANGED <<there, disk, mapping>>
    BY DEF fwrite, At, IInv, FrameOK, PlaceOK
  <1>2. stream' = [stream EXCEPT ![mapping] =
                      [pos |-> s.pos + 1, written |-> Over(s.written, one)]]
    BY DEF fwrite
  <1>3. Right(one)
    BY <1>1 DEF Right
  <1>4. Right(Over(s.written, one))
    BY <1>1, <1>3, OverRight DEF IInv, StreamOK
  <1> HIDE DEF one
  <1>5. DOMAIN stream' = {mapping} /\ stream'[mapping].written = Over(s.written, one)
    BY <1>1, <1>2 DEF IInv, StreamOK
  <1>6. StreamOK'
    BY <1>1, <1>4, <1>5 DEF IInv, StreamOK
  <1>7. Idle \in Frame
    BY DEF Idle, Frame, Label
  <1>8. frame' \in [Thread -> Frame] /\ \A u \in Thread : frame'[u].pc = "idle"
    <2>1. Goto(t, "idle", Idle) /\ "idle" \in Label
      BY DEF fwrite, Label
    <2> QED
      BY <1>7, <2>1, GotoFrame DEF IInv
  <1>9. FrameOK' /\ PlaceOK' /\ FidCorrect'
    BY <1>8 DEF FrameOK, PlaceOK, FidCorrect, At
  <1> QED
    BY <1>1, <1>6, <1>9 DEF IInv

\* The file is opened: nothing is lost, for it was not there if it is emptied.
LEMMA FopenOK ==
  ASSUME Serial, IInv, NEW t \in Thread, fopen(t)
  PROVE  IInv' /\ DOMAIN disk \subseteq DOMAIN disk' /\ Right(disk')
  <1>1. CASE exit
    BY <1>1, ExitOK
  <1>2. CASE ~exit
    <2> DEFINE f == frame[t]
    <2>1. /\ f.pc = "open" /\ f \in Frame /\ f.blk \in Block /\ mapping = NULL
          /\ f.mode = "wb+" => ~there
      BY DEF fopen, At, IInv, FrameOK, PlaceOK
    <2>2. /\ there' = TRUE /\ disk' = IF f.mode = "wb+" THEN Empty ELSE disk
          /\ mapping' = Cardinality(DOMAIN stream) + 1
          /\ stream' = [s \in DOMAIN stream \cup {mapping'} |->
                          IF s = mapping' THEN [pos |-> 0, written |-> Empty] ELSE stream[s]]
          /\ Goto(t, "authenticate", f)
      BY <1>2 DEF fopen
    <2>3. DOMAIN stream = {} /\ mapping' # NULL
      <3>1. DOMAIN stream = {}
        BY <2>1 DEF IInv, StreamOK
      <3>2. Cardinality({}) = 0
        BY FS_EmptySet
      <3> QED
        BY <2>2, <3>1, <3>2 DEF NULL
    <2>4. DOMAIN stream' = {mapping'} /\ stream'[mapping'].written = Empty
      BY <2>2, <2>3
    <2>5. Right(disk') /\ DOMAIN disk \subseteq DOMAIN disk'
      BY <2>1, <2>2, EmptyRight DEF IInv, StreamOK
    <2>6. StreamOK'
      BY <2>2, <2>3, <2>4, <2>5, EmptyRight DEF StreamOK
    <2> HIDE DEF f
    <2>7. /\ frame' \in [Thread -> Frame]
          /\ \A u \in Thread : frame'[u].pc = "authenticate" /\ frame'[u].blk = f.blk
      <3>1. "authenticate" \in Label
        BY DEF Label
      <3> QED
        BY <2>1, <2>2, <3>1, GotoFrame DEF IInv
    <2>8. FrameOK' /\ PlaceOK' /\ FidCorrect'
      BY <2>1, <2>7 DEF FrameOK, PlaceOK, FidCorrect, At
    <2> QED
      BY <2>5, <2>6, <2>8 DEF IInv
  <1> QED
    BY <1>1, <1>2

\* The steps that leave the file: calls, posts, the tests of authenticate.
LEMMA CallOK ==
  ASSUME Serial, IInv, NEW t \in Thread,
         \/ \E b \in Block : get_block(t, b) \/ put_block(t, b)
         \/ post(t) \/ authenticate(t) \/ access(t)
  PROVE  IInv' /\ UNCHANGED disk
  <1> DEFINE f == frame[t]
  <1>1. Idle \in Frame /\ f \in Frame /\ (f.pc # "idle" => f.blk \in Block)
    BY DEF Idle, Frame, Label, IInv, FrameOK
  <1>2. UNCHANGED <<there, disk, mapping, stream>>
    BY DEF get_block, put_block, post, authenticate, access
  <1>3. CASE \E b \in Block : get_block(t, b) \/ put_block(t, b)
    <2>1. PICK b \in Block, o \in {"get", "put"}, l \in {"seek", "post"} :
              Goto(t, l, [Idle EXCEPT !.op = o, !.blk = b])
      BY <1>3 DEF get_block, put_block
    <2>2. [Idle EXCEPT !.op = o, !.blk = b] \in Frame /\ [Idle EXCEPT !.op = o, !.blk = b].blk = b
      BY <1>1 DEF Frame, Idle
    <2> QED
      BY <1>2, <2>1, <2>2, MoveOK DEF Label
  <1>4. CASE post(t)
    <2>1. f.blk \in Block
      BY <1>1, <1>4 DEF post
    <2>2. Goto(t, "idle", Idle) \/ Goto(t, "place", f) \/ Goto(t, "authenticate", f)
      BY <1>4 DEF post
    <2> QED
      BY <1>1, <1>2, <2>1, <2>2, MoveOK DEF Label
  <1>5. CASE authenticate(t)
    <2>1. f.blk \in Block
      BY <1>1, <1>5 DEF authenticate, At
    <2>2. \/ mapping = NULL /\ Goto(t, "access", f)
          \/ Goto(t, "post", f) \/ Goto(t, "idle", Idle)
      BY <1>5 DEF authenticate
    <2> QED
      BY <1>1, <1>2, <2>1, <2>2, MoveOK DEF Label
  <1>6. CASE access(t)
    <2> DEFINE m == IF there THEN "rb+" ELSE "wb+"
               g == [f EXCEPT !.mode = m]
    <2>1. f.blk \in Block /\ mapping = NULL
      BY <1>1, <1>6 DEF access, At, IInv, PlaceOK
    <2>2. Goto(t, "open", g)
      BY <1>6 DEF access
    <2>3. m \in {"rb+", "wb+"} /\ (m = "wb+" => ~there)
      OBVIOUS
    <2> HIDE DEF m
    <2>4. g \in Frame /\ g.mode = m /\ g.blk = f.blk
      BY <1>1, <2>3 DEF Frame
    <2> HIDE DEF g
    <2> QED
      BY <1>2, <2>1, <2>2, <2>3, <2>4, MoveOK DEF Label
  <1> QED
    BY <1>2, <1>3, <1>4, <1>5, <1>6

\* Every step keeps the invariant, and what is on the disk.
LEMMA NextOK ==
  ASSUME Serial, IInv, [Next]_vars
  PROVE  IInv' /\ DOMAIN disk \subseteq DOMAIN disk' /\ Right(disk')
  <1>1. ASSUME NEW t \in Thread, Step(t)
        PROVE  IInv' /\ DOMAIN disk \subseteq DOMAIN disk' /\ Right(disk')
    <2>1. CASE \/ \E b \in Block : get_block(t, b) \/ put_block(t, b)
               \/ post(t) \/ authenticate(t) \/ access(t)
      BY <2>1, CallOK DEF IInv, StreamOK
    <2>2. CASE \/ seek(t, "seek", "reseek") \/ seek(t, "reseek", "read") \/ place(t)
      BY <2>2, SeekOK
    <2>3. CASE fread(t) \/ fopen(t)
      BY <2>3, FreadOK, FopenOK
    <2>4. CASE fwrite(t)
      BY <2>4, FwriteOK DEF IInv, StreamOK
    <2> QED
      BY <1>1, <2>1, <2>2, <2>3, <2>4 DEF Step
  <1>2. CASE Exit \/ Die
    BY <1>2, ExitOK, DieOK DEF Exit
  <1>3. CASE UNCHANGED vars
    BY <1>3 DEF vars, IInv, FrameOK, StreamOK, PlaceOK, FidCorrect, View, At
  <1> QED
    BY <1>1, <1>2, <1>3 DEF Next

LEMMA InitOK == ASSUME Init PROVE IInv
  <1>1. FrameOK /\ PlaceOK /\ FidCorrect
    BY NobodyOK DEF Init, FrameOK, PlaceOK, FidCorrect, At
  <1>2. StreamOK
    BY EmptyRight DEF Init, StreamOK
  <1> QED
    BY <1>1, <1>2 DEF IInv

LEMMA Inductive == Serial /\ Spec => []IInv
  <1> SUFFICES ASSUME Serial PROVE Spec => []IInv
    OBVIOUS
  <1>1. IInv /\ [Next]_vars => IInv'
    BY NextOK
  <1> QED
    BY <1>1, InitOK, PTL DEF Spec

(***************************************************************************)
(* The theorems                                                            *)
(***************************************************************************)
\* With one thread, a get sends the identifier that is recorded for its block
\* and no other (map_blk_to_fid), over any restarts.
THEOREM SerialFid == Serial /\ Spec => []FidCorrect
  <1>1. IInv => FidCorrect
    BY DEF IInv
  <1> QED
    BY <1>1, Inductive, PTL

\* With one thread, an identifier that has reached the disk stays there: no
\* opening empties the file, no record falls on the place of another
\* (authenticate, put_block).
THEOREM SerialRecords == Serial /\ Spec => RecordsKept
  <1> SUFFICES ASSUME Serial PROVE Spec => RecordsKept
    OBVIOUS
  <1>1. IInv /\ [Next]_vars =>
           [\A b \in DOMAIN disk : disk[b] = b => b \in DOMAIN disk' /\ disk'[b] = b]_vars
    BY NextOK DEF Right
  <1>2. Spec => []IInv
    BY Inductive
  <1> QED
    BY <1>1, <1>2, PTL DEF Spec, RecordsKept
=============================================================================
