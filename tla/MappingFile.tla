---------------------------- MODULE MappingFile ----------------------------
(***************************************************************************)
(* The mapping file of the driver, configure/vdisk.map, under the threads  *)
(* that use it: one stdio stream behind the static FILE *mapping, opened   *)
(* by the first thread that authenticates.                                 *)
(*                                                                         *)
(* The file is a row of identifiers, that of block b at place b.  Each     *)
(* call of the C library is atomic; between two calls anything may happen. *)
(* What the posts say is external, and so is how often they are tried.     *)
(* VdiskDriver is the rest of the driver, for one thread.                  *)
(***************************************************************************)
EXTENDS Naturals, FiniteSets

CONSTANTS
  Thread,     \* threads of FUSE
  Block       \* block numbers; the identifier of a block is its number

VARIABLES
  there,      \* whether the file exists
  disk,       \* its places: place -> identifier
  mapping,    \* static FILE *mapping: NULL (0) or one of the streams
  stream,     \* the open streams: position, buffered writes
  frame       \* the locals of each thread

vars == <<there, disk, mapping, stream, frame>>

NULL   == 0
Idle   == [pc |-> "idle", op |-> "none", blk |-> 0, fid |-> {}, mode |-> "none"]
Nobody == [t \in Thread |-> Idle]
Empty  == [p \in {} |-> 0]

At(t, l)      == frame[t].pc = l
Goto(t, l, f) == frame' = [frame EXCEPT ![t] = [f EXCEPT !.pc = l]]

\* The buffered writes of a stream, on top of what the file holds.
Over(file, written) ==
    [p \in DOMAIN file \cup DOMAIN written |->
        IF p \in DOMAIN written THEN written[p] ELSE file[p]]

\* A call of the stream: what was buffered goes to the file, the position is p.
Flushed(s, p) ==
    /\ disk' = Over(disk, stream[s].written)
    /\ stream' = [stream EXCEPT ![s] = [pos |-> p, written |-> Empty]]

(***************************************************************************)
(* The process ends: exit() writes the buffers of the streams, a death     *)
(* drops them.                                                             *)
(***************************************************************************)
Ended == /\ mapping' = NULL
         /\ stream' = [s \in {} |-> 0]
         /\ frame' = Nobody
         /\ UNCHANGED there

Die == Ended /\ UNCHANGED disk

Buffered(p) == {stream[s].written[p] : s \in {s \in DOMAIN stream : p \in DOMAIN stream[s].written}}

exit ==
    /\ Ended
    /\ \E file \in [DOMAIN disk \cup {p \in Block : Buffered(p) # {}} -> Block] :
          /\ \A p \in DOMAIN file :
                file[p] \in IF Buffered(p) = {} THEN {disk[p]} ELSE Buffered(p)
          /\ disk' = file

Exit == frame = Nobody /\ exit

(***************************************************************************)
(* map_blk_to_fid seeks twice, fseek having cleared what feof asks for.    *)
(***************************************************************************)
get_block(t, b) ==
    /\ At(t, "idle")
    /\ Goto(t, "seek", [Idle EXCEPT !.op = "get", !.blk = b])
    /\ UNCHANGED <<there, disk, mapping, stream>>

seek(t, from, to) ==
    /\ At(t, from)
    /\ \/ mapping = NULL /\ Die
       \/ /\ mapping # NULL
          /\ Flushed(mapping, frame[t].blk)
          /\ Goto(t, to, frame[t])
          /\ UNCHANGED <<there, mapping>>

\* At the end of the file nothing is read, and a hole is no identifier.
fread(t) ==
    /\ At(t, "read")
    /\ LET p    == stream[mapping].pos
           file == Over(disk, stream[mapping].written)
       IN  /\ Goto(t, "mapped", [frame[t] EXCEPT !.fid = IF p \in DOMAIN file THEN {file[p]} ELSE {}])
           /\ Flushed(mapping, IF \E q \in DOMAIN file : q >= p THEN p + 1 ELSE p)
    /\ UNCHANGED <<there, mapping>>

(***************************************************************************)
(* The posts.  The server serves who has a token, and a token comes after  *)
(* the mapping file has been opened.                                       *)
(***************************************************************************)
put_block(t, b) ==
    /\ At(t, "idle")
    /\ Goto(t, "post", [Idle EXCEPT !.op = "put", !.blk = b])
    /\ UNCHANGED <<there, disk, mapping, stream>>

post(t) ==
    LET f == frame[t]
    IN  /\ frame[t].pc \in {"mapped", "post"}
        /\ \/ /\ mapping # NULL
              /\ IF f.op = "put" THEN Goto(t, "place", f) ELSE Goto(t, "idle", Idle)
           \/ Goto(t, "authenticate", f)
           \/ Goto(t, "idle", Idle)
        /\ UNCHANGED <<there, disk, mapping, stream>>

(***************************************************************************)
(* authenticate: the file is opened if nobody has.                         *)
(***************************************************************************)
authenticate(t) ==
    /\ At(t, "authenticate")
    /\ IF mapping = NULL THEN Goto(t, "access", frame[t])
       ELSE IF frame[t].op = "put" THEN Goto(t, "post", frame[t])
       ELSE Goto(t, "idle", Idle)
    /\ UNCHANGED <<there, disk, mapping, stream>>

\* Mutated: the file is not looked for.
access_never(t) ==
    /\ At(t, "access")
    /\ Goto(t, "open", [frame[t] EXCEPT !.mode = "wb+"])
    /\ UNCHANGED <<there, disk, mapping, stream>>

access(t) ==
    /\ At(t, "access")
    /\ Goto(t, "open", [frame[t] EXCEPT !.mode = IF there THEN "rb+" ELSE "wb+"])
    /\ UNCHANGED <<there, disk, mapping, stream>>

\* "wb+" makes an empty file of what is there.
fopen(t) ==
    /\ At(t, "open")
    /\ \/ /\ there' = TRUE
          /\ disk' = IF frame[t].mode = "wb+" THEN Empty ELSE disk
          /\ mapping' = Cardinality(DOMAIN stream) + 1
          /\ stream' = [s \in DOMAIN stream \cup {mapping'} |->
                          IF s = mapping' THEN [pos |-> 0, written |-> Empty] ELSE stream[s]]
          /\ Goto(t, "authenticate", frame[t])
       \/ exit                                    \* VDISK_MAPPING_FAIL

(***************************************************************************)
(* put_block records the identifier.                                       *)
(***************************************************************************)
\* Mutated: the stream is where the last call has left it.
place_here(t) ==
    /\ At(t, "place")
    /\ Flushed(mapping, stream[mapping].pos)
    /\ Goto(t, "write", frame[t])
    /\ UNCHANGED <<there, mapping>>

place(t) == seek(t, "place", "write")

fwrite(t) ==
    /\ At(t, "write")
    /\ LET s == stream[mapping]
       IN  stream' = [stream EXCEPT ![mapping] =
                         [pos |-> s.pos + 1,
                          written |-> Over(s.written, [p \in {s.pos} |-> frame[t].blk])]]
    /\ Goto(t, "idle", Idle)
    /\ UNCHANGED <<there, disk, mapping>>

Init == /\ there = FALSE
        /\ disk = Empty
        /\ mapping = NULL
        /\ stream = [s \in {} |-> 0]
        /\ frame = Nobody

Step(t) == \/ \E b \in Block : get_block(t, b) \/ put_block(t, b)
           \/ seek(t, "seek", "reseek") \/ seek(t, "reseek", "read") \/ fread(t)
           \/ post(t) \/ authenticate(t) \/ access(t) \/ fopen(t)
           \/ place(t) \/ fwrite(t)

Next == (\E t \in Thread : Step(t)) \/ Exit \/ Die

Spec == Init /\ [][Next]_vars

(***************************************************************************)
(* What is asked of it                                                     *)
(***************************************************************************)
\* The file as this process would read it.
View == IF mapping = NULL THEN disk ELSE Over(disk, stream[mapping].written)

\* get_block sends the identifier of its block if there is a record at its place,
\* made in this process or before a restart, and none if not (map_blk_to_fid).
FidCorrect ==
    \A t \in Thread :
        At(t, "mapped") => frame[t].fid = {frame[t].blk} \cap DOMAIN View

\* map_blk_to_fid, whatever other threads do: never the identifier of another
\* block.
OwnFid == \A t \in Thread : At(t, "mapped") => frame[t].fid \subseteq {frame[t].blk}

\* A block's identifier that has reached the disk stays there, over restarts
\* and another opening of the file (authenticate).
RecordsKept ==
    [][\A b \in DOMAIN disk : disk[b] = b => b \in DOMAIN disk' /\ disk'[b] = b]_vars

\* authenticate, whatever other threads do: it makes a new file only if there
\* is none, so one with records is never emptied.
NeverEmptied == [][disk # Empty => disk' # Empty]_vars
=============================================================================
