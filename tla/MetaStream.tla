----------------------------- MODULE MetaStream -----------------------------
(***************************************************************************)
(* The metadata file ".meta" as the program sees it: one stdio stream      *)
(* (FILE *meta of sdisk.c) shared by every thread of the FUSE loop.        *)
(*                                                                         *)
(* The file is a row of records: position 0 holds the superblock and       *)
(* position n + 1 the inode with number n.  The stream has one file        *)
(* position for all threads, and the C library keeps the last write in     *)
(* its buffer until the next fseek.  A record is therefore in "view" (what *)
(* this process reads back) before it is on "disk" (what a restart finds). *)
(*                                                                         *)
(* "mid" is TRUE while the position is not at the first byte of a record;  *)
(* only a write or a read of the wrong kind of record leads there.         *)
(***************************************************************************)
EXTENDS Naturals

Mode  == {"dir", "file", "none"}
Stamp == {"created", "set", "never"}

\* struct sdisk_inode, with i_block[0] alone (no code sets another pointer)
Inode == [i_inode_no : Nat, i_mode : Mode, i_block : Nat, i_atime : Stamp]

\* struct sdisk_super_block: the fields the code reads
Super == [s_free_inode : Nat, s_free_block : Nat, s_log_block_size : {0, 10}]

ZeroInode == [i_inode_no |-> 0, i_mode |-> "none", i_block |-> 0,
              i_atime |-> "never"]
ZeroSuper == [s_free_inode |-> 0, s_free_block |-> 0, s_log_block_size |-> 0]

Torn   == [torn |-> TRUE]      \* bytes of two records, or a part of one
Record == Inode \cup Super \cup {Torn}

SuperPos    == 0
InodePos(n) == n + 1

Empty == [p \in {} |-> Torn]
IsFile(file) == /\ DOMAIN file \subseteq Nat
                /\ file \in [DOMAIN file -> Record]

IsStream(s) ==
    /\ s \in [pos : Nat, mid : BOOLEAN, view : {s.view}, disk : {s.disk}]
    /\ IsFile(s.view) /\ IsFile(s.disk)

\* The stream a process starts with on a file with this content.
Opened(file) == [pos |-> 0, mid |-> FALSE, view |-> file, disk |-> file]

\* Mutated: the seek is relative; the buffer stays where it is.
Seek_relative(s, p)  == [Opened(s.view) EXCEPT !.pos = s.pos + p]
Seek_unflushed(s, p) == [s EXCEPT !.pos = p, !.mid = FALSE]

\* fseek: the buffered write goes to the file, the position moves.
Seek(s, p) == [pos |-> p, mid |-> FALSE, view |-> s.view, disk |-> s.view]

(***************************************************************************)
(* fwrite of one record at the position of the stream.  An inode is longer *)
(* than a superblock, and 512 bytes are set aside for the superblock, so   *)
(* what follows position 0 is padding that nobody reads.                   *)
(***************************************************************************)
Touched(s) == IF ~s.mid THEN {s.pos}
              ELSE IF s.pos = SuperPos THEN {} ELSE {s.pos, s.pos + 1}

Fits(s, r) == ~s.mid /\ (s.pos = SuperPos <=> r \in Super)

Write(s, r) ==
    [view |-> [p \in DOMAIN s.view \cup Touched(s) |->
                 IF p \notin Touched(s) THEN s.view[p]
                 ELSE IF Fits(s, r) THEN r ELSE Torn],
     disk |-> s.disk,
     pos  |-> IF s.pos = SuperPos \/ (~s.mid /\ r \in Super) THEN s.pos ELSE s.pos + 1,
     mid  |-> s.pos = SuperPos \/ s.mid \/ r \in Super]

(***************************************************************************)
(* fread of one inode into a variable that holds "old".  At the end of the *)
(* file nothing is read and the variable keeps its value; a hole reads as  *)
(* zeros; bytes that are no inode read as a mixture of what is there.      *)
(***************************************************************************)
AtEnd(s) == \A p \in DOMAIN s.view : p < s.pos \/ (s.mid /\ p = s.pos)

Junk(s) == {ZeroInode} \cup {r \in {s.view[p] : p \in DOMAIN s.view} : r \in Inode}

InodesRead(s, old) ==
    IF AtEnd(s) THEN {old}
    ELSE IF s.mid \/ s.pos = SuperPos THEN Junk(s)
    ELSE IF s.pos \notin DOMAIN s.view THEN {ZeroInode}
    ELSE IF s.view[s.pos] \in Inode THEN {s.view[s.pos]}
    ELSE Junk(s)

AfterRead(s) ==
    [view |-> s.view,
     disk |-> s.view,
     pos  |-> IF AtEnd(s) \/ s.pos = SuperPos THEN s.pos ELSE s.pos + 1,
     mid  |-> s.mid \/ (s.pos = SuperPos /\ ~AtEnd(s))]

\* fread of the superblock of a file that is not empty: init, line 852.
SupersRead(file) ==
    IF SuperPos \notin DOMAIN file THEN {ZeroSuper}
    ELSE IF file[SuperPos] \in Super THEN {file[SuperPos]}
    ELSE [s_free_inode : 0..2, s_free_block : 0..2, s_log_block_size : {0, 10}]

(***************************************************************************)
(* The process ends.  exit() writes the buffer out, an abort drops it.     *)
(***************************************************************************)
Closed(s)  == Opened(s.view)
Dropped(s) == Opened(s.disk)
=============================================================================
