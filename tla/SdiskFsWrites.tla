---------------------------- MODULE SdiskFsWrites ----------------------------
(***************************************************************************)
(* The types and the order of the writes of SdiskFs.                       *)
(*                                                                         *)
(* Types, with any number of threads: every global, local and record has   *)
(* the type the C code declares, for any names, slots and failures.        *)
(*                                                                         *)
(* Writes, with one thread (the -s option of FUSE): every record goes to   *)
(* its own place in the metadata file, and no name reaches the server      *)
(* before the inode it leads to is on disk.  Both hold wherever the        *)
(* process dies, whatever transfers fail, for any names, calls and size of *)
(* directories.                                                            *)
(***************************************************************************)
EXTENDS SdiskFsProperties, SequenceTheorems, TLAPS

(***************************************************************************)
(* The metadata stream                                                     *)
(***************************************************************************)
LEMMA SeekType ==
  ASSUME NEW s, IsStream(s), NEW p \in Nat
  PROVE  IsStream(Seek(s, p))
  BY DEF IsStream, Seek, IsFile

LEMMA OpenedType ==
  ASSUME NEW file, IsFile(file)
  PROVE  IsStream(Opened(file))
  BY DEF IsStream, Opened

LEMMA WriteType ==
  ASSUME NEW s, IsStream(s), NEW r \in Inode \cup Super
  PROVE  IsStream(Write(s, r))
<1> DEFINE view == [p \in DOMAIN s.view \cup Touched(s) |->
                      IF p \notin Touched(s) THEN s.view[p]
                      ELSE IF Fits(s, r) THEN r ELSE Torn]
           pos == IF s.pos = SuperPos \/ (~s.mid /\ r \in Super)
                  THEN s.pos ELSE s.pos + 1
           mid == s.pos = SuperPos \/ s.mid \/ r \in Super
<1>1. IsFile(view)
  <2>1. Touched(s) \subseteq Nat
    BY DEF IsStream, Touched
  <2>2. DOMAIN s.view \subseteq Nat /\ s.view \in [DOMAIN s.view -> Record]
    BY DEF IsStream, IsFile
  <2>3. r \in Record /\ Torn \in Record
    BY DEF Record
  <2>4. view \in [DOMAIN s.view \cup Touched(s) -> Record]
    BY <2>2, <2>3
  <2> QED
    BY <2>1, <2>2, <2>4 DEF IsFile
<1>2. pos \in Nat /\ mid \in BOOLEAN
  BY DEF IsStream
<1>3. Write(s, r) = [pos |-> pos, mid |-> mid, view |-> view, disk |-> s.disk]
  BY DEF Write, IsStream
<1> QED
  BY <1>1, <1>2, <1>3 DEF IsStream

LEMMA ReadType ==
  ASSUME NEW s, IsStream(s), NEW old \in Inode
  PROVE  IsStream(AfterRead(s)) /\ InodesRead(s, old) \subseteq Inode
<1>1. IsStream(AfterRead(s))
  BY DEF IsStream, AfterRead, IsFile
<1>2. ZeroInode \in Inode
  BY DEF ZeroInode, Inode, Mode, Stamp
<1>3. Junk(s) \subseteq Inode
  BY <1>2 DEF Junk
<1> QED
  BY <1>1, <1>2, <1>3 DEF InodesRead

LEMMA SupersReadType ==
  ASSUME NEW file
  PROVE  SupersRead(file) \subseteq Super
  BY DEF SupersRead, Super, ZeroSuper

(***************************************************************************)
(* Blocks and frames                                                       *)
(***************************************************************************)
\* What a torn entry still says: nothing, the same entry, or its number with a
\* beginning of its name.
LEMMA BeginningEntries ==
  ASSUME NEW e \in Entry, NEW x \in Beginnings(e)
  PROVE  /\ x \in Entry
         /\ \/ x = NoEntry
            \/ /\ x.inode = e.inode
               /\ x.name \in Name => e.name \in Name
<1>1. NoEntry \in Entry /\ "." \notin Name /\ "" \notin Name
  BY NameAssumption DEF NoEntry, Entry
<1>2. CASE x \in {NoEntry, e}
  BY <1>1, <1>2
<1>3. ASSUME NEW n \in {""} \cup CASE e.name \in Name -> Prefixes[e.name]
                                  [] e.name = ".."   -> {"."}
                                  [] OTHER           -> {},
             x = [e EXCEPT !.name = n]
      PROVE  x \in Entry /\ x.inode = e.inode /\ (x.name \in Name => e.name \in Name)
  <2>1. n \in {"", "."} \/ (e.name \in Name /\ n \in Prefixes[e.name])
    BY <1>3
  <2>2. n \in Name \cup {".", "..", ""} /\ (n \in Name => e.name \in Name)
    BY <1>1, <2>1, NameAssumption
  <2>3. x.inode = e.inode /\ x.name = n /\ x \in Entry
    BY <1>3, <2>2 DEF Entry
  <2> QED
    BY <2>2, <2>3
<1> QED
  BY <1>2, <1>3 DEF Beginnings

\* The entries of a block that has arrived in part.
LEMMA PartialEntries ==
  ASSUME NEW d \in Block, NEW data \in Partial(d)
  PROVE  /\ data \in Block
         /\ \A i \in Slot : \/ data[i] = NoEntry
                           \/ /\ data[i].inode = d[i].inode
                              /\ data[i].name \in Name => d[i].name \in Name
<1>1. PICK k \in Slot : \E e \in Beginnings(d[k]) :
           data = [i \in Slot |-> IF i < k THEN d[i] ELSE IF i = k THEN e ELSE NoEntry]
  BY DEF Partial
<1>5. PICK e \in Beginnings(d[k]) :
           data = [i \in Slot |-> IF i < k THEN d[i] ELSE IF i = k THEN e ELSE NoEntry]
  BY <1>1
<1>2. d \in [Slot -> Entry] /\ d[k] \in Entry /\ NoEntry \in Entry
  BY DEF Block, NoEntry, Entry
<1>3. /\ e \in Entry
      /\ \/ e = NoEntry
         \/ /\ e.inode = d[k].inode
            /\ e.name \in Name => d[k].name \in Name
  BY <1>2, BeginningEntries
<1> QED
  BY <1>2, <1>3, <1>5 DEF Block

\* A block that has arrived whole is one that has arrived in part.
LEMMA WholeBlock ==
  ASSUME NEW d \in Block
  PROVE  d \in Partial(d)
<1>1. NSlots \in Slot /\ \A i \in Slot : i \in Nat /\ i <= NSlots
  BY BoundAssumption DEF Slot
<1> DEFINE e == d[NSlots]
           data == [i \in Slot |-> IF i < NSlots THEN d[i] ELSE IF i = NSlots THEN e ELSE NoEntry]
<1>2. e \in Beginnings(d[NSlots])
  BY DEF Beginnings
<1>3. d = data
  <2>1. \A i \in Slot : d[i] = data[i]
    BY <1>1
  <2> QED
    BY <2>1 DEF Block
<1> QED
  BY <1>1, <1>2, <1>3 DEF Partial

LEMMA BlockTypes ==
  ASSUME TypeOK
  PROVE  /\ ZeroBlock \in Block
         /\ Buffers \subseteq Block
         /\ HeapBlocks \subseteq Buffers
         /\ \A b \in Nat, data \in Block :
              /\ DOMAIN Stored(b, data) \subseteq Nat
              /\ Stored(b, data) \in [DOMAIN Stored(b, data) -> Block]
<1>1. ZeroBlock \in Block
  BY DEF ZeroBlock, Block, NoEntry, Entry
<1>2. Buffers \subseteq Block
  BY <1>1, PartialEntries DEF Buffers, TypeOK
<1>3. ASSUME NEW b \in Nat, NEW data \in Block
      PROVE  /\ DOMAIN Stored(b, data) \subseteq Nat
             /\ Stored(b, data) \in [DOMAIN Stored(b, data) -> Block]
  BY DEF Stored, TypeOK
<1>4. \A b \in DOMAIN store : store[b] \in Partial(store[b])
  BY WholeBlock DEF TypeOK
<1>5. HeapBlocks \subseteq Buffers
  BY <1>4 DEF HeapBlocks, Buffers
<1> QED
  BY <1>1, <1>2, <1>3, <1>5

LEMMA EmptyDirType ==
  ASSUME NEW self \in Nat, NEW parent \in Nat
  PROVE  EmptyDir(self, parent) \in Block
  BY DEF EmptyDir, Block, Entry, NoEntry

LEMMA IdleType == Idle \in Frame /\ ZeroInode \in Inode /\ ZeroSuper \in Super
<1>1. ZeroBlock \in Block
  BY DEF ZeroBlock, Block, NoEntry, Entry
<1>2. ZeroInode \in Inode /\ ZeroSuper \in Super
  BY DEF ZeroInode, ZeroSuper, Inode, Super, Mode, Stamp
<1>3. <<>> \in Seq(Name) /\ NoName \in Name \cup {NoName} /\ 0 \in 0..NSlots
  BY BoundAssumption
<1> QED
  BY <1>1, <1>2, <1>3 DEF Idle, Frame, Labels

LEMMA GotoType ==
  ASSUME TypeOK, NEW t \in Thread, NEW l \in Labels, NEW f \in Frame,
         f.op \in Mutators => f.path # <<>>,
         Goto(t, l, f)
  PROVE  /\ pc' \in [Thread -> Labels] /\ frame' \in [Thread -> Frame]
         /\ \A u \in Thread : frame'[u].op \in Mutators => frame'[u].path # <<>>
  BY DEF Goto, TypeOK

LEMMA DownType ==
  ASSUME TypeOK, NEW stream, IsStream(stream), Down(stream)
  PROVE  /\ up' \in {"unmounted", "init", "mounted"}
         /\ superblock' \in Super /\ root' \in Inode /\ IsStream(meta)'
         /\ strtok' \in [rest : Seq(Name), owner : SUBSET Thread]
         /\ block' \in [data : Block, freed : BOOLEAN]
         /\ pc' \in [Thread -> Labels] /\ frame' \in [Thread -> Frame]
         /\ \A t \in Thread : frame'[t].op \in Mutators => frame'[t].path # <<>>
         /\ faults' \in Nat
<1>1. ZeroBlock \in Block
  BY BlockTypes
<1>2. "idle" \in Labels
  BY DEF Labels
<1>3. IsStream(meta)'
  BY DEF Down
<1>4. Idle.op \notin Mutators
  BY DEF Idle, Mutators
<1> QED
  BY <1>1, <1>2, <1>3, <1>4, IdleType DEF Down, TypeOK

LEMMA DieType ==
  ASSUME TypeOK, Die
  PROVE  TypeOK'
<1>1. IsStream(Dropped(meta))
  BY OpenedType DEF TypeOK, IsStream, Dropped
<1>2. Down(Dropped(meta))
  BY DEF Die
<1>3. DOMAIN store' \subseteq Nat /\ store' \in [DOMAIN store' -> Block]
  BY DEF Die, TypeOK
<1>4. mapping' = [open |-> FALSE, unsaved |-> {}]
  BY DEF Die
<1> QED
  BY <1>1, <1>2, <1>3, <1>4, DownType DEF TypeOK

(***************************************************************************)
(* The steps of a thread                                                   *)
(***************************************************************************)
LEMMA PathTypes ==
  ASSUME NEW f \in Frame, f.op \in Mutators => f.path # <<>>
  PROVE  /\ Target(f) \in Seq(Name)
         /\ f.op \in Mutators => Last(f.path) \in Name
<1>1. f.path \in Seq(Name)
  BY DEF Frame
<1>2. CASE f.path = <<>>
  BY <1>2, <1>1 DEF Target
<1>3. CASE f.path # <<>>
  <2>1. Len(f.path) \in Nat /\ Len(f.path) > 0
    BY <1>1, <1>3, EmptySeq
  <2>2. Front(f.path) \in Seq(Name)
    BY <1>1, <2>1, SubSeqProperties DEF Front
  <2>3. Last(f.path) \in Name
    BY <1>1, <2>1, ElementOfSeq DEF Last
  <2> QED
    BY <1>1, <2>2, <2>3 DEF Target
<1> QED
  BY <1>2, <1>3

LEMMA DownloadedType ==
  ASSUME TypeOK, NEW b \in Nat, NEW data, Downloaded(b, data)
  PROVE  /\ DOMAIN store' \subseteq Nat /\ store' \in [DOMAIN store' -> Block]
         /\ mapping' \in [open : BOOLEAN, unsaved : SUBSET Nat]
         /\ faults' \in Nat
  BY DEF Downloaded, TypeOK

LEMMA UploadedType ==
  ASSUME TypeOK, NEW b \in Nat, NEW data \in Block, NEW ret, Uploaded(b, data, ret)
  PROVE  /\ DOMAIN store' \subseteq Nat /\ store' \in [DOMAIN store' -> Block]
         /\ mapping' \in [open : BOOLEAN, unsaved : SUBSET Nat]
         /\ faults' \in Nat
<1>1. /\ DOMAIN Stored(b, data) \subseteq Nat
      /\ Stored(b, data) \in [DOMAIN Stored(b, data) -> Block]
  BY BlockTypes
<1>2. CASE PutOk(b, data)
  BY <1>1, <1>2 DEF PutOk, TypeOK
<1>3. CASE PutFailed(b, data)
  <2>1. store' = store \/ store' = Stored(b, data)
    BY <1>3 DEF PutFailed
  <2>2. faults' \in Nat
    BY <1>3 DEF PutFailed, TypeOK
  <2>3. PICK open \in {mapping.open, TRUE} : mapping' = [mapping EXCEPT !.open = open]
    BY <1>3 DEF PutFailed
  <2>4. mapping' \in [open : BOOLEAN, unsaved : SUBSET Nat]
    BY <2>3 DEF TypeOK
  <2> QED
    BY <1>1, <2>1, <2>2, <2>4 DEF TypeOK
<1> QED
  BY <1>2, <1>3 DEF Uploaded


LEMMA ThreadFrame ==
  ASSUME TypeOK, NEW t \in Thread
  PROVE  /\ frame[t] \in Frame /\ pc[t] \in Labels
         /\ frame[t].op \in Mutators => frame[t].path # <<>>
         /\ Target(frame[t]) \in Seq(Name)
         /\ frame[t].op \in Mutators => Last(frame[t].path) \in Name
  BY PathTypes DEF TypeOK

\* A step of one thread that moves on with the locals f.
LEMMA MoveType ==
  ASSUME TypeOK, NEW t \in Thread, NEW l \in Labels, NEW f \in Frame,
         f.op \in Mutators => f.path # <<>>,
         Goto(t, l, f),
         UNCHANGED <<up, root>>, superblock' \in Super, IsStream(meta)',
         strtok' \in [rest : Seq(Name), owner : SUBSET Thread],
         block' \in [data : Block, freed : BOOLEAN],
         DOMAIN store' \subseteq Nat, store' \in [DOMAIN store' -> Block],
         mapping' \in [open : BOOLEAN, unsaved : SUBSET Nat],
         faults' \in Nat
  PROVE  TypeOK'
  BY GotoType DEF TypeOK

\* A step that changes nothing but the place and the locals of its thread.
LEMMA LocalType ==
  ASSUME TypeOK, NEW t \in Thread, NEW l \in Labels, NEW f \in Frame,
         f.op \in Mutators => f.path # <<>>,
         Goto(t, l, f),
         UNCHANGED <<up, superblock, root, meta, strtok, block, remote>>
  PROVE  TypeOK'
<1>1. IsStream(meta)'
  BY DEF TypeOK
<1> QED
  BY <1>1, MoveType DEF TypeOK, remote

LEMMA FindInodeType ==
  ASSUME TypeOK, NEW t \in Thread, find_inode(t)
  PROVE  TypeOK'
<1> DEFINE path == Target(frame[t])
<1>1. path \in Seq(Name) /\ frame[t] \in Frame
      /\ (frame[t].op \in Mutators => frame[t].path # <<>>)
  BY ThreadFrame
<1>2. IsStream(meta)' /\ UNCHANGED <<up, superblock, root, block, remote>>
  BY DEF find_inode, TypeOK
<1>3. CASE path = <<>>
  <2> DEFINE f == [frame[t] EXCEPT !.node = root, !.found = TRUE]
  <2>1. f \in Frame /\ "resolved" \in Labels /\ Goto(t, "resolved", f)
    BY <1>1, <1>3 DEF find_inode, Frame, Labels, TypeOK
  <2>2. f.op \in Mutators => f.path # <<>>
    BY <1>1 DEF Frame
  <2>3. strtok' = [rest |-> <<>>, owner |-> {}]
    BY <1>3 DEF find_inode
  <2>4. strtok' \in [rest : Seq(Name), owner : SUBSET Thread]
    BY <2>3
  <2> HIDE DEF f
  <2> QED
    BY <1>2, <2>1, <2>2, <2>4, MoveType DEF TypeOK, remote
<1>4. CASE path # <<>>
  <2> DEFINE f == [frame[t] EXCEPT !.node = root, !.comp = Head(path), !.ra = "walk"]
  <2>1. Head(path) \in Name /\ Tail(path) \in Seq(Name)
    BY <1>1, <1>4
  <2>2. f \in Frame /\ "lookup" \in Labels /\ Goto(t, "lookup", f)
    BY <1>1, <1>4, <2>1 DEF find_inode, Frame, Labels, TypeOK
  <2>3. f.op \in Mutators => f.path # <<>>
    BY <1>1 DEF Frame
  <2>4. strtok' = [rest |-> Tail(path), owner |-> {t}]
    BY <1>4 DEF find_inode
  <2>5. strtok' \in [rest : Seq(Name), owner : SUBSET Thread]
    BY <2>1, <2>4
  <2> HIDE DEF f
  <2> QED
    BY <1>2, <2>2, <2>3, <2>5, MoveType DEF TypeOK, remote
<1> QED
  BY <1>3, <1>4

LEMMA LookupType ==
  ASSUME TypeOK, NEW t \in Thread, lookup(t)
  PROVE  TypeOK'
<1> DEFINE f == frame[t]
           b == Base(f).i_block
<1>1. f \in Frame /\ (f.op \in Mutators => f.path # <<>>)
  BY ThreadFrame
<1>2. b \in Nat /\ f.ra \in Labels
  BY <1>1 DEF Frame, Base, Inode
<1> DEFINE miss == [f EXCEPT !.found = FALSE]
<1>3. miss \in Frame /\ (miss.op \in Mutators => miss.path # <<>>)
  BY <1>1 DEF Frame
<1>4. CASE b = 0 /\ Goto(t, f.ra, miss)
           /\ UNCHANGED <<up, superblock, root, meta, strtok, block, remote>>
  <2> HIDE DEF miss
  <2> QED
    BY <1>2, <1>3, <1>4, LocalType
<1>5. CASE Die
  BY <1>5, DieType
<1>6. ASSUME NEW data \in Buffers, Downloaded(b, data),
             UNCHANGED <<up, superblock, root, meta, strtok, block>>,
             \/ Goto(t, f.ra, miss)
             \/ \E i \in Slot : Goto(t, "get_inode", [f EXCEPT !.n = data[i].inode])
      PROVE  TypeOK'
  <2>1. data \in Block
    BY BlockTypes
  <2>2. PICK l \in Labels, g \in Frame : Goto(t, l, g) /\ (g.op \in Mutators => g.path # <<>>)
    <3>1. CASE Goto(t, f.ra, miss)
      BY <1>2, <1>3, <3>1
    <3>2. ASSUME NEW i \in Slot, Goto(t, "get_inode", [f EXCEPT !.n = data[i].inode])
          PROVE  \E l \in Labels, g \in Frame :
                    Goto(t, l, g) /\ (g.op \in Mutators => g.path # <<>>)
      <4>1. data[i].inode \in Nat
        BY <2>1 DEF Block, Entry
      <4> DEFINE hit == [f EXCEPT !.n = data[i].inode]
      <4>2. hit \in Frame /\ (hit.op \in Mutators => hit.path # <<>>)
        BY <1>1, <4>1 DEF Frame
      <4>3. "get_inode" \in Labels
        BY DEF Labels
      <4> HIDE DEF hit
      <4> QED
        BY <3>2, <4>2, <4>3 DEF hit
    <3> QED
      BY <1>6, <3>1, <3>2
  <2>3. IsStream(meta)'
    BY <1>6 DEF TypeOK
  <2> QED
    BY <1>2, <1>6, <2>2, <2>3, DownloadedType, MoveType DEF TypeOK
<1> QED
  BY <1>4, <1>5, <1>6 DEF lookup

LEMMA InodeIOType ==
  ASSUME TypeOK, NEW t \in Thread,
         get_inode(t) \/ read_inode(t) \/ update_inode(t) \/ write_inode(t)
  PROVE  TypeOK'
<1> DEFINE f == frame[t]
<1>1. f \in Frame /\ (f.op \in Mutators => f.path # <<>>)
  BY ThreadFrame
<1>2. /\ f.n \in Nat /\ f.ra \in Labels /\ f.node \in Inode /\ f.node.i_inode_no \in Nat
      /\ IsStream(meta)
  BY <1>1 DEF Frame, Inode, TypeOK
<1>3. {"read_inode", "write_inode"} \subseteq Labels
  BY DEF Labels
<1>4. CASE get_inode(t)
  <2>1. IsStream(meta)'
    BY <1>2, <1>4, SeekType DEF get_inode, InodePos
  <2> QED
    BY <1>1, <1>3, <1>4, <2>1, MoveType DEF get_inode, TypeOK, remote
<1>5. CASE update_inode(t)
  <2>1. IsStream(meta)'
    BY <1>2, <1>5, SeekType DEF update_inode, InodePos
  <2> QED
    BY <1>1, <1>3, <1>5, <2>1, MoveType DEF update_inode, TypeOK, remote
<1>6. CASE write_inode(t)
  <2>1. IsStream(meta)'
    BY <1>2, <1>6, WriteType DEF write_inode
  <2> QED
    BY <1>1, <1>2, <1>6, <2>1, MoveType DEF write_inode, TypeOK, remote
<1>7. CASE read_inode(t)
  <2>1. IsStream(meta)' /\ InodesRead(meta, f.node) \subseteq Inode
    BY <1>2, <1>7, ReadType DEF read_inode
  <2>2. PICK inode \in InodesRead(meta, f.node) :
           Goto(t, f.ra, [f EXCEPT !.node = inode, !.found = TRUE, !.n = 0])
    BY <1>7 DEF read_inode
  <2> DEFINE g == [f EXCEPT !.node = inode, !.found = TRUE, !.n = 0]
  <2>3. g \in Frame /\ (g.op \in Mutators => g.path # <<>>)
    BY <1>1, <2>1 DEF Frame
  <2> HIDE DEF g
  <2>4. Goto(t, f.ra, g)
    BY <2>2 DEF g
  <2> QED
    BY <1>2, <1>7, <2>1, <2>3, <2>4, MoveType DEF read_inode, TypeOK, remote
<1> QED
  BY <1>4, <1>5, <1>6, <1>7

LEMMA SuperIOType ==
  ASSUME TypeOK, NEW t \in Thread, update_superblock(t) \/ write_superblock(t)
  PROVE  TypeOK'
<1>1. /\ frame[t] \in Frame /\ (frame[t].op \in Mutators => frame[t].path # <<>>)
      /\ frame[t].ra \in Labels /\ "write_superblock" \in Labels
  BY ThreadFrame DEF Frame, Labels
<1>2. CASE update_superblock(t)
  <2>1. IsStream(meta)'
    BY <1>2, SeekType DEF update_superblock, SuperPos, TypeOK
  <2> QED
    BY <1>1, <1>2, <2>1, MoveType DEF update_superblock, TypeOK, remote
<1>3. CASE write_superblock(t)
  <2>1. IsStream(meta)'
    BY <1>3, WriteType DEF write_superblock, TypeOK
  <2> QED
    BY <1>1, <1>3, <2>1, MoveType DEF write_superblock, TypeOK, remote
<1> QED
  BY <1>2, <1>3

LEMMA WalkType ==
  ASSUME TypeOK, NEW t \in Thread, walk(t)
  PROVE  TypeOK'
<1> DEFINE f == frame[t]
<1>1. f \in Frame /\ (f.op \in Mutators => f.path # <<>>)
  BY ThreadFrame
<1>2. PICK rest \in Pending :
         \/ /\ rest # <<>>
            /\ strtok' = [strtok EXCEPT !.rest = Tail(rest)]
            /\ Goto(t, "lookup", [f EXCEPT !.comp = Head(rest)])
         \/ /\ strtok' = [rest  |-> IF rest = <<>> THEN <<>> ELSE Tail(rest),
                          owner |-> strtok.owner \ {t}]
            /\ Goto(t, "resolved", [f EXCEPT !.found = @ /\ rest = <<>>,
                                             !.comp = NoName, !.ra = "idle"])
  BY DEF walk
<1>3. rest \in Seq(Name)
  <2>1. strtok.rest \in Seq(Name)
    BY DEF TypeOK
  <2>2. rest = strtok.rest \/ rest = <<>> \/ \E n \in Name : rest = <<n>>
    BY <1>2 DEF Pending
  <2>3. \A n \in Name : <<n>> \in Seq(Name)
    OBVIOUS
  <2>4. <<>> \in Seq(Name)
    OBVIOUS
  <2> QED
    BY <2>1, <2>2, <2>3, <2>4
<1>4. /\ rest # <<>> => Head(rest) \in Name /\ Tail(rest) \in Seq(Name)
      /\ strtok.owner \subseteq Thread
  BY <1>3 DEF TypeOK
<1>5. IsStream(meta)' /\ UNCHANGED <<up, superblock, root, meta, block, remote>>
  BY DEF walk, TypeOK
<1>6. {"lookup", "resolved", "idle"} \subseteq Labels
  BY DEF Labels
<1>7. CASE /\ rest # <<>>
           /\ strtok' = [strtok EXCEPT !.rest = Tail(rest)]
           /\ Goto(t, "lookup", [f EXCEPT !.comp = Head(rest)])
  <2> DEFINE g == [f EXCEPT !.comp = Head(rest)]
  <2>1. g \in Frame /\ (g.op \in Mutators => g.path # <<>>)
    BY <1>1, <1>4, <1>7 DEF Frame
  <2>2. strtok' \in [rest : Seq(Name), owner : SUBSET Thread]
    BY <1>4, <1>7 DEF TypeOK
  <2> HIDE DEF g
  <2>3. Goto(t, "lookup", g)
    BY <1>7 DEF g
  <2> QED
    BY <1>5, <1>6, <2>1, <2>2, <2>3, MoveType DEF TypeOK, remote
<1>8. CASE /\ strtok' = [rest  |-> IF rest = <<>> THEN <<>> ELSE Tail(rest),
                         owner |-> strtok.owner \ {t}]
           /\ Goto(t, "resolved", [f EXCEPT !.found = @ /\ rest = <<>>,
                                            !.comp = NoName, !.ra = "idle"])
  <2> DEFINE g == [f EXCEPT !.found = @ /\ rest = <<>>, !.comp = NoName, !.ra = "idle"]
  <2>1. g \in Frame /\ (g.op \in Mutators => g.path # <<>>)
    BY <1>1, <1>6 DEF Frame
  <2>2. (IF rest = <<>> THEN <<>> ELSE Tail(rest)) \in Seq(Name)
    BY <1>4
  <2>3. strtok' \in [rest : Seq(Name), owner : SUBSET Thread]
    BY <1>4, <1>8, <2>2
  <2> HIDE DEF g
  <2>4. Goto(t, "resolved", g)
    BY <1>8 DEF g
  <2> QED
    BY <1>5, <1>6, <2>1, <2>3, <2>4, MoveType DEF TypeOK, remote
<1> QED
  BY <1>2, <1>7, <1>8

LEMMA AnswerType ==
  ASSUME TypeOK, NEW t \in Thread, NEW ret \in {"ok", "ENOENT", "EEXIST", "driver"},
         Answer(t, ret)
  PROVE  \E g \in Frame : Goto(t, "done", g) /\ (g.op \in Mutators => g.path # <<>>)
<1> DEFINE g == [frame[t] EXCEPT !.ret = ret]
<1>1. g \in Frame /\ (g.op \in Mutators => g.path # <<>>)
  BY ThreadFrame DEF Frame
<1>2. Goto(t, "done", g)
  BY DEF Answer
<1> HIDE DEF g
<1> QED
  BY <1>1, <1>2

LEMMA ResolvedType ==
  ASSUME TypeOK, NEW t \in Thread, resolved(t)
  PROVE  TypeOK'
<1> DEFINE f == frame[t]
           touched == [f EXCEPT !.node.i_atime = "set", !.ra = "done", !.ret = "ok"]
           named_ == [f EXCEPT !.base = f.node, !.comp = Last(f.path), !.ra = "named"]
<1>1. f \in Frame /\ (f.op \in Mutators => f.path # <<>> /\ Last(f.path) \in Name)
  BY ThreadFrame
<1>2. UNCHANGED <<up, superblock, root, meta, strtok, block, remote>>
  BY DEF resolved
<1>3. {"done", "list", "update_inode", "lookup", "named"} \subseteq Labels
  BY DEF Labels
<1>4. CASE Answer(t, "ENOENT") \/ Answer(t, "ok")
  BY <1>2, <1>3, <1>4, AnswerType, LocalType
<1>5. CASE Goto(t, "list", f)
  BY <1>1, <1>2, <1>3, <1>5, LocalType
<1>6. CASE Goto(t, "update_inode", touched)
  <2>1. touched \in Frame /\ (touched.op \in Mutators => touched.path # <<>>)
    BY <1>1, <1>3 DEF Frame, Inode, Stamp
  <2> HIDE DEF touched
  <2> QED
    BY <1>2, <1>3, <1>6, <2>1, LocalType
<1>7. CASE f.op \in Mutators /\ Goto(t, "lookup", named_)
  <2>1. named_ \in Frame /\ (named_.op \in Mutators => named_.path # <<>>)
    BY <1>1, <1>3, <1>7 DEF Frame
  <2> HIDE DEF named_
  <2> QED
    BY <1>2, <1>3, <1>7, <2>1, LocalType
<1> QED
  BY <1>4, <1>5, <1>6, <1>7 DEF resolved

LEMMA ListType ==
  ASSUME TypeOK, NEW t \in Thread, list(t)
  PROVE  TypeOK'
<1> DEFINE f == frame[t]
<1>1. f \in Frame /\ (f.op \in Mutators => f.path # <<>>)
  BY ThreadFrame
<1>2. "done" \in Labels /\ f.node.i_block \in Nat
  BY <1>1 DEF Labels, Frame, Inode
<1>3. CASE Answer(t, "ok") /\ UNCHANGED <<up, superblock, root, meta, strtok, block, remote>>
  BY <1>2, <1>3, AnswerType, LocalType
<1>4. CASE Die
  BY <1>4, DieType
<1>5. ASSUME NEW data \in Buffers, Downloaded(f.node.i_block, data),
             Goto(t, "done", [f EXCEPT !.data = data, !.ret = "ok"]),
             UNCHANGED <<up, superblock, root, meta, strtok, block>>
      PROVE  TypeOK'
  <2> DEFINE g == [f EXCEPT !.data = data, !.ret = "ok"]
  <2>1. data \in Block
    BY BlockTypes
  <2>2. g \in Frame /\ (g.op \in Mutators => g.path # <<>>)
    BY <1>1, <2>1 DEF Frame
  <2> HIDE DEF g
  <2>3. Goto(t, "done", g)
    BY <1>5 DEF g
  <2>4. IsStream(meta)'
    BY <1>5 DEF TypeOK
  <2> QED
    BY <1>2, <1>5, <2>2, <2>3, <2>4, DownloadedType, MoveType DEF TypeOK
<1> QED
  BY <1>3, <1>4, <1>5 DEF list

LEMMA NamedType ==
  ASSUME TypeOK, NEW t \in Thread, named(t)
  PROVE  TypeOK'
<1> DEFINE f == frame[t]
           node == NewInode(superblock.s_free_inode, f.op)
           g == [f EXCEPT !.node = node, !.ra = "inode_written"]
<1>1. f \in Frame /\ (f.op \in Mutators => f.path # <<>>)
  BY ThreadFrame
<1>2. UNCHANGED <<up, superblock, root, meta, strtok, block, remote>>
  BY DEF named
<1>3. {"done", "update_inode", "inode_written"} \subseteq Labels
  BY DEF Labels
<1>4. CASE Answer(t, "EEXIST") \/ Answer(t, "ENOENT")
  BY <1>2, <1>3, <1>4, AnswerType, LocalType
<1>5. CASE Goto(t, "update_inode", g)
  <2>1. node \in Inode
    BY DEF NewInode, Inode, Mode, Stamp, TypeOK, Super
  <2>2. g \in Frame /\ (g.op \in Mutators => g.path # <<>>)
    BY <1>1, <1>3, <2>1 DEF Frame
  <2> HIDE DEF g
  <2> QED
    BY <1>2, <1>3, <1>5, <2>2, LocalType
<1> QED
  BY <1>4, <1>5 DEF named

LEMMA CounterType ==
  ASSUME TypeOK, NEW t \in Thread,
         inode_written(t) \/ dir_written(t) \/ bump_inode(t) \/ bump_block(t)
  PROVE  TypeOK'
<1> DEFINE f == frame[t]
<1>1. f \in Frame /\ (f.op \in Mutators => f.path # <<>>) /\ f.n \in Nat
  BY ThreadFrame DEF Frame
<1>2. superblock \in Super /\ next_inode_no \in Nat /\ next_data_block_no \in Nat
  BY DEF TypeOK, Super, next_inode_no, next_data_block_no
<1>3. {"bump_inode", "bump_block", "update_superblock", "slot", "dir_block", "dir_free"}
        \subseteq Labels
  BY DEF Labels
<1>4. ASSUME NEW n \in Nat, NEW ra \in Labels
      PROVE  /\ [f EXCEPT !.n = n] \in Frame
             /\ [f EXCEPT !.n = n].op = f.op /\ [f EXCEPT !.n = n].path = f.path
             /\ [f EXCEPT !.n = n, !.ra = ra] \in Frame
             /\ [f EXCEPT !.n = n, !.ra = ra].op = f.op
             /\ [f EXCEPT !.n = n, !.ra = ra].path = f.path
  BY <1>1, <1>4 DEF Frame
<1>5. CASE inode_written(t)
  BY <1>1, <1>2, <1>3, <1>4, <1>5, LocalType DEF inode_written
<1>6. CASE dir_written(t)
  BY <1>1, <1>2, <1>3, <1>4, <1>6, LocalType DEF dir_written
<1>7. CASE bump_inode(t)
  <2>1. superblock' \in Super
    BY <1>1, <1>2, <1>7 DEF bump_inode, Super
  <2>2. IsStream(meta)'
    BY <1>7 DEF bump_inode, TypeOK
  <2> DEFINE ra == IF f.op = "create" THEN "slot" ELSE "dir_block"
  <2>3. ra \in Labels
    BY <1>3
  <2> DEFINE g == [f EXCEPT !.n = 0, !.ra = ra]
  <2>4. g \in Frame /\ (g.op \in Mutators => g.path # <<>>)
    BY <1>1, <1>4, <2>3
  <2> HIDE DEF ra, g
  <2>5. Goto(t, "update_superblock", g)
    BY <1>7 DEF bump_inode, ra, g
  <2> QED
    BY <1>3, <1>7, <2>1, <2>2, <2>4, <2>5, MoveType DEF bump_inode, TypeOK, remote
<1>8. CASE bump_block(t)
  <2>1. superblock' \in Super
    BY <1>1, <1>2, <1>8 DEF bump_block, Super
  <2>2. IsStream(meta)'
    BY <1>8 DEF bump_block, TypeOK
  <2> DEFINE g == [f EXCEPT !.n = 0, !.ra = "dir_free"]
  <2>3. g \in Frame /\ (g.op \in Mutators => g.path # <<>>)
    BY <1>1, <1>3, <1>4
  <2> HIDE DEF g
  <2>4. Goto(t, "update_superblock", g)
    BY <1>8 DEF bump_block, g
  <2> QED
    BY <1>3, <1>8, <2>1, <2>2, <2>3, <2>4, MoveType DEF bump_block, TypeOK, remote
<1> QED
  BY <1>5, <1>6, <1>7, <1>8

LEMMA NewDirType ==
  ASSUME TypeOK, NEW t \in Thread, dir_block(t) \/ dir_put(t) \/ dir_iblock(t)
  PROVE  TypeOK'
<1> DEFINE f == frame[t]
<1>1. f \in Frame /\ (f.op \in Mutators => f.path # <<>>)
  BY ThreadFrame
<1>2. {"dir_put", "dir_iblock", "update_inode", "dir_written"} \subseteq Labels
  BY DEF Labels
<1>3. superblock.s_free_block \in Nat
  BY DEF TypeOK, Super
<1>4. CASE dir_block(t)
  <2> DEFINE parent == IF f.op = "init" THEN f.node ELSE f.base
             g == [f EXCEPT !.blk = superblock.s_free_block]
  <2>1. EmptyDir(f.node.i_inode_no, parent.i_inode_no) \in Block
    <3>1. f.node.i_inode_no \in Nat /\ parent.i_inode_no \in Nat
      BY <1>1 DEF Frame, Inode
    <3> QED
      BY <3>1, EmptyDirType
  <2>2. block' \in [data : Block, freed : BOOLEAN]
    BY <1>4, <2>1, BlockTypes DEF dir_block
  <2>3. g \in Frame /\ (g.op \in Mutators => g.path # <<>>)
    BY <1>1, <1>3 DEF Frame
  <2>4. IsStream(meta)'
    BY <1>4 DEF dir_block, TypeOK
  <2> HIDE DEF g, parent
  <2>5. Goto(t, "dir_put", g)
    BY <1>4 DEF dir_block, g
  <2> QED
    BY <1>2, <1>4, <2>2, <2>3, <2>4, <2>5, MoveType DEF dir_block, TypeOK, remote
<1>5. CASE dir_put(t)
  <2> DEFINE g == [f EXCEPT !.blk = 0]
  <2>1. PICK ret \in {"ok", "driver"} : Uploaded(f.blk, block.data, ret)
    BY <1>5 DEF dir_put
  <2>2. f.blk \in Nat /\ block.data \in Block
    BY <1>1 DEF Frame, TypeOK
  <2>3. g \in Frame /\ (g.op \in Mutators => g.path # <<>>)
    BY <1>1 DEF Frame
  <2>4. IsStream(meta)'
    BY <1>5 DEF dir_put, TypeOK
  <2> HIDE DEF g
  <2>5. Goto(t, "dir_iblock", g)
    BY <1>5 DEF dir_put, g
  <2> QED
    BY <1>2, <1>5, <2>1, <2>2, <2>3, <2>4, <2>5, UploadedType, MoveType DEF dir_put, TypeOK
<1>6. CASE dir_iblock(t)
  <2> DEFINE g == [f EXCEPT !.node.i_block = superblock.s_free_block, !.ra = "dir_written"]
  <2>1. g \in Frame /\ (g.op \in Mutators => g.path # <<>>)
    BY <1>1, <1>2, <1>3 DEF Frame, Inode
  <2> HIDE DEF g
  <2>2. Goto(t, "update_inode", g)
    BY <1>6 DEF dir_iblock, g
  <2> QED
    BY <1>2, <1>6, <2>1, <2>2, LocalType DEF dir_iblock
<1> QED
  BY <1>4, <1>5, <1>6

LEMMA DirFreeType ==
  ASSUME TypeOK, NEW t \in Thread, dir_free(t)
  PROVE  TypeOK'
<1>1. frame[t] \in Frame /\ (frame[t].op \in Mutators => frame[t].path # <<>>)
  BY ThreadFrame
<1>2. {"slot", "idle"} \subseteq Labels
  BY DEF Labels
<1>3. CASE Die
  BY <1>3, DieType
<1>4. CASE /\ block' = [block EXCEPT !.freed = TRUE]
           /\ Goto(t, "slot", frame[t])
           /\ UNCHANGED <<up, superblock, root, meta, strtok, remote>>
  <2>1. IsStream(meta)' /\ block' \in [data : Block, freed : BOOLEAN]
    BY <1>4 DEF TypeOK
  <2> QED
    BY <1>1, <1>2, <1>4, <2>1, MoveType DEF TypeOK, remote
<1>5. CASE /\ up' = "mounted"
           /\ root' = frame[t].node
           /\ block' = [data |-> ZeroBlock, freed |-> FALSE]
           /\ Goto(t, "idle", Idle)
           /\ UNCHANGED <<superblock, meta, strtok, remote>>
  <2>1. IsStream(meta)' /\ block' \in [data : Block, freed : BOOLEAN]
    BY <1>5, BlockTypes DEF TypeOK
  <2>2. root' \in Inode
    BY <1>1, <1>5 DEF Frame
  <2>3. Idle.op \notin Mutators
    BY DEF Idle, Mutators
  <2> QED
    BY <1>2, <1>5, <2>1, <2>2, <2>3, IdleType, GotoType DEF TypeOK, remote
<1> QED
  BY <1>3, <1>4, <1>5 DEF dir_free

LEMMA SlotType ==
  ASSUME TypeOK, NEW t \in Thread, slot(t)
  PROVE  TypeOK'
<1> DEFINE f == frame[t]
<1>1. f \in Frame /\ (f.op \in Mutators => f.path # <<>>)
  BY ThreadFrame
<1>2. f.base.i_block \in Nat /\ "link" \in Labels
  BY <1>1 DEF Frame, Inode, Labels
<1>3. ASSUME NEW data \in Buffers
      PROVE  /\ [f EXCEPT !.data = data] \in Frame
             /\ [f EXCEPT !.data = data].op = f.op
             /\ [f EXCEPT !.data = data].path = f.path
  BY <1>1, <1>3, BlockTypes DEF Frame
<1>4. ASSUME NEW data \in Buffers, Goto(t, "link", [f EXCEPT !.data = data]),
             UNCHANGED <<up, superblock, root, meta, strtok, block, remote>>
      PROVE  TypeOK'
  BY <1>1, <1>2, <1>3, <1>4, LocalType
<1>5. CASE Die
  BY <1>5, DieType
<1>6. ASSUME NEW data \in Buffers, Downloaded(f.base.i_block, data),
             UNCHANGED <<up, superblock, root, meta, strtok, block>>,
             \/ Goto(t, "link", [f EXCEPT !.data = data])
             \/ \E i \in Slot : Goto(t, "link", [f EXCEPT !.data = data, !.slot = i,
                                                          !.blk = f.base.i_block])
      PROVE  TypeOK'
  <2>1. IsStream(meta)'
    BY <1>6 DEF TypeOK
  <2>2. PICK g \in Frame : Goto(t, "link", g) /\ (g.op \in Mutators => g.path # <<>>)
    <3>1. CASE Goto(t, "link", [f EXCEPT !.data = data])
      BY <1>1, <1>3, <3>1
    <3>2. ASSUME NEW i \in Slot,
                 Goto(t, "link", [f EXCEPT !.data = data, !.slot = i, !.blk = f.base.i_block])
          PROVE  \E g \in Frame : Goto(t, "link", g) /\ (g.op \in Mutators => g.path # <<>>)
      <4> DEFINE g == [f EXCEPT !.data = data, !.slot = i, !.blk = f.base.i_block]
      <4>1. data \in Block /\ i \in 0..NSlots
        <5>1. data \in Buffers /\ i \in 1..NSlots
          BY <1>6, <3>2 DEF Slot
        <5> QED
          BY <5>1, BlockTypes, BoundAssumption
      <4>2. g \in Frame /\ (g.op \in Mutators => g.path # <<>>)
        BY <1>1, <1>2, <4>1 DEF Frame
      <4> HIDE DEF g
      <4> QED
        BY <3>2, <4>2 DEF g
    <3> QED
      BY <1>6, <3>1, <3>2
  <2> QED
    BY <1>2, <1>6, <2>1, <2>2, DownloadedType, MoveType DEF TypeOK
<1> QED
  BY <1>4, <1>5, <1>6, BlockTypes DEF slot

LEMMA LinkedType ==
  ASSUME NEW f \in Frame, Last(f.path) \in Name
  PROVE  Linked(f) \in Block
<1>1. f.data \in [Slot -> Entry] /\ f.node.i_inode_no \in Nat /\ f.slot \in 0..NSlots
  BY DEF Frame, Block, Inode
<1>2. 1 \in Slot /\ (f.slot # 0 => f.slot \in Slot)
  BY <1>1, BoundAssumption DEF Slot
<1>3. f.slot # 0 => [inode |-> f.node.i_inode_no, name |-> Last(f.path)] \in Entry
  BY <1>1 DEF Entry
<1>4. [inode |-> Far, name |-> Rest[Last(f.path)]] \in Entry
  BY BoundAssumption, NameAssumption DEF Entry, Far
<1> QED
  BY <1>1, <1>2, <1>3, <1>4 DEF Linked, Block

LEMMA LinkType ==
  ASSUME TypeOK, ControlOK, NEW t \in Thread, link(t)
  PROVE  TypeOK'
<1> DEFINE f == frame[t]
<1>1. f \in Frame /\ f.blk \in Nat /\ "done" \in Labels
  BY ThreadFrame DEF Frame, Labels
<1>2. f.op \in Mutators
  BY DEF link, At, ControlOK, Places
<1>3. Linked(f) \in Block
  BY <1>1, <1>2, ThreadFrame, LinkedType
<1>4. ASSUME NEW ret \in {"ok", "driver"}, Uploaded(f.blk, Linked(f), ret),
             Answer(t, ret),
             UNCHANGED <<up, superblock, root, meta, strtok, block>>
      PROVE  TypeOK'
  <2>1. PICK g \in Frame : Goto(t, "done", g) /\ (g.op \in Mutators => g.path # <<>>)
    BY <1>4, AnswerType
  <2>2. IsStream(meta)'
    BY <1>4 DEF TypeOK
  <2> QED
    BY <1>1, <1>3, <1>4, <2>1, <2>2, UploadedType, MoveType DEF TypeOK
<1> QED
  BY <1>4 DEF link

LEMMA DoneType ==
  ASSUME TypeOK, NEW t \in Thread, done(t)
  PROVE  TypeOK'
<1>1. Idle.op \notin Mutators /\ "idle" \in Labels
  BY DEF Idle, Mutators, Labels
<1> QED
  BY <1>1, IdleType, LocalType, DieType DEF done, remote

LEMMA CallType ==
  ASSUME TypeOK, NEW t \in Thread, NEW c \in Calls, Call(t, c)
  PROVE  TypeOK'
<1> DEFINE f == [Idle EXCEPT !.op = c.op, !.path = c.path]
           g == [f EXCEPT !.ret = "ok"]
<1>1. c.op \in Mutators \cup Readers /\ c.path \in Seq(Name)
      /\ (c.op \in Mutators => c.path # <<>>)
  BY CallsAssumption
<1>2. /\ f \in Frame /\ (f.op \in Mutators => f.path # <<>>)
      /\ g \in Frame /\ (g.op \in Mutators => g.path # <<>>)
  BY <1>1, IdleType DEF Frame
<1>3. {"find", "done"} \subseteq Labels
  BY DEF Labels
<1> HIDE DEF f, g
<1>4. \/ /\ Goto(t, "find", f) \/ Goto(t, "done", g)
         /\ UNCHANGED <<up, superblock, root, meta, strtok, block, remote>>
      \/ Die
  BY DEF Call, f, g
<1> QED
  BY <1>2, <1>3, <1>4, LocalType, DieType

(***************************************************************************)
(* The process                                                             *)
(***************************************************************************)
LEMMA MountType ==
  ASSUME TypeOK, NEW t \in Thread, Mount(t)
  PROVE  TypeOK'
<1>1. IsStream(meta)
  BY DEF TypeOK
<1>2. CASE meta.disk = Empty
  <2> DEFINE f == [Idle EXCEPT !.op = "init", !.ra = "inode_written",
                               !.node = NewInode(Fresh.s_free_inode, "init")]
  <2>1. Fresh \in Super /\ "update_inode" \in Labels
    BY DEF Fresh, Super, Labels
  <2>2. NewInode(Fresh.s_free_inode, "init") \in Inode
    BY DEF NewInode, Fresh, Inode, Mode, Stamp
  <2>3. f \in Frame /\ f.op \notin Mutators
    BY <2>2, IdleType DEF Frame, Labels, Mutators
  <2> HIDE DEF f
  <2>4. Goto(t, "update_inode", f)
    BY <1>2 DEF Mount, f
  <2>5. /\ up' = "init" /\ superblock' = Fresh
        /\ UNCHANGED <<root, meta, strtok, block, remote>>
    BY <1>2 DEF Mount
  <2> QED
    BY <1>1, <2>1, <2>3, <2>4, <2>5, GotoType DEF TypeOK, remote
<1>3. CASE meta.disk # Empty
  <2> DEFINE s == Seek(meta, InodePos(1))
  <2>1. IsStream(s)
    BY <1>1, SeekType DEF InodePos
  <2>2. IsStream(AfterRead(s)) /\ InodesRead(s, ZeroInode) \subseteq Inode
    BY <2>1, IdleType, ReadType
  <2> HIDE DEF s
  <2>3. /\ up' = "mounted" /\ superblock' \in Super /\ root' \in Inode
        /\ meta' = AfterRead(s) /\ UNCHANGED <<pc, frame, strtok, block, remote>>
    BY <1>3, <2>2, SupersReadType DEF Mount, s
  <2> QED
    BY <2>2, <2>3 DEF TypeOK, remote
<1> QED
  BY <1>2, <1>3

LEMMA UnmountType ==
  ASSUME TypeOK, Unmount
  PROVE  TypeOK'
<1>1. CASE Die
  BY <1>1, DieType
<1>2. CASE /\ Down(Closed(meta))
           /\ mapping' = [open |-> FALSE, unsaved |-> {}]
           /\ UNCHANGED store
  <2>1. IsStream(Closed(meta))
    BY OpenedType DEF Closed, IsStream, TypeOK
  <2> QED
    BY <1>2, <2>1, DownType DEF TypeOK
<1> QED
  BY <1>1, <1>2 DEF Unmount

(***************************************************************************)
(* Control: which operation may be where                                   *)
(***************************************************************************)
Linking == {"named", "slot", "link"}

Allowed(l, f) ==
    /\ {l, f.ra} \cap Linking # {} => f.op \in Mutators
    /\ {l, f.ra} \cap Making # {} => f.op \in Mutators \cup {"init"}

LEMMA GotoControl ==
  ASSUME TypeOK, ControlOK, NEW t \in Thread, NEW l, NEW f,
         Goto(t, l, f), Allowed(l, f)
  PROVE  ControlOK'
<1>1. /\ pc' = [pc EXCEPT ![t] = l] /\ frame' = [frame EXCEPT ![t] = f]
      /\ pc \in [Thread -> Labels] /\ frame \in [Thread -> Frame]
  BY DEF Goto, TypeOK
<1>2. ASSUME NEW u \in Thread
      PROVE  /\ Places(u)' \cap {"named", "slot", "link"} # {} => frame'[u].op \in Mutators
             /\ Places(u)' \cap Making # {} => frame'[u].op \in Mutators \cup {"init"}
  <2>1. CASE u = t
    BY <1>1, <2>1 DEF Allowed, Linking, Places
  <2>2. CASE u # t
    <3>1. Places(u)' = Places(u) /\ frame'[u] = frame[u]
      BY <1>1, <2>2 DEF Places
    <3> QED
      BY <3>1 DEF ControlOK
  <2> QED
    BY <2>1, <2>2
<1> QED
  BY <1>2 DEF ControlOK

LEMMA DownControl ==
  ASSUME NEW stream, Down(stream)
  PROVE  ControlOK'
  BY DEF Down, ControlOK, Places, Making, Idle

\* Every step of a thread goes to a place its operation may be at.
LEMMA StepControl ==
  ASSUME TypeOK, ControlOK, NEW t \in Thread, Step(t)
  PROVE  ControlOK'
<1> DEFINE f == frame[t]
<1>1. f \in Frame /\ Allowed(pc[t], f)
  BY ThreadFrame DEF ControlOK, Allowed, Linking, Places
<1> SUFFICES (\E l, g : Goto(t, l, g) /\ Allowed(l, g)) \/ Die
  BY GotoControl, DownControl DEF Die
<1>2. CASE find_inode(t)
  BY <1>1, <1>2 DEF find_inode, Allowed, Linking, Making, Frame
<1>3. CASE lookup(t)
  <2>1. Allowed(f.ra, [f EXCEPT !.found = FALSE])
    BY <1>1 DEF Allowed, Frame
  <2>2. ASSUME NEW n PROVE Allowed("get_inode", [f EXCEPT !.n = n])
    BY <1>1 DEF Allowed, Linking, Making, Frame
  <2>3. CASE Goto(t, f.ra, [f EXCEPT !.found = FALSE])
    BY <2>1, <2>3
  <2>4. ASSUME NEW n, Goto(t, "get_inode", [f EXCEPT !.n = n])
        PROVE  \E l, g : Goto(t, l, g) /\ Allowed(l, g)
    BY <2>2, <2>4
  <2> QED
    BY <1>3, <2>3, <2>4 DEF lookup
<1>4. CASE get_inode(t) \/ read_inode(t)
  <2>1. Allowed("read_inode", f)
    BY <1>1 DEF Allowed, Linking, Making
  <2>2. ASSUME NEW inode
        PROVE  Allowed(f.ra, [f EXCEPT !.node = inode, !.found = TRUE, !.n = 0])
    BY <1>1 DEF Allowed, Frame
  <2> QED
    BY <1>4, <2>1, <2>2 DEF get_inode, read_inode
<1>5. CASE walk(t)
  BY <1>1, <1>5 DEF walk, Allowed, Linking, Making, Frame, At
<1>6. CASE resolved(t)
  BY <1>1, <1>6 DEF resolved, Answer, Allowed, Linking, Making, Frame, At, Mutators
<1>7. CASE list(t)
  <2>1. ASSUME NEW data
        PROVE  /\ Allowed("done", [f EXCEPT !.data = data, !.ret = "ok"])
               /\ Allowed("done", [f EXCEPT !.ret = "ok"])
    BY <1>1 DEF Allowed, Linking, Making, Frame
  <2>2. CASE Answer(t, "ok")
    BY <2>1, <2>2 DEF Answer
  <2>3. ASSUME NEW data, Goto(t, "done", [f EXCEPT !.data = data, !.ret = "ok"])
        PROVE  \E l, g : Goto(t, l, g) /\ Allowed(l, g)
    BY <2>1, <2>3
  <2> QED
    BY <1>7, <2>2, <2>3 DEF list
<1>8. CASE named(t)
  BY <1>1, <1>8 DEF named, Answer, Allowed, Linking, Making, Frame, At
<1>9. CASE update_inode(t) \/ write_inode(t) \/ update_superblock(t) \/ write_superblock(t)
  BY <1>1, <1>9 DEF update_inode, write_inode, update_superblock, write_superblock,
                    Allowed, Linking, Making, Frame, At
<1>10. CASE inode_written(t) \/ bump_inode(t) \/ dir_written(t) \/ bump_block(t)
  BY <1>1, <1>10 DEF inode_written, bump_inode, dir_written, bump_block,
                     Allowed, Linking, Making, Frame, At, Mutators
<1>11. CASE dir_block(t) \/ dir_put(t) \/ dir_iblock(t)
  BY <1>1, <1>11 DEF dir_block, dir_put, dir_iblock,
                     Allowed, Linking, Making, Frame, At
<1>12. CASE dir_free(t)
  BY <1>1, <1>12 DEF dir_free, Allowed, Linking, Making, Frame, At, Idle
<1>13. CASE slot(t)
  <2>1. f.op \in Mutators
    BY <1>1, <1>13 DEF slot, At, Allowed, Linking
  <2>2. ASSUME NEW data, NEW i, NEW b
        PROVE  /\ Allowed("link", [f EXCEPT !.data = data])
               /\ Allowed("link", [f EXCEPT !.data = data, !.slot = i, !.blk = b])
    BY <1>1, <2>1 DEF Allowed, Linking, Making, Frame
  <2>3. ASSUME NEW data, Goto(t, "link", [f EXCEPT !.data = data])
        PROVE  \E l, g : Goto(t, l, g) /\ Allowed(l, g)
    BY <2>2, <2>3
  <2>4. ASSUME NEW data, NEW i,
               Goto(t, "link", [f EXCEPT !.data = data, !.slot = i, !.blk = f.base.i_block])
        PROVE  \E l, g : Goto(t, l, g) /\ Allowed(l, g)
    BY <2>2, <2>4
  <2> QED
    BY <1>13, <2>3, <2>4 DEF slot
<1>14. CASE link(t)
  BY <1>1, <1>14 DEF link, Answer, Allowed, Linking, Making, Frame, At
<1>15. CASE done(t)
  BY <1>1, <1>2, <1>15 DEF done, Allowed, Linking, Making, Idle
<1> QED
  BY <1>2, <1>3, <1>4, <1>5, <1>6, <1>7, <1>8, <1>9, <1>10, <1>11, <1>12,
     <1>13, <1>14, <1>15 DEF Step

LEMMA NextControl ==
  ASSUME TypeOK, ControlOK, [Next]_vars
  PROVE  ControlOK'
<1>1. ASSUME NEW t \in Thread, Step(t)
      PROVE  ControlOK'
  BY <1>1, StepControl
<1>2. ASSUME NEW t \in Thread, Mount(t)
      PROVE  ControlOK'
  <2>1. CASE UNCHANGED <<pc, frame>>
    BY <2>1 DEF ControlOK, Places
  <2>2. CASE Goto(t, "update_inode",
                  [Idle EXCEPT !.op = "init", !.ra = "inode_written",
                               !.node = NewInode(Fresh.s_free_inode, "init")])
    BY <2>2, GotoControl DEF Allowed, Linking, Making, Idle
  <2> QED
    BY <1>2, <2>1, <2>2 DEF Mount
<1>3. ASSUME NEW t \in Thread, NEW c \in Calls, Call(t, c)
      PROVE  ControlOK'
  <2>1. CASE \E l, g : Goto(t, l, g) /\ Allowed(l, g)
    BY <2>1, GotoControl
  <2>2. CASE Die
    BY <2>2, DownControl DEF Die
  <2> QED
    BY <1>3, <2>1, <2>2 DEF Call, Allowed, Linking, Making, Idle
<1>4. CASE Unmount \/ Crash
  BY <1>4, DownControl DEF Unmount, Crash, Die
<1>5. CASE UNCHANGED vars
  BY <1>5 DEF vars, ControlOK, Places
<1> QED
  BY <1>1, <1>2, <1>3, <1>4, <1>5 DEF Next

(***************************************************************************)
(* The theorem                                                             *)
(***************************************************************************)
LEMMA InitType == Init => TypeOK /\ ControlOK
<1> SUFFICES ASSUME Init PROVE TypeOK /\ ControlOK
  OBVIOUS
<1>1. Empty = [p \in {} |-> Torn] /\ IsFile(Empty)
  BY DEF Empty, IsFile
<1>2. IsStream(meta)
  BY <1>1, OpenedType DEF Init
<1>3. ZeroBlock \in Block
  BY DEF ZeroBlock, Block, NoEntry, Entry
<1>4. "idle" \in Labels /\ Idle.op \notin Mutators
  BY DEF Labels, Idle, Mutators
<1>5. TypeOK
  BY <1>2, <1>3, <1>4, IdleType DEF Init, TypeOK
<1>6. ControlOK
  BY DEF Init, ControlOK, Places, Making, Idle
<1> QED
  BY <1>5, <1>6

LEMMA NextType ==
  ASSUME TypeOK, ControlOK, [Next]_vars
  PROVE  TypeOK'
<1>1. ASSUME NEW t \in Thread, Step(t)
      PROVE  TypeOK'
  BY <1>1, FindInodeType, LookupType, InodeIOType, SuperIOType, WalkType,
     ResolvedType, ListType, NamedType, CounterType, NewDirType, DirFreeType,
     SlotType, LinkType, DoneType DEF Step
<1>2. ASSUME NEW t \in Thread, Mount(t)
      PROVE  TypeOK'
  BY <1>2, MountType
<1>3. ASSUME NEW t \in Thread, NEW c \in Calls, Call(t, c)
      PROVE  TypeOK'
  BY <1>3, CallType
<1>4. CASE Unmount \/ Crash
  BY <1>4, UnmountType, DieType DEF Crash
<1>5. CASE UNCHANGED vars
  <2>1. IsStream(meta)'
    BY <1>5 DEF vars, TypeOK
  <2> QED
    BY <1>5, <2>1 DEF vars, remote, TypeOK
<1> QED
  BY <1>1, <1>2, <1>3, <1>4, <1>5 DEF Next

\* In every state the program reaches, with any number of threads, every global,
\* every local and every record of the files has the type the C code declares.
THEOREM TypeCorrect == Spec => []TypeOK
<1>1. Init => TypeOK /\ ControlOK
  BY InitType
<1>2. TypeOK /\ ControlOK /\ [Next]_vars => (TypeOK /\ ControlOK)'
  BY NextType, NextControl
<1> QED
  BY <1>1, <1>2, PTL DEF Spec

(***************************************************************************)
(* One thread                                                              *)
(***************************************************************************)
Serial == \A t, u \in Thread : t = u

(***************************************************************************)
(* Records in their places                                                 *)
(***************************************************************************)
\* Where the functions called from several places return to.
RouteAt(l, f) ==
    /\ l \in {"lookup", "get_inode", "read_inode"} => f.ra \in {"walk", "named"}
    /\ l = "walk" => f.ra = "walk"
    /\ l \in {"update_inode", "write_inode"} =>
         f.ra \in {"done", "inode_written", "dir_written"}
    /\ l \in {"update_superblock", "write_superblock"} =>
         f.ra \in {"slot", "dir_block", "dir_free"}

\* Before a write the stream is where the seek put it.
PositionedAt(l, f, s) ==
    /\ l = "write_inode" => s.pos = InodePos(f.node.i_inode_no) /\ ~s.mid
    /\ l = "write_superblock" => s.pos = SuperPos /\ ~s.mid

InPlace(file) ==
    \A p \in DOMAIN file :
        IF p = SuperPos THEN file[p] \in Super
        ELSE file[p] \in Inode /\ InodePos(file[p].i_inode_no) = p

\* Before a mount no thread is in a call.
Resting == up = "unmounted" => \A t \in Thread : pc[t] = "idle"

PlacedInv ==
    /\ \A t \in Thread : RouteAt(pc[t], frame[t]) /\ PositionedAt(pc[t], frame[t], meta)
    /\ InPlace(meta.view) /\ InPlace(meta.disk)

LEMMA RecordKinds == Inode \cap Super = {}
<1> SUFFICES ASSUME NEW r \in Inode, r \in Super PROVE FALSE
  OBVIOUS
<1>1. "i_inode_no" \in DOMAIN r
  BY DEF Inode
<1>2. "i_inode_no" \notin DOMAIN r
  BY DEF Super
<1> QED
  BY <1>1, <1>2

LEMMA WriteInPlace ==
  ASSUME NEW s, IsStream(s), ~s.mid, InPlace(s.view), InPlace(s.disk),
         NEW r, \/ s.pos = SuperPos /\ r \in Super
                \/ r \in Inode /\ s.pos = InodePos(r.i_inode_no)
  PROVE  /\ InPlace(Write(s, r).view) /\ InPlace(Write(s, r).disk)
         /\ DOMAIN Write(s, r).view = DOMAIN s.view \cup {s.pos}
         /\ Write(s, r).disk = s.disk
<1>1. r \in Inode => r \notin Super /\ s.pos # SuperPos
  BY RecordKinds DEF InodePos, SuperPos, Inode
<1>2. Touched(s) = {s.pos} /\ Fits(s, r)
  BY <1>1 DEF Touched, Fits
<1>3. Write(s, r).view = [p \in DOMAIN s.view \cup {s.pos} |->
                            IF p = s.pos THEN r ELSE s.view[p]]
  BY <1>2 DEF Write
<1>4. Write(s, r).disk = s.disk
  BY DEF Write
<1>5. DOMAIN Write(s, r).view = DOMAIN s.view \cup {s.pos}
  BY <1>3
<1>6. InPlace(Write(s, r).view)
  <2> SUFFICES ASSUME NEW p \in DOMAIN s.view \cup {s.pos}
               PROVE  LET x == Write(s, r).view[p]
                      IN  IF p = SuperPos THEN x \in Super
                          ELSE x \in Inode /\ InodePos(x.i_inode_no) = p
    BY <1>5 DEF InPlace
  <2>1. CASE p = s.pos
    BY <1>1, <1>3, <2>1
  <2>2. CASE p # s.pos
    <3>1. Write(s, r).view[p] = s.view[p] /\ p \in DOMAIN s.view
      BY <1>3, <2>2
    <3> QED
      BY <3>1 DEF InPlace
  <2> QED
    BY <2>1, <2>2
<1> QED
  BY <1>4, <1>5, <1>6

\* One step of the one thread: what holds at its new place holds of all threads.
LEMMA SerialMove ==
  ASSUME Serial, TypeOK, NEW t \in Thread, NEW l, NEW f, Goto(t, l, f),
         RouteAt(l, f), PositionedAt(l, f, meta'),
         InPlace(meta'.view), InPlace(meta'.disk)
  PROVE  PlacedInv'
<1>1. pc'[t] = l /\ frame'[t] = f
  BY DEF Goto, TypeOK
<1>2. \A u \in Thread : u = t
  BY DEF Serial
<1> QED
  BY <1>1, <1>2 DEF PlacedInv

LEMMA DownPlaced ==
  ASSUME NEW file, InPlace(file), Down(Opened(file))
  PROVE  PlacedInv'
  BY DEF Down, Opened, PlacedInv, RouteAt, PositionedAt, Idle

LEMMA DiePlaced ==
  ASSUME PlacedInv, Die
  PROVE  PlacedInv'
  BY DownPlaced DEF Die, Dropped, PlacedInv

LEMMA StepPlaced ==
  ASSUME Serial, TypeOK, PlacedInv, NEW t \in Thread, Step(t)
  PROVE  PlacedInv'
<1> DEFINE f == frame[t]
           There(l, g) == RouteAt(l, g) /\ PositionedAt(l, g, meta')
                          /\ InPlace(meta'.view) /\ InPlace(meta'.disk)
<1>1. f \in Frame /\ RouteAt(pc[t], f) /\ PositionedAt(pc[t], f, meta)
  BY ThreadFrame DEF PlacedInv
<1>2. IsStream(meta) /\ InPlace(meta.view) /\ InPlace(meta.disk)
  BY DEF TypeOK, PlacedInv
<1> SUFFICES (\E l, g : Goto(t, l, g) /\ There(l, g)) \/ Die
  BY SerialMove, DiePlaced
\* The places without a condition.
<1> DEFINE Free == Labels \ {"lookup", "get_inode", "read_inode", "walk", "update_inode",
                             "write_inode", "update_superblock", "write_superblock"}
<1>3. ASSUME NEW l \in Free, NEW g, Goto(t, l, g), UNCHANGED meta
      PROVE  \E k, h : Goto(t, k, h) /\ There(k, h)
  BY <1>2, <1>3 DEF RouteAt, PositionedAt
<1>4. ASSUME NEW l \in {"lookup", "walk", "get_inode", "update_inode", "update_superblock"},
             NEW g, Goto(t, l, g), RouteAt(l, g), UNCHANGED meta
      PROVE  \E k, h : Goto(t, k, h) /\ There(k, h)
  BY <1>2, <1>4 DEF PositionedAt
<1>5. CASE find_inode(t)
  <2>1. PICK l \in {"resolved", "lookup"} :
           \E g : Goto(t, l, g) /\ (l = "lookup" => g.ra = "walk")
    <3> DEFINE path == Target(f)
               g == [f EXCEPT !.node = root, !.comp = Head(path), !.ra = "walk"]
    <3>1. g.ra = "walk"
      BY <1>1 DEF Frame
    <3> QED
      BY <1>5, <3>1 DEF find_inode
  <2>2. PICK g : Goto(t, l, g) /\ (l = "lookup" => g.ra = "walk")
    BY <2>1
  <2> QED
    BY <1>3, <1>4, <1>5, <2>2 DEF find_inode, RouteAt, Labels
<1>6. CASE lookup(t)
  <2>1. f.ra \in {"walk", "named"}
    BY <1>1, <1>6 DEF lookup, At, RouteAt
  <2>2. ASSUME NEW g, Goto(t, f.ra, g), g.ra = f.ra, UNCHANGED meta
        PROVE  \E k, h : Goto(t, k, h) /\ There(k, h)
    BY <1>3, <1>4, <2>1, <2>2 DEF RouteAt, Labels
  <2>3. ASSUME NEW n, Goto(t, "get_inode", [f EXCEPT !.n = n]), UNCHANGED meta
        PROVE  \E k, h : Goto(t, k, h) /\ There(k, h)
    <3>1. [f EXCEPT !.n = n].ra = f.ra
      BY <1>1 DEF Frame
    <3> QED
      BY <1>4, <2>1, <2>3, <3>1 DEF RouteAt
  <2>4. [f EXCEPT !.found = FALSE].ra = f.ra
    BY <1>1 DEF Frame
  <2> QED
    BY <1>6, <2>2, <2>3, <2>4 DEF lookup
<1>7. CASE get_inode(t)
  <2>1. RouteAt("read_inode", f) /\ PositionedAt("read_inode", f, meta')
    BY <1>1, <1>7 DEF get_inode, At, RouteAt, PositionedAt
  <2>2. InPlace(meta'.view) /\ InPlace(meta'.disk)
    BY <1>2, <1>7 DEF get_inode, Seek
  <2> QED
    BY <1>7, <2>1, <2>2 DEF get_inode
<1>8. CASE read_inode(t)
  <2>1. PICK inode : Goto(t, f.ra, [f EXCEPT !.node = inode, !.found = TRUE, !.n = 0])
    BY <1>8 DEF read_inode
  <2> DEFINE g == [f EXCEPT !.node = inode, !.found = TRUE, !.n = 0]
  <2>2. g.ra = f.ra /\ f.ra \in {"walk", "named"}
    BY <1>1, <1>8 DEF read_inode, At, RouteAt, Frame
  <2>3. InPlace(meta'.view) /\ InPlace(meta'.disk)
    BY <1>2, <1>8 DEF read_inode, AfterRead
  <2> HIDE DEF g
  <2> QED
    BY <2>1, <2>2, <2>3 DEF g, RouteAt, PositionedAt
<1>9. CASE walk(t)
  <2>1. f.ra = "walk"
    BY <1>1, <1>9 DEF walk, At, RouteAt
  <2>2. ASSUME NEW c, Goto(t, "lookup", [f EXCEPT !.comp = c])
        PROVE  \E k, h : Goto(t, k, h) /\ There(k, h)
    <3>1. [f EXCEPT !.comp = c].ra = "walk"
      BY <1>1, <2>1 DEF Frame
    <3> QED
      BY <1>4, <1>9, <2>2, <3>1 DEF walk, RouteAt
  <2>3. ASSUME NEW g, Goto(t, "resolved", g)
        PROVE  \E k, h : Goto(t, k, h) /\ There(k, h)
    BY <1>3, <1>9, <2>3 DEF walk, Labels
  <2> QED
    BY <1>9, <2>2, <2>3 DEF walk
<1>10. CASE resolved(t)
  <2> DEFINE u == [f EXCEPT !.node.i_atime = "set", !.ra = "done", !.ret = "ok"]
             m == [f EXCEPT !.base = f.node, !.comp = Last(f.path), !.ra = "named"]
  <2>1. u.ra = "done" /\ m.ra = "named"
    BY <1>1 DEF Frame
  <2>2. RouteAt("update_inode", u) /\ RouteAt("lookup", m)
    BY <2>1 DEF RouteAt
  <2>3. \/ \E l \in {"done", "list"} : \E g : Goto(t, l, g)
        \/ Goto(t, "update_inode", u) \/ Goto(t, "lookup", m)
    BY <1>10 DEF resolved, Answer
  <2> HIDE DEF u, m
  <2> QED
    BY <1>3, <1>4, <1>10, <2>2, <2>3 DEF resolved, Labels
<1>11. CASE list(t)
  <2>1. UNCHANGED meta \/ Die
    BY <1>11 DEF list
  <2>2. Die \/ \E g : Goto(t, "done", g)
    BY <1>11 DEF list, Answer
  <2> QED
    BY <1>3, <2>1, <2>2 DEF Labels, Die, Down
<1>12. CASE named(t)
  <2> DEFINE g == [f EXCEPT !.node = NewInode(superblock.s_free_inode, f.op),
                            !.ra = "inode_written"]
  <2>1. g.ra = "inode_written"
    BY <1>1 DEF Frame
  <2>2. RouteAt("update_inode", g)
    BY <2>1 DEF RouteAt
  <2>3. (\E h : Goto(t, "done", h)) \/ Goto(t, "update_inode", g)
    BY <1>12 DEF named, Answer
  <2> HIDE DEF g
  <2> QED
    BY <1>3, <1>4, <1>12, <2>2, <2>3 DEF named, Labels
<1>13. CASE update_inode(t)
  <2>1. RouteAt("write_inode", f) /\ PositionedAt("write_inode", f, meta')
    BY <1>1, <1>13 DEF update_inode, At, RouteAt, PositionedAt, Seek
  <2>2. InPlace(meta'.view) /\ InPlace(meta'.disk)
    BY <1>2, <1>13 DEF update_inode, Seek
  <2> QED
    BY <1>13, <2>1, <2>2 DEF update_inode
<1>14. CASE write_inode(t)
  <2>1. f.ra \in {"done", "inode_written", "dir_written"}
    BY <1>1, <1>14 DEF write_inode, At, RouteAt
  <2>2. RouteAt(f.ra, f) /\ PositionedAt(f.ra, f, meta')
    BY <2>1 DEF RouteAt, PositionedAt
  <2>3. f.node \in Inode /\ meta.pos = InodePos(f.node.i_inode_no) /\ ~meta.mid
    BY <1>1, <1>14 DEF write_inode, At, PositionedAt, Frame
  <2>4. InPlace(meta'.view) /\ InPlace(meta'.disk)
    BY <1>2, <1>14, <2>3, WriteInPlace DEF write_inode
  <2> QED
    BY <1>14, <2>2, <2>4 DEF write_inode
<1>15. CASE update_superblock(t)
  <2>1. RouteAt("write_superblock", f) /\ PositionedAt("write_superblock", f, meta')
    BY <1>1, <1>15 DEF update_superblock, At, RouteAt, PositionedAt, Seek
  <2>2. InPlace(meta'.view) /\ InPlace(meta'.disk)
    BY <1>2, <1>15 DEF update_superblock, Seek
  <2> QED
    BY <1>15, <2>1, <2>2 DEF update_superblock
<1>16. CASE write_superblock(t)
  <2>1. f.ra \in {"slot", "dir_block", "dir_free"}
    BY <1>1, <1>16 DEF write_superblock, At, RouteAt
  <2>2. RouteAt(f.ra, f) /\ PositionedAt(f.ra, f, meta')
    BY <2>1 DEF RouteAt, PositionedAt
  <2>3. superblock \in Super /\ meta.pos = SuperPos /\ ~meta.mid
    BY <1>1, <1>16 DEF write_superblock, At, PositionedAt, TypeOK
  <2>4. InPlace(meta'.view) /\ InPlace(meta'.disk)
    BY <1>2, <1>16, <2>3, WriteInPlace DEF write_superblock
  <2> QED
    BY <1>16, <2>2, <2>4 DEF write_superblock
<1>17. CASE inode_written(t) \/ dir_written(t) \/ dir_block(t) \/ dir_put(t)
  BY <1>3, <1>17 DEF inode_written, dir_written, dir_block, dir_put, Labels
<1>18. CASE bump_inode(t)
  <2> DEFINE g == [f EXCEPT !.n = 0,
                     !.ra = IF f.op = "create" THEN "slot" ELSE "dir_block"]
  <2>1. g.ra \in {"slot", "dir_block"}
    BY <1>1 DEF Frame
  <2>2. RouteAt("update_superblock", g)
    BY <2>1 DEF RouteAt
  <2>3. Goto(t, "update_superblock", g)
    BY <1>18 DEF bump_inode
  <2> HIDE DEF g
  <2> QED
    BY <1>4, <1>18, <2>2, <2>3 DEF bump_inode
<1>19. CASE bump_block(t)
  <2> DEFINE g == [f EXCEPT !.n = 0, !.ra = "dir_free"]
  <2>1. g.ra = "dir_free"
    BY <1>1 DEF Frame
  <2>2. RouteAt("update_superblock", g)
    BY <2>1 DEF RouteAt
  <2>3. Goto(t, "update_superblock", g)
    BY <1>19 DEF bump_block
  <2> HIDE DEF g
  <2> QED
    BY <1>4, <1>19, <2>2, <2>3 DEF bump_block
<1>20. CASE dir_iblock(t)
  <2> DEFINE g == [f EXCEPT !.node.i_block = superblock.s_free_block, !.ra = "dir_written"]
  <2>1. g.ra = "dir_written"
    BY <1>1 DEF Frame
  <2>2. RouteAt("update_inode", g)
    BY <2>1 DEF RouteAt
  <2>3. Goto(t, "update_inode", g)
    BY <1>20 DEF dir_iblock
  <2> HIDE DEF g
  <2> QED
    BY <1>4, <1>20, <2>2, <2>3 DEF dir_iblock
<1>21. CASE dir_free(t) \/ slot(t) \/ link(t) \/ done(t)
  <2>1. Die \/ UNCHANGED meta
    BY <1>21 DEF dir_free, slot, link, done
  <2>2. Die \/ \E l \in {"idle", "slot", "link", "done"} : \E g : Goto(t, l, g)
    BY <1>21 DEF dir_free, slot, link, done, Answer
  <2> QED
    BY <1>3, <2>1, <2>2 DEF Labels
<1> QED
  BY <1>5, <1>6, <1>7, <1>8, <1>9, <1>10, <1>11, <1>12, <1>13, <1>14, <1>15,
     <1>16, <1>17, <1>18, <1>19, <1>20, <1>21 DEF Step

LEMMA NextResting ==
  ASSUME TypeOK, Resting, [Next]_vars
  PROVE  Resting'
<1>1. CASE Die \/ Unmount \/ Crash
  BY <1>1 DEF Unmount, Crash, Die, Down, Resting
<1>2. ASSUME NEW t \in Thread, Step(t)
      PROVE  Resting'
  <2>1. pc[t] # "idle"
    BY <1>2 DEF Step, find_inode, lookup, get_inode, read_inode, walk, resolved, list, named,
       update_inode, write_inode, update_superblock, write_superblock, inode_written,
       bump_inode, dir_block, dir_put, dir_iblock, dir_written, bump_block, dir_free,
       slot, link, done, At
  <2>2. Die \/ UNCHANGED up \/ up' = "mounted"
    BY <1>2 DEF Step, find_inode, lookup, get_inode, read_inode, walk, resolved, list, named,
       update_inode, write_inode, update_superblock, write_superblock, inode_written,
       bump_inode, dir_block, dir_put, dir_iblock, dir_written, bump_block, dir_free,
       slot, link, done
  <2> QED
    BY <1>1, <2>1, <2>2 DEF Resting
<1>3. ASSUME NEW t \in Thread, Mount(t)
      PROVE  Resting'
  BY <1>3 DEF Mount, Resting
<1>4. ASSUME NEW t \in Thread, NEW c \in Calls, Call(t, c)
      PROVE  Resting'
  BY <1>1, <1>4 DEF Call, Resting
<1>5. CASE UNCHANGED vars
  BY <1>5 DEF vars, Resting
<1> QED
  BY <1>1, <1>2, <1>3, <1>4, <1>5 DEF Next

LEMMA NextPlaced ==
  ASSUME Serial, TypeOK, Resting, PlacedInv, [Next]_vars
  PROVE  PlacedInv'
<1>1. ASSUME NEW t \in Thread, Step(t)
      PROVE  PlacedInv'
  BY <1>1, StepPlaced
<1>2. ASSUME NEW t \in Thread, Mount(t)
      PROVE  PlacedInv'
  <2>1. CASE meta.disk = Empty
    <3> DEFINE g == [Idle EXCEPT !.op = "init", !.ra = "inode_written",
                                 !.node = NewInode(Fresh.s_free_inode, "init")]
    <3>1. g.ra = "inode_written"
      BY DEF Idle
    <3>2. Goto(t, "update_inode", g) /\ UNCHANGED meta
      BY <1>2, <2>1 DEF Mount
    <3>3. RouteAt("update_inode", g) /\ PositionedAt("update_inode", g, meta')
      BY <3>1 DEF RouteAt, PositionedAt
    <3> HIDE DEF g
    <3> QED
      BY <3>2, <3>3, SerialMove DEF PlacedInv
  <2>2. CASE meta.disk # Empty
    <3>1. UNCHANGED <<pc, frame>> /\ meta' = AfterRead(Seek(meta, InodePos(1)))
          /\ up = "unmounted"
      BY <1>2, <2>2 DEF Mount
    <3>2. \A u \in Thread : pc[u] = "idle"
      BY <3>1 DEF Resting
    <3>3. meta'.view = meta.view /\ meta'.disk = meta.view
      BY <3>1 DEF AfterRead, Seek
    <3> QED
      BY <3>1, <3>2, <3>3 DEF PlacedInv, RouteAt, PositionedAt
  <2> QED
    BY <2>1, <2>2
<1>3. ASSUME NEW t \in Thread, NEW c \in Calls, Call(t, c)
      PROVE  PlacedInv'
  <2>1. CASE Die
    BY <2>1, DiePlaced
  <2>2. ASSUME NEW l \in {"find", "done"}, NEW g, Goto(t, l, g), UNCHANGED meta
        PROVE  PlacedInv'
    BY <2>2, SerialMove DEF PlacedInv, RouteAt, PositionedAt
  <2> QED
    BY <1>3, <2>1, <2>2 DEF Call
<1>4. CASE Unmount \/ Crash
  <2>1. CASE Down(Closed(meta))
    BY <2>1, DownPlaced DEF Closed, PlacedInv
  <2> QED
    BY <1>4, <2>1, DiePlaced DEF Unmount, Crash
<1>5. CASE UNCHANGED vars
  BY <1>5 DEF vars, PlacedInv
<1> QED
  BY <1>1, <1>2, <1>3, <1>4, <1>5 DEF Next

LEMMA InitPlaced == Init => Resting /\ PlacedInv
  BY DEF Init, Resting, PlacedInv, RouteAt, PositionedAt, InPlace, Opened, Empty, Idle

\* update_inode and update_superblock: with one thread, whatever the history of
\* calls, failures and crashes, a record of the metadata file is the inode of its
\* position or, at the front, the superblock.
THEOREM SerialInPlace == Serial /\ Spec => []InodesInPlace
<1> SUFFICES ASSUME Serial PROVE Spec => []InodesInPlace
  OBVIOUS
<1> DEFINE Inv == TypeOK /\ ControlOK /\ Resting /\ PlacedInv
<1>1. Init => Inv
  BY InitType, InitPlaced
<1>2. Inv /\ [Next]_vars => Inv'
  BY NextType, NextControl, NextResting, NextPlaced
<1>3. Inv => InodesInPlace
  BY DEF PlacedInv, InPlace, InodesInPlace
<1> QED
  BY <1>1, <1>2, <1>3, PTL DEF Spec

(***************************************************************************)
(* No name before its inode                                                *)
(***************************************************************************)
\* The numbers a block has names for are those of inodes in this file.
Clean(data, file) ==
    \A i \in Slot : data[i].name \in Name /\ data[i].inode # Far =>
                     InodePos(data[i].inode) \in DOMAIN file

Behind == {"write_superblock", "dir_block", "dir_put", "dir_iblock", "dir_written",
           "bump_block", "dir_free", "slot", "link"}

\* How far the inode a call makes has got: written, and then on disk once the
\* seek to the superblock has flushed it.
RecordedAt(l, f, s) ==
    LET p == InodePos(f.node.i_inode_no)
    IN  /\ l \in {"inode_written", "bump_inode", "update_superblock"} => p \in DOMAIN s.view
        /\ l \in Behind => p \in DOMAIN s.disk
        /\ l \in {"update_inode", "write_inode"} /\ f.ra = "dir_written" => p \in DOMAIN s.disk
        /\ Clean(f.data, s.disk)

DurableInv ==
    /\ \A t \in Thread : RecordedAt(pc[t], frame[t], meta)
    /\ \A b \in DOMAIN store : Clean(store[b], meta.disk)
    /\ Clean(block.data, meta.disk)
    /\ DOMAIN meta.disk \subseteq DOMAIN meta.view

LEMMA CleanGrows ==
  ASSUME NEW data, NEW f, NEW g, Clean(data, f), DOMAIN f \subseteq DOMAIN g
  PROVE  Clean(data, g)
  BY DEF Clean

LEMMA CleanBlocks ==
  ASSUME NEW file
  PROVE  /\ Clean(ZeroBlock, file)
         /\ \A self, parent : Clean(EmptyDir(self, parent), file)
<1>1. NoEntry.name \notin Name
  BY NameAssumption DEF NoEntry
<1>2. Clean(ZeroBlock, file)
  BY <1>1 DEF Clean, ZeroBlock
<1>3. ASSUME NEW self, NEW parent
      PROVE  Clean(EmptyDir(self, parent), file)
  BY <1>1, NameAssumption DEF Clean, EmptyDir
<1> QED
  BY <1>2, <1>3

\* A transfer that ended early leaves no number the block did not have.
LEMMA CleanBuffers ==
  ASSUME TypeOK, DurableInv, NEW data \in Buffers
  PROVE  Clean(data, meta.disk)
<1>1. CASE data = ZeroBlock
  BY <1>1, CleanBlocks
<1>2. ASSUME NEW b \in DOMAIN store, data \in Partial(store[b])
      PROVE  Clean(data, meta.disk)
  <2>1. store[b] \in Block /\ Clean(store[b], meta.disk)
    BY DEF TypeOK, DurableInv
  <2>2. NoEntry.name \notin Name
    BY NameAssumption DEF NoEntry
  <2>3. \A i \in Slot : \/ data[i] = NoEntry
                       \/ /\ data[i].inode = store[b][i].inode
                          /\ data[i].name \in Name => store[b][i].name \in Name
    BY <1>2, <2>1, PartialEntries
  <2> QED
    BY <2>1, <2>2, <2>3 DEF Clean
<1> QED
  BY <1>1, <1>2 DEF Buffers

\* The blocks that a download and an upload leave on the server.
LEMMA StoreClean ==
  ASSUME DurableInv, NEW b, NEW data, NEW ret,
         \/ Downloaded(b, data)
         \/ Uploaded(b, data, ret) /\ Clean(data, meta.disk)
         \/ UNCHANGED store
  PROVE  \A x \in DOMAIN store' : Clean(store'[x], meta.disk)
<1>1. CASE UNCHANGED store
  BY <1>1 DEF DurableInv
<1>2. CASE store' = Stored(b, data) /\ Clean(data, meta.disk)
  BY <1>2 DEF DurableInv, Stored
<1> QED
  BY <1>1, <1>2 DEF Downloaded, Uploaded, PutOk, PutFailed

\* One step of the one thread; what was on disk stays there.
LEMMA SerialRecorded ==
  ASSUME Serial, TypeOK, DurableInv, NEW t \in Thread, NEW l, NEW f, Goto(t, l, f),
         RecordedAt(l, f, meta'),
         DOMAIN meta.disk \subseteq DOMAIN meta'.disk,
         DOMAIN meta'.disk \subseteq DOMAIN meta'.view,
         \A x \in DOMAIN store' : Clean(store'[x], meta.disk),
         Clean(block'.data, meta.disk)
  PROVE  DurableInv'
<1>1. pc'[t] = l /\ frame'[t] = f
  BY DEF Goto, TypeOK
<1>2. \A u \in Thread : u = t
  BY DEF Serial
<1>3. \A x \in DOMAIN store' : Clean(store'[x], meta'.disk)
  BY CleanGrows
<1>4. Clean(block'.data, meta'.disk)
  BY CleanGrows
<1> QED
  BY <1>1, <1>2, <1>3, <1>4 DEF DurableInv

LEMMA DownRecorded ==
  ASSUME DurableInv, NEW file, DOMAIN meta.disk \subseteq DOMAIN file, Down(Opened(file)),
         DOMAIN store' \subseteq DOMAIN store, \A x \in DOMAIN store' : store'[x] = store[x]
  PROVE  DurableInv'
<1>1. meta'.disk = file /\ meta'.view = file
  BY DEF Down, Opened
<1>2. \A x \in DOMAIN store' : Clean(store'[x], meta'.disk)
  BY <1>1, CleanGrows DEF DurableInv
<1>3. Clean(ZeroBlock, meta'.disk)
  BY CleanBlocks
<1>4. block'.data = ZeroBlock
  BY DEF Down
<1>5. \A t \in Thread : pc'[t] = "idle" /\ frame'[t] = Idle
  BY DEF Down
<1>6. RecordedAt("idle", Idle, meta')
  BY <1>3 DEF RecordedAt, Idle, Behind
<1> QED
  BY <1>1, <1>2, <1>3, <1>4, <1>5, <1>6 DEF DurableInv

LEMMA DieRecorded ==
  ASSUME DurableInv, Die
  PROVE  DurableInv'
  BY DownRecorded DEF Die, Dropped

\* The steps that only move on, or seek or read.
LEMMA PlainRecorded ==
  ASSUME Serial, TypeOK, DurableInv, NEW t \in Thread, NEW l, NEW g, Goto(t, l, g),
         RecordedAt(l, g, meta'),
         \/ UNCHANGED meta
         \/ meta'.disk = meta.view /\ meta'.view = meta.view,
         UNCHANGED block,
         UNCHANGED store \/ \E b, data : Downloaded(b, data)
  PROVE  DurableInv'
<1>1. DOMAIN meta.disk \subseteq DOMAIN meta'.disk /\ DOMAIN meta'.disk \subseteq DOMAIN meta'.view
  BY DEF DurableInv
<1>2. \A x \in DOMAIN store' : Clean(store'[x], meta.disk)
  BY StoreClean
<1>3. Clean(block'.data, meta.disk)
  BY DEF DurableInv
<1> QED
  BY <1>1, <1>2, <1>3, SerialRecorded

\* Lookups, and the operations that make nothing.
LEMMA LookRecorded ==
  ASSUME Serial, TypeOK, PlacedInv, DurableInv, NEW t \in Thread,
         \/ find_inode(t) \/ lookup(t) \/ get_inode(t) \/ read_inode(t)
         \/ walk(t) \/ resolved(t) \/ list(t) \/ named(t) \/ done(t)
  PROVE  DurableInv'
<1> DEFINE f == frame[t]
           Free == {"idle", "lookup", "get_inode", "read_inode", "walk", "resolved",
                    "list", "named", "done"}
<1>1. f \in Frame /\ RouteAt(pc[t], f) /\ Clean(f.data, meta.disk)
  BY ThreadFrame DEF PlacedInv, DurableInv, RecordedAt
<1>2. /\ DOMAIN meta.disk \subseteq DOMAIN meta.view
      /\ \A data \in Buffers : Clean(data, meta.disk)
      /\ Clean(ZeroBlock, meta.disk)
  BY CleanBlocks, CleanBuffers DEF DurableInv
<1>3. ASSUME NEW l \in Free, NEW g, Clean(g.data, meta.disk), Goto(t, l, g),
             UNCHANGED meta \/ (meta'.disk = meta.view /\ meta'.view = meta.view),
             UNCHANGED block,
             UNCHANGED store \/ \E b, data : Downloaded(b, data)
      PROVE  DurableInv'
  <2>1. Clean(g.data, meta'.disk)
    BY <1>2, <1>3, CleanGrows
  <2>2. RecordedAt(l, g, meta')
    BY <1>3, <2>1 DEF RecordedAt, Behind
  <2> QED
    BY <1>3, <2>2, PlainRecorded
<1>4. CASE find_inode(t)
  <2> DEFINE path == Target(f)
             g == [f EXCEPT !.node = root, !.found = TRUE]
             h == [f EXCEPT !.node = root, !.comp = Head(path), !.ra = "walk"]
  <2>1. g.data = f.data /\ h.data = f.data
    BY <1>1 DEF Frame
  <2>2. Goto(t, "resolved", g) \/ Goto(t, "lookup", h)
    BY <1>4 DEF find_inode
  <2> HIDE DEF g, h
  <2> QED
    BY <1>1, <1>3, <1>4, <2>1, <2>2 DEF find_inode, remote
<1>5. CASE lookup(t)
  <2>1. f.ra \in {"walk", "named"}
    BY <1>1, <1>5 DEF lookup, At, RouteAt
  <2> DEFINE miss == [f EXCEPT !.found = FALSE]
             hit(n) == [f EXCEPT !.n = n]
  <2>2. miss.data = f.data /\ \A n : hit(n).data = f.data
    BY <1>1 DEF Frame
  <2>3. \/ Die
        \/ /\ Goto(t, f.ra, miss) \/ \E n : Goto(t, "get_inode", hit(n))
           /\ UNCHANGED <<meta, block>>
           /\ UNCHANGED store \/ \E b, data : Downloaded(b, data)
    BY <1>5 DEF lookup, remote
  <2> HIDE DEF miss, hit
  <2> QED
    BY <1>1, <1>3, <2>1, <2>2, <2>3, DieRecorded
<1>6. CASE get_inode(t)
  <2>1. meta'.disk = meta.view /\ meta'.view = meta.view
    BY <1>6 DEF get_inode, Seek
  <2> QED
    BY <1>1, <1>3, <1>6, <2>1 DEF get_inode, remote
<1>7. CASE read_inode(t)
  <2>1. f.ra \in {"walk", "named"}
    BY <1>1, <1>7 DEF read_inode, At, RouteAt
  <2>2. meta'.disk = meta.view /\ meta'.view = meta.view
    BY <1>7 DEF read_inode, AfterRead
  <2> DEFINE got(inode) == [f EXCEPT !.node = inode, !.found = TRUE, !.n = 0]
  <2>3. \A inode : got(inode).data = f.data
    BY <1>1 DEF Frame
  <2>4. \E inode : Goto(t, f.ra, got(inode))
    BY <1>7 DEF read_inode
  <2> HIDE DEF got
  <2> QED
    BY <1>1, <1>3, <1>7, <2>1, <2>2, <2>3, <2>4 DEF read_inode, remote
<1>8. CASE walk(t)
  <2> DEFINE on(c) == [f EXCEPT !.comp = c]
             end(rest) == [f EXCEPT !.found = @ /\ rest = <<>>, !.comp = NoName,
                                    !.ra = "idle"]
  <2>1. (\A c : on(c).data = f.data) /\ (\A rest : end(rest).data = f.data)
    BY <1>1 DEF Frame
  <2>2. (\E c : Goto(t, "lookup", on(c))) \/ (\E rest : Goto(t, "resolved", end(rest)))
    BY <1>8 DEF walk
  <2> HIDE DEF on, end
  <2> QED
    BY <1>1, <1>3, <1>8, <2>1, <2>2 DEF walk, remote
<1>9. CASE resolved(t)
  <2> DEFINE u == [f EXCEPT !.node.i_atime = "set", !.ra = "done", !.ret = "ok"]
             m == [f EXCEPT !.base = f.node, !.comp = Last(f.path), !.ra = "named"]
             a(ret) == [f EXCEPT !.ret = ret]
  <2>1. u.data = f.data /\ m.data = f.data /\ u.ra = "done"
        /\ \A ret : a(ret).data = f.data
    BY <1>1 DEF Frame
  <2>2. \/ \E ret : Goto(t, "done", a(ret))
        \/ Goto(t, "list", f) \/ Goto(t, "update_inode", u) \/ Goto(t, "lookup", m)
    BY <1>9 DEF resolved, Answer
  <2>3. UNCHANGED <<meta, block, store>>
    BY <1>9 DEF resolved, remote
  <2> HIDE DEF u, m, a
  <2>4. RecordedAt("update_inode", u, meta')
    BY <1>1, <2>1, <2>3 DEF RecordedAt, Behind
  <2>5. CASE Goto(t, "update_inode", u)
    BY <2>3, <2>4, <2>5, PlainRecorded
  <2> QED
    BY <1>1, <1>3, <2>1, <2>2, <2>3, <2>5
<1>10. CASE list(t)
  <2> DEFINE a == [f EXCEPT !.ret = "ok"]
             got(data) == [f EXCEPT !.data = data, !.ret = "ok"]
  <2>1. a.data = f.data /\ \A data : got(data).data = data
    BY <1>1 DEF Frame
  <2>2. \/ Die
        \/ Goto(t, "done", a) /\ UNCHANGED <<meta, block, store>>
        \/ \E data \in Buffers :
             /\ Goto(t, "done", got(data)) /\ UNCHANGED <<meta, block>>
             /\ Downloaded(f.node.i_block, data)
    BY <1>10 DEF list, Answer, remote
  <2> HIDE DEF a, got
  <2>3. CASE Die
    BY <2>3, DieRecorded
  <2>4. CASE Goto(t, "done", a) /\ UNCHANGED <<meta, block, store>>
    BY <1>1, <1>3, <2>1, <2>4
  <2>5. ASSUME NEW data \in Buffers, Goto(t, "done", got(data)),
               UNCHANGED <<meta, block>>, Downloaded(f.node.i_block, data)
        PROVE  DurableInv'
    BY <1>2, <1>3, <2>1, <2>5
  <2> QED
    BY <2>2, <2>3, <2>4, <2>5
<1>11. CASE named(t)
  <2> DEFINE g == [f EXCEPT !.node = NewInode(superblock.s_free_inode, f.op),
                            !.ra = "inode_written"]
             a(ret) == [f EXCEPT !.ret = ret]
  <2>1. g.data = f.data /\ g.ra = "inode_written" /\ \A ret : a(ret).data = f.data
    BY <1>1 DEF Frame
  <2>2. (\E ret : Goto(t, "done", a(ret))) \/ Goto(t, "update_inode", g)
    BY <1>11 DEF named, Answer
  <2>3. UNCHANGED <<meta, block, store>>
    BY <1>11 DEF named, remote
  <2> HIDE DEF g, a
  <2>4. RecordedAt("update_inode", g, meta')
    BY <1>1, <2>1, <2>3 DEF RecordedAt, Behind
  <2>5. CASE Goto(t, "update_inode", g)
    BY <2>3, <2>4, <2>5, PlainRecorded
  <2> QED
    BY <1>1, <1>3, <2>1, <2>2, <2>3, <2>5
<1>12. CASE done(t)
  <2>1. Idle.data = ZeroBlock
    BY DEF Idle
  <2> QED
    BY <1>2, <1>3, <1>12, <2>1, DieRecorded DEF done, remote
<1> QED
  BY <1>4, <1>5, <1>6, <1>7, <1>8, <1>9, <1>10, <1>11, <1>12

\* The writes to the metadata file: new_inode, and new_empty_dir around its put.
LEMMA MakeRecorded ==
  ASSUME Serial, TypeOK, PlacedInv, DurableInv, NEW t \in Thread,
         \/ update_inode(t) \/ write_inode(t)
         \/ update_superblock(t) \/ write_superblock(t)
         \/ inode_written(t) \/ bump_inode(t)
         \/ dir_iblock(t) \/ dir_written(t) \/ bump_block(t)
  PROVE  DurableInv'
<1> DEFINE f == frame[t]
           p == InodePos(f.node.i_inode_no)
<1>1. /\ f \in Frame /\ RouteAt(pc[t], f) /\ PositionedAt(pc[t], f, meta)
      /\ RecordedAt(pc[t], f, meta) /\ Clean(f.data, meta.disk)
  BY ThreadFrame DEF PlacedInv, DurableInv, RecordedAt
<1>2. /\ DOMAIN meta.disk \subseteq DOMAIN meta.view
      /\ \A x \in DOMAIN store : Clean(store[x], meta.disk)
      /\ Clean(block.data, meta.disk)
  BY DEF DurableInv
<1>3. ASSUME NEW file, DOMAIN meta.disk \subseteq DOMAIN file
      PROVE  Clean(f.data, file)
  BY <1>1, <1>3, CleanGrows
<1>4. IsStream(meta) /\ InPlace(meta.view) /\ InPlace(meta.disk)
  BY DEF TypeOK, PlacedInv
<1>5. CASE update_inode(t)
  <2>1. meta'.disk = meta.view /\ meta'.view = meta.view
    BY <1>5 DEF update_inode, Seek
  <2>2. RecordedAt("write_inode", f, meta')
    BY <1>1, <1>2, <1>3, <1>5, <2>1 DEF update_inode, At, RecordedAt, Behind
  <2> QED
    BY <1>5, <2>1, <2>2, PlainRecorded DEF update_inode, remote
<1>6. CASE update_superblock(t)
  <2>1. meta'.disk = meta.view /\ meta'.view = meta.view
    BY <1>6 DEF update_superblock, Seek
  <2>2. RecordedAt("write_superblock", f, meta')
    BY <1>1, <1>2, <1>3, <1>6, <2>1 DEF update_superblock, At, RecordedAt, Behind
  <2> QED
    BY <1>6, <2>1, <2>2, PlainRecorded DEF update_superblock, remote
<1>7. CASE write_inode(t)
  <2>1. f.node \in Inode /\ meta.pos = p /\ ~meta.mid
    BY <1>1, <1>7 DEF write_inode, At, PositionedAt, Frame
  <2>2. meta'.disk = meta.disk /\ DOMAIN meta'.view = DOMAIN meta.view \cup {p}
    BY <1>4, <1>7, <2>1, WriteInPlace DEF write_inode
  <2>3. f.ra \in {"done", "inode_written", "dir_written"}
    BY <1>1, <1>7 DEF write_inode, At, RouteAt
  <2>4. RecordedAt(f.ra, f, meta')
    BY <1>1, <1>3, <1>7, <2>2, <2>3 DEF write_inode, At, RecordedAt, Behind
  <2>5. UNCHANGED <<block, store>> /\ Goto(t, f.ra, f)
    BY <1>7 DEF write_inode, remote
  <2> QED
    BY <1>2, <2>2, <2>4, <2>5, SerialRecorded
<1>8. CASE write_superblock(t)
  <2>1. superblock \in Super /\ meta.pos = SuperPos /\ ~meta.mid
    BY <1>1, <1>8 DEF write_superblock, At, PositionedAt, TypeOK
  <2>2. meta'.disk = meta.disk /\ DOMAIN meta'.view = DOMAIN meta.view \cup {SuperPos}
    BY <1>4, <1>8, <2>1, WriteInPlace DEF write_superblock
  <2>3. f.ra \in {"slot", "dir_block", "dir_free"}
    BY <1>1, <1>8 DEF write_superblock, At, RouteAt
  <2>4. RecordedAt(f.ra, f, meta')
    BY <1>1, <1>3, <1>8, <2>2, <2>3 DEF write_superblock, At, RecordedAt, Behind
  <2>5. UNCHANGED <<block, store>> /\ Goto(t, f.ra, f)
    BY <1>8 DEF write_superblock, remote
  <2> QED
    BY <1>2, <2>2, <2>4, <2>5, SerialRecorded
<1>9. ASSUME NEW l \in {"bump_inode", "update_superblock", "update_inode", "bump_block"},
             NEW g, Goto(t, l, g), g.node.i_inode_no = f.node.i_inode_no, g.data = f.data,
             UNCHANGED <<meta, block, store>>,
             \/ l \in {"bump_inode", "update_superblock"} /\ p \in DOMAIN meta.view
             \/ p \in DOMAIN meta.disk
      PROVE  DurableInv'
  <2>1. RecordedAt(l, g, meta')
    BY <1>1, <1>2, <1>9 DEF RecordedAt, Behind
  <2> QED
    BY <1>9, <2>1, PlainRecorded
<1>10. CASE inode_written(t) \/ dir_written(t)
  <2> DEFINE g(n) == [f EXCEPT !.n = n]
  <2>1. \A n : g(n).node = f.node /\ g(n).data = f.data
    BY <1>1 DEF Frame
  <2>2. \/ /\ p \in DOMAIN meta.view
           /\ \E n : Goto(t, "bump_inode", g(n))
        \/ /\ p \in DOMAIN meta.disk
           /\ \E n : Goto(t, "bump_block", g(n))
    BY <1>1, <1>10 DEF inode_written, dir_written, At, RecordedAt, Behind
  <2>3. UNCHANGED <<meta, block, store>>
    BY <1>10 DEF inode_written, dir_written, remote
  <2> HIDE DEF g
  <2> QED
    BY <1>9, <2>1, <2>2, <2>3
<1>11. CASE bump_inode(t) \/ bump_block(t)
  <2> DEFINE g(ra) == [f EXCEPT !.n = 0, !.ra = ra]
  <2>1. \A ra : g(ra).node = f.node /\ g(ra).data = f.data
    BY <1>1 DEF Frame
  <2>2. p \in DOMAIN meta.view
    BY <1>1, <1>2, <1>11 DEF bump_inode, bump_block, At, RecordedAt, Behind
  <2>3. \E ra : Goto(t, "update_superblock", g(ra))
    BY <1>11 DEF bump_inode, bump_block
  <2>4. UNCHANGED <<meta, block, store>>
    BY <1>11 DEF bump_inode, bump_block, remote
  <2> HIDE DEF g
  <2> QED
    BY <1>9, <2>1, <2>2, <2>3, <2>4
<1>12. CASE dir_iblock(t)
  <2> DEFINE g == [f EXCEPT !.node.i_block = superblock.s_free_block, !.ra = "dir_written"]
  <2>1. g.node.i_inode_no = f.node.i_inode_no /\ g.data = f.data
    BY <1>1 DEF Frame, Inode
  <2>2. p \in DOMAIN meta.disk /\ Goto(t, "update_inode", g) /\ UNCHANGED <<meta, block, store>>
    BY <1>1, <1>12 DEF dir_iblock, At, RecordedAt, Behind, remote
  <2> HIDE DEF g
  <2> QED
    BY <1>9, <2>1, <2>2
<1> QED
  BY <1>5, <1>6, <1>7, <1>8, <1>10, <1>11, <1>12

\* The blocks: the new directory's is built and put, the parent's is put back
\* with the entry.
LEMMA PutRecorded ==
  ASSUME Serial, TypeOK, ControlOK, DurableInv, NEW t \in Thread,
         dir_block(t) \/ dir_put(t) \/ dir_free(t) \/ slot(t) \/ link(t)
  PROVE  DurableInv'
<1> DEFINE f == frame[t]
           p == InodePos(f.node.i_inode_no)
<1>1. f \in Frame /\ RecordedAt(pc[t], f, meta) /\ Clean(f.data, meta.disk)
  BY ThreadFrame DEF DurableInv, RecordedAt
<1>2. /\ DOMAIN meta.disk \subseteq DOMAIN meta.view
      /\ \A x \in DOMAIN store : Clean(store[x], meta.disk)
      /\ Clean(block.data, meta.disk)
      /\ \A data \in Buffers : Clean(data, meta.disk)
      /\ Clean(ZeroBlock, meta.disk)
  BY CleanBlocks, CleanBuffers DEF DurableInv
<1>3. Die \/ p \in DOMAIN meta.disk
  BY <1>1 DEF dir_block, dir_put, dir_free, slot, link, At, RecordedAt, Behind
<1>4. CASE Die
  BY <1>4, DieRecorded
\* The thread goes on with the same inode, and the stores are clean.
<1>5. ASSUME p \in DOMAIN meta.disk,
             NEW l \in {"dir_put", "dir_iblock", "slot", "link"}, NEW g, Goto(t, l, g),
             g.node = f.node, Clean(g.data, meta.disk), UNCHANGED meta,
             Clean(block'.data, meta.disk),
             \A x \in DOMAIN store' : Clean(store'[x], meta.disk)
      PROVE  DurableInv'
  <2>1. RecordedAt(l, g, meta')
    BY <1>5 DEF RecordedAt, Behind
  <2> QED
    BY <1>2, <1>5, <2>1, SerialRecorded
<1>6. CASE dir_block(t)
  <2> DEFINE parent == IF f.op = "init" THEN f.node ELSE f.base
             g == [f EXCEPT !.blk = superblock.s_free_block]
  <2>1. Clean(EmptyDir(f.node.i_inode_no, parent.i_inode_no), meta.disk)
    BY CleanBlocks
  <2>2. Clean(block'.data, meta.disk)
    BY <1>2, <1>6, <2>1, BlockTypes DEF dir_block
  <2>3. g.node = f.node /\ g.data = f.data
    BY <1>1 DEF Frame
  <2>4. Goto(t, "dir_put", g) /\ UNCHANGED <<meta, store>>
    BY <1>6 DEF dir_block, remote
  <2> HIDE DEF g
  <2> QED
    BY <1>1, <1>2, <1>3, <1>4, <1>5, <2>2, <2>3, <2>4
<1>7. CASE dir_put(t)
  <2> DEFINE g == [f EXCEPT !.blk = 0]
  <2>1. g.node = f.node /\ g.data = f.data
    BY <1>1 DEF Frame
  <2>2. PICK ret \in {"ok", "driver"} : Uploaded(f.blk, block.data, ret)
    BY <1>7 DEF dir_put
  <2>3. \A x \in DOMAIN store' : Clean(store'[x], meta.disk)
    BY <1>2, <2>2, StoreClean
  <2>4. Goto(t, "dir_iblock", g) /\ UNCHANGED <<meta, block>>
    BY <1>7 DEF dir_put
  <2> HIDE DEF g
  <2> QED
    BY <1>1, <1>2, <1>3, <1>4, <1>5, <2>1, <2>3, <2>4
<1>8. CASE dir_free(t)
  <2>1. CASE /\ block' = [block EXCEPT !.freed = TRUE]
             /\ Goto(t, "slot", f)
             /\ UNCHANGED <<up, superblock, root, meta, strtok, remote>>
    <3>1. block'.data = block.data
      BY <2>1 DEF TypeOK
    <3> QED
      BY <1>1, <1>2, <1>3, <1>4, <1>5, <2>1, <3>1 DEF remote
  <2>2. CASE /\ block' = [data |-> ZeroBlock, freed |-> FALSE]
             /\ Goto(t, "idle", Idle)
             /\ UNCHANGED <<superblock, meta, strtok, remote>>
    <3>1. RecordedAt("idle", Idle, meta')
      BY <1>2, <2>2 DEF RecordedAt, Behind, Idle
    <3> QED
      BY <1>2, <2>2, <3>1, SerialRecorded DEF remote
  <2> QED
    BY <1>4, <1>8, <2>1, <2>2 DEF dir_free
<1>9. CASE slot(t)
  <2> DEFINE g(data) == [f EXCEPT !.data = data]
             h(data, i) == [f EXCEPT !.data = data, !.slot = i, !.blk = f.base.i_block]
  <2>1. /\ \A data : g(data).node = f.node /\ g(data).data = data
        /\ \A data, i : h(data, i).node = f.node /\ h(data, i).data = data
    BY <1>1 DEF Frame
  <2>2. \/ Die
        \/ \E data \in Buffers :
             /\ Goto(t, "link", g(data)) \/ \E i : Goto(t, "link", h(data, i))
             /\ UNCHANGED <<meta, block>>
             /\ UNCHANGED store \/ Downloaded(f.base.i_block, data)
    BY <1>9, BlockTypes DEF slot, remote
  <2> HIDE DEF g, h
  <2>3. ASSUME NEW data \in Buffers,
               Goto(t, "link", g(data)) \/ \E i : Goto(t, "link", h(data, i)),
               UNCHANGED <<meta, block>>,
               UNCHANGED store \/ Downloaded(f.base.i_block, data)
        PROVE  DurableInv'
    <3>1. \A x \in DOMAIN store' : Clean(store'[x], meta.disk)
      BY <2>3, StoreClean
    <3> QED
      BY <1>2, <1>3, <1>4, <1>5, <2>1, <2>3, <3>1
  <2> QED
    BY <1>4, <2>2, <2>3
<1>10. CASE link(t)
  <2>1. ASSUME p \in DOMAIN meta.disk
        PROVE  Clean(Linked(f), meta.disk)
    <3>1. f.data \in [Slot -> Entry] /\ f.slot \in 0..NSlots
      BY <1>1 DEF Frame, Block
    <3>2. CASE f.slot = 0
      BY <1>1, <3>1, <3>2, BoundAssumption DEF Linked, Clean, Slot
    <3>3. CASE f.slot # 0
      BY <1>1, <2>1, <3>1, <3>3 DEF Linked, Clean, Slot
    <3> QED
      BY <3>2, <3>3
  <2> DEFINE a(r) == [f EXCEPT !.ret = r]
  <2>2. \A r : a(r).data = f.data
    BY <1>1 DEF Frame
  <2>3. /\ \E ret : Uploaded(f.blk, Linked(f), ret)
        /\ \E r : Goto(t, "done", a(r))
        /\ UNCHANGED <<meta, block>>
    BY <1>10 DEF link, Answer
  <2> HIDE DEF a
  <2>4. ASSUME p \in DOMAIN meta.disk, NEW ret, Uploaded(f.blk, Linked(f), ret),
               NEW r, Goto(t, "done", a(r)), UNCHANGED <<meta, block>>
        PROVE  DurableInv'
    <3>1. \A x \in DOMAIN store' : Clean(store'[x], meta.disk)
      BY <2>1, <2>4, StoreClean
    <3>2. RecordedAt("done", a(r), meta')
      BY <1>1, <2>2, <2>4 DEF RecordedAt, Behind
    <3> QED
      BY <1>2, <2>4, <3>1, <3>2, SerialRecorded
  <2> QED
    BY <1>3, <1>4, <2>3, <2>4
<1> QED
  BY <1>6, <1>7, <1>8, <1>9, <1>10

LEMMA NextRecorded ==
  ASSUME Serial, TypeOK, ControlOK, Resting, PlacedInv, DurableInv, [Next]_vars
  PROVE  DurableInv'
<1>1. ASSUME NEW t \in Thread, Step(t)
      PROVE  DurableInv'
  BY <1>1, LookRecorded, MakeRecorded, PutRecorded DEF Step
<1>2. ASSUME NEW t \in Thread, NEW l \in {"find", "done", "update_inode"}, NEW g,
             Goto(t, l, g), g.data = ZeroBlock, g.ra # "dir_written",
             UNCHANGED <<meta, block, store>>
      PROVE  DurableInv'
  <2>1. RecordedAt(l, g, meta')
    BY <1>2, CleanBlocks DEF RecordedAt, Behind
  <2> QED
    BY <1>2, <2>1, PlainRecorded
<1>3. ASSUME NEW t \in Thread, Mount(t)
      PROVE  DurableInv'
  <2>1. CASE meta.disk = Empty
    BY <1>2, <1>3, <2>1 DEF Mount, remote, Idle
  <2>2. CASE meta.disk # Empty
    <3>1. /\ meta'.view = meta.view /\ meta'.disk = meta.view /\ up = "unmounted"
          /\ UNCHANGED <<pc, frame, block, store>>
      BY <1>3, <2>2 DEF Mount, AfterRead, Seek, remote
    <3>2. ASSUME NEW data, Clean(data, meta.disk)
          PROVE  Clean(data, meta'.disk)
      BY <3>1, <3>2, CleanGrows DEF DurableInv
    <3>3. ASSUME NEW u \in Thread
          PROVE  RecordedAt(pc[u], frame[u], meta')
      <4>1. pc[u] = "idle" /\ Clean(frame[u].data, meta.disk)
        BY <3>1 DEF Resting, DurableInv, RecordedAt
      <4> QED
        BY <3>2, <4>1 DEF RecordedAt, Behind
    <3> QED
      BY <3>1, <3>2, <3>3 DEF DurableInv
  <2> QED
    BY <2>1, <2>2
<1>4. ASSUME NEW t \in Thread, NEW c \in Calls, Call(t, c)
      PROVE  DurableInv'
  <2>1. CASE Die
    BY <2>1, DieRecorded
  <2>2. CASE ~Die
    BY <1>2, <1>4, <2>2 DEF Call, remote, Idle
  <2> QED
    BY <2>1, <2>2
<1>5. CASE Unmount \/ Crash
  <2>1. CASE Down(Closed(meta)) /\ UNCHANGED store
    BY <2>1, DownRecorded DEF Closed, DurableInv
  <2> QED
    BY <1>5, <2>1, DieRecorded DEF Unmount, Crash
<1>6. CASE UNCHANGED vars
  BY <1>6 DEF vars, DurableInv
<1> QED
  BY <1>1, <1>3, <1>4, <1>5, <1>6 DEF Next

LEMMA InitRecorded == Init => DurableInv
<1> SUFFICES ASSUME Init PROVE DurableInv
  OBVIOUS
<1>1. Clean(ZeroBlock, meta.disk)
  BY NameAssumption DEF Clean, ZeroBlock, NoEntry
<1>2. meta.disk = Empty /\ meta.view = Empty
  BY DEF Init, Opened
<1> QED
  BY <1>1, <1>2 DEF Init, DurableInv, RecordedAt, Behind, Idle

\* mkdir, rmdir and create: with one thread, an entry on the server names an
\* inode that is on disk, in every state, so after every crash and every failure.
THEOREM SerialDurable == Serial /\ Spec => []LinkedInodeDurable
<1> SUFFICES ASSUME Serial PROVE Spec => []LinkedInodeDurable
  OBVIOUS
<1> DEFINE Inv == TypeOK /\ ControlOK /\ Resting /\ PlacedInv /\ DurableInv
<1>1. Init => Inv
  BY InitType, InitPlaced, InitRecorded
<1>2. Inv /\ [Next]_vars => Inv'
  BY NextType, NextControl, NextResting, NextPlaced, NextRecorded
<1>3. Inv => LinkedInodeDurable
  BY DEF DurableInv, Clean, LinkedInodeDurable, Links, Link
<1> QED
  BY <1>1, <1>2, <1>3, PTL DEF Spec
=============================================================================
