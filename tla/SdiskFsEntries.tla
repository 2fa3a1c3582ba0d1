--------------------------- MODULE SdiskFsEntries ---------------------------
(***************************************************************************)
(* The entries and the blocks of SdiskFs, served by one thread, while no   *)
(* transfer fails: two entries never name one inode, an entry stays where  *)
(* it is, the directory that an entry names has a block of its own, and    *)
(* find_inode answers where the path leads.  All hold over crashes and     *)
(* restarts.                                                               *)
(*                                                                         *)
(* The counter of blocks plays the part the counter of inodes has in       *)
(* SdiskFsNumbers: every block in use is below it, so the put of a new     *)
(* directory replaces nothing, and the copy a link puts back is the block  *)
(* it replaces but for one entry.  A directory and its block are followed  *)
(* together, from the number of the inode to the entry that names it.      *)
(***************************************************************************)
EXTENDS SdiskFsNumbers, FiniteSetTheorems, WellFoundedInduction

\* The process that formatted the file system, before any transfer failed.
Exact == faults = 0 /\ (up = "init" \/ Live)

(***************************************************************************)
(* Blocks                                                                  *)
(***************************************************************************)
\* From the moment a new directory has its block until the counter is past it.
Raising(l, f) == \/ WritesInode(l) /\ f.ra = "dir_written"
                 \/ l \in {"dir_written", "bump_block"}

Top(l, f, S) == IF Raising(l, f) THEN S.s_free_block + 1 ELSE S.s_free_block

\* An inode has no block, or one on the server below top.
HasBlock(i, top, st) == i.i_block # 0 => i.i_block \in DOMAIN st /\ i.i_block < top

Parent(f) == IF f.op = "init" THEN f.node ELSE f.base

EntriesAt(l, f, S, st, buf) ==
    /\ HasBlock(f.node, Top(l, f, S), st) /\ HasBlock(f.base, Top(l, f, S), st)
    /\ l = "dir_put" => /\ f.blk = S.s_free_block
                        /\ buf.data = EmptyDir(f.node.i_inode_no, Parent(f).i_inode_no)
    /\ l = "dir_iblock" => S.s_free_block \in DOMAIN st
    /\ l = "bump_block" => f.n = S.s_free_block + 1
    /\ l \notin {"link", "done"} => f.slot = 0
    /\ l \notin {"dir_put", "link", "done"} => f.blk = 0
    /\ l = "link" /\ f.slot = 0 => f.blk = 0
    /\ l = "link" /\ f.slot # 0 => /\ f.blk = f.base.i_block /\ f.blk # 0
                                   /\ f.blk \in DOMAIN st /\ f.data = st[f.blk]
                                   /\ f.data[f.slot].inode = 0

Holders == {root} \cup Inodes(meta.view) \cup Inodes(meta.disk)

BlocksInv == Exact =>
    /\ superblock.s_free_block >= 1
    /\ \A k \in Links : k[1] < superblock.s_free_block
    /\ \A t \in Thread :
         /\ EntriesAt(pc[t], frame[t], superblock, store, block)
         /\ \A i \in Holders : HasBlock(i, Top(pc[t], frame[t], superblock), store)

\* The record of the mapping file that a crash would drop is not that of a
\* block with entries.
Unnamed(st, uns) == \A b \in uns : b \in DOMAIN st \ {0} => Numbers(st[b]) = {}

UnsavedInv == /\ up = "unmounted" => mapping.unsaved = {}
              /\ faults = 0 => Unnamed(store, mapping.unsaved)

UniqueInv == faults = 0 => NumbersUnique

EntriesInv == BlocksInv /\ UnsavedInv /\ UniqueInv

(***************************************************************************)
(* What a step does to the server while no transfer fails                  *)
(***************************************************************************)
LEMMA StepFaults ==
  ASSUME TypeOK, NEW t \in Thread, Step(t), faults' = 0
  PROVE  faults = 0
<1> faults \in Nat
  BY DEF TypeOK
<1>1. ASSUME NEW b, NEW data, Downloaded(b, data) PROVE faults = 0
  BY <1>1 DEF Downloaded
<1>2. ASSUME NEW b, NEW data, NEW ret, Uploaded(b, data, ret) PROVE faults = 0
  BY <1>2 DEF Uploaded, PutOk, PutFailed
<1>3. CASE Die
  BY <1>3 DEF Die, Down
<1>4. CASE find_inode(t) \/ get_inode(t) \/ read_inode(t) \/ walk(t) \/ resolved(t) \/ named(t)
  BY <1>4 DEF find_inode, get_inode, read_inode, walk, resolved, named, remote
<1>5. CASE lookup(t) \/ list(t) \/ slot(t)
  BY <1>1, <1>3, <1>5 DEF lookup, list, slot, remote
<1>6. CASE update_inode(t) \/ write_inode(t) \/ update_superblock(t) \/ write_superblock(t)
  BY <1>6 DEF update_inode, write_inode, update_superblock, write_superblock, remote
<1>7. CASE inode_written(t) \/ bump_inode(t) \/ dir_iblock(t) \/ dir_written(t) \/ bump_block(t)
  BY <1>7 DEF inode_written, bump_inode, dir_iblock, dir_written, bump_block, remote
<1>8. CASE dir_block(t) \/ dir_free(t) \/ done(t)
  BY <1>3, <1>8 DEF dir_block, dir_free, done, remote
<1>9. CASE dir_put(t) \/ link(t)
  BY <1>2, <1>9 DEF dir_put, link
<1> QED
  BY <1>4, <1>5, <1>6, <1>7, <1>8, <1>9 DEF Step

\* The mapping record that a put leaves unflushed.
NewRecord(b) == IF b \in DOMAIN store THEN {} ELSE {b}

LEMMA StepRemote ==
  ASSUME TypeOK, NEW t \in Thread, Step(t), ~Die, faults' = 0
  PROVE  LET f == frame[t]
         IN  /\ At(t, "dir_put") => /\ store' = Stored(f.blk, block.data)
                                    /\ mapping'.unsaved = NewRecord(f.blk)
             /\ At(t, "link") => /\ store' = Stored(f.blk, Linked(f))
                                 /\ mapping'.unsaved = NewRecord(f.blk)
             /\ ~At(t, "dir_put") /\ ~At(t, "link") =>
                  /\ UNCHANGED store
                  /\ mapping'.unsaved \subseteq mapping.unsaved
<1> DEFINE f == frame[t]
<1>0. faults \in Nat /\ mapping \in [open : BOOLEAN, unsaved : SUBSET Nat]
  BY DEF TypeOK
<1>1. ASSUME NEW b, NEW data, NEW ret, Uploaded(b, data, ret)
      PROVE  store' = Stored(b, data) /\ mapping'.unsaved = NewRecord(b)
  <2>1. ~PutFailed(b, data)
    BY <1>0 DEF PutFailed
  <2>2. PutOk(b, data)
    BY <1>1, <2>1 DEF Uploaded
  <2> QED
    BY <2>2 DEF PutOk, NewRecord
<1>2. CASE dir_put(t)
  <2>1. pc[t] = "dir_put" /\ \E ret : Uploaded(f.blk, block.data, ret)
    BY <1>2 DEF dir_put, At
  <2> QED
    BY <1>1, <2>1 DEF At
<1>3. CASE link(t)
  <2>1. pc[t] = "link" /\ \E ret : Uploaded(f.blk, Linked(f), ret)
    BY <1>3 DEF link, At
  <2> QED
    BY <1>1, <2>1 DEF At
<1>4. ASSUME NEW b, NEW data, Downloaded(b, data)
      PROVE  UNCHANGED store /\ mapping'.unsaved \subseteq mapping.unsaved
  BY <1>0, <1>4 DEF Downloaded
<1>5. CASE lookup(t) \/ list(t) \/ slot(t)
  <2>1. pc[t] \notin {"dir_put", "link"}
    BY <1>5 DEF lookup, list, slot, At
  <2>2. UNCHANGED <<store, mapping>> \/ \E b, data : Downloaded(b, data)
    BY <1>5 DEF lookup, list, slot, remote
  <2> QED
    BY <1>4, <2>1, <2>2 DEF At
<1>6. CASE ~(dir_put(t) \/ link(t) \/ lookup(t) \/ list(t) \/ slot(t))
  <2>1. UNCHANGED <<store, mapping>>
    BY <1>6 DEF Step, find_inode, get_inode, read_inode, walk, resolved, named, update_inode,
       write_inode, update_superblock, write_superblock, inode_written, bump_inode, dir_block,
       dir_iblock, dir_written, bump_block, dir_free, done, remote
  <2>2. pc[t] \notin {"dir_put", "link"}
    BY <1>6 DEF Step, find_inode, get_inode, read_inode, walk, resolved, named, update_inode,
       write_inode, update_superblock, write_superblock, inode_written, bump_inode, dir_block,
       dir_iblock, dir_written, bump_block, dir_free, done, At
  <2> QED
    BY <2>1, <2>2 DEF At
<1> QED
  BY <1>2, <1>3, <1>5, <1>6

\* The process that formatted the file system, one step before.
LEMMA ExactBefore ==
  ASSUME Context, NEW t \in Thread, Step(t), ~Die, Exact'
  PROVE  /\ Exact
         /\ superblock.s_log_block_size # 0
         /\ \/ up = "init" /\ InitAt(pc[t], frame[t], meta, superblock)
            \/ up = "mounted" /\ Live /\ LiveAt(pc[t], frame[t], meta, superblock, AllNumbers)
<1>1. faults = 0
  BY StepFaults DEF Context, Exact
<1>2. up = "init" \/ Live
  <2>1. CASE UNCHANGED <<up, root>>
    <3>1. CASE ~mapping.open /\ mapping'.open /\ up # "init"
      <4>1. pc[t] \in {"dir_put", "link"}
        BY <2>1, <3>1, SamePhase
      <4>2. Rootless \/ Live
        BY <3>1, <4>1, Phases DEF FrozenAt, WritesInode
      <4>3. Live
        BY <2>1, <3>1, <4>2 DEF Exact, Live, Rootless
      <4> QED
        BY <4>3
    <3> QED
      BY <2>1, <3>1 DEF Exact, Live
  <2> QED
    BY <2>1, SamePhase
<1>3. up = "init" => up # "mounted" /\ InitAt(pc[t], frame[t], meta, superblock)
                     /\ superblock.s_log_block_size # 0
  BY DEF Context, NumbersInv, InitInv
<1>4. Live => /\ LiveAt(pc[t], frame[t], meta, superblock, AllNumbers)
              /\ superblock.s_log_block_size # 0 /\ up = "mounted"
  BY DEF Context, NumbersInv, LiveInv, PhaseInv, Live, ZeroInode
<1> QED
  BY <1>1, <1>2, <1>3, <1>4 DEF Exact

(***************************************************************************)
(* What a step does to the entries                                         *)
(***************************************************************************)
LEMMA IsLink ==
  \A k : k \in Links <=> /\ k \in (DOMAIN store \ {0}) \X Slot
                         /\ store[k[1]][k[2]].name \in Name
                         /\ store[k[1]][k[2]].inode # Far
  BY DEF Links, Link

\* put_block of a new directory, under a number that no block with entries has.
LEMMA NewBlockLinks ==
  ASSUME NEW b, NEW self, NEW parent, store' = Stored(b, EmptyDir(self, parent)),
         \A k \in Links : k[1] # b
  PROVE  /\ Links' = Links
         /\ \A k \in Links : store'[k[1]][k[2]] = Link(k)
<1> DEFINE dir == EmptyDir(self, parent)
<1>1. \A i \in Slot : dir[i].name \notin Name
  BY NameAssumption DEF EmptyDir, NoEntry
<1> HIDE DEF dir
<1>2. /\ DOMAIN store' = DOMAIN store \cup {b}
      /\ \A x \in DOMAIN store' : store'[x] = IF x = b THEN dir ELSE store[x]
  BY DEF Stored, dir
<1>3. \A k : k \in Links' <=> /\ k \in (DOMAIN store' \ {0}) \X Slot
                              /\ store'[k[1]][k[2]].name \in Name
                              /\ store'[k[1]][k[2]].inode # Far
  BY DEF Links, Link
<1>4. ASSUME NEW k \in Links' PROVE k \in Links
  <2>1. k \in (DOMAIN store' \ {0}) \X Slot /\ store'[k[1]][k[2]].name \in Name
        /\ store'[k[1]][k[2]].inode # Far
    BY <1>3
  <2>2. k[1] # b
    BY <1>1, <1>2, <2>1
  <2> QED
    BY <1>2, <2>1, <2>2, IsLink
<1>5. ASSUME NEW k \in Links PROVE k \in Links' /\ store'[k[1]][k[2]] = Link(k)
  <2>1. k \in (DOMAIN store \ {0}) \X Slot /\ store[k[1]][k[2]].name \in Name
        /\ store[k[1]][k[2]].inode # Far
    BY IsLink
  <2>2. k \in (DOMAIN store' \ {0}) \X Slot /\ store'[k[1]] = store[k[1]]
    BY <1>2, <2>1
  <2> QED
    BY <1>3, <2>1, <2>2 DEF Link
<1> QED
  BY <1>4, <1>5

\* put_block of a directory with a new entry in a slot that was free.
LEMMA NewEntryLinks ==
  ASSUME NEW b \in DOMAIN store \ {0}, NEW s \in Slot, NEW e, NEW data,
         store[b] \in [Slot -> Entry], data = [store[b] EXCEPT ![s] = e],
         store[b][s].inode = 0, store' = Stored(b, data),
         \A k \in Links : Link(k).inode # 0
  PROVE  /\ <<b, s>> \notin Links /\ store'[b][s] = e
         /\ Links' \subseteq Links \cup {<<b, s>>} /\ Links \subseteq Links'
         /\ \A k \in Links : store'[k[1]][k[2]] = Link(k)
<1>1. /\ DOMAIN store' = DOMAIN store
      /\ \A x \in DOMAIN store' : store'[x] = IF x = b THEN data ELSE store[x]
  BY DEF Stored
<1>2. \A i \in Slot : data[i] = IF i = s THEN e ELSE store[b][i]
  OBVIOUS
<1>3. <<b, s>> \notin Links
  BY DEF Link
<1>4. \A k : k \in Links' <=> /\ k \in (DOMAIN store' \ {0}) \X Slot
                              /\ store'[k[1]][k[2]].name \in Name
                              /\ store'[k[1]][k[2]].inode # Far
  BY DEF Links, Link
<1>5. ASSUME NEW k \in (DOMAIN store \ {0}) \X Slot, k # <<b, s>>
      PROVE  store'[k[1]][k[2]] = store[k[1]][k[2]]
  <2>1. k[1] \in DOMAIN store /\ k[2] \in Slot /\ k = <<k[1], k[2]>>
    BY <1>5
  <2>2. k[1] = b => k[2] # s
    BY <1>5, <2>1
  <2> QED
    BY <1>1, <1>2, <2>1, <2>2
<1>6. ASSUME NEW k \in Links' PROVE k \in Links \cup {<<b, s>>}
  <2>1. /\ k \in (DOMAIN store \ {0}) \X Slot
        /\ store'[k[1]][k[2]].name \in Name /\ store'[k[1]][k[2]].inode # Far
    BY <1>1, <1>4
  <2>2. CASE k # <<b, s>>
    <3>1. store'[k[1]][k[2]] = store[k[1]][k[2]]
      BY <1>5, <2>1, <2>2
    <3> QED
      BY <2>1, <3>1, IsLink
  <2> QED
    BY <2>2
<1>7. ASSUME NEW k \in Links PROVE k \in Links' /\ store'[k[1]][k[2]] = Link(k)
  <2>1. k \in (DOMAIN store \ {0}) \X Slot /\ store[k[1]][k[2]].name \in Name
        /\ store[k[1]][k[2]].inode # Far /\ k # <<b, s>>
    BY <1>3, IsLink
  <2>2. store'[k[1]][k[2]] = store[k[1]][k[2]]
    BY <1>5, <2>1
  <2> QED
    BY <1>1, <1>4, <2>1, <2>2 DEF Link
<1> QED
  BY <1>1, <1>2, <1>3, <1>6, <1>7

\* The copy of a directory without a free slot goes to block 0.
LEMMA NoBlockLinks ==
  ASSUME NEW data, store' = Stored(0, data)
  PROVE  Links' = Links /\ \A k \in Links : store'[k[1]][k[2]] = Link(k)
<1>1. /\ DOMAIN store' \ {0} = DOMAIN store \ {0}
      /\ \A x \in DOMAIN store \ {0} : store'[x] = store[x]
  BY DEF Stored
<1>2. \A k : k \in Links' <=> /\ k \in (DOMAIN store' \ {0}) \X Slot
                              /\ store'[k[1]][k[2]].name \in Name
                              /\ store'[k[1]][k[2]].inode # Far
  BY DEF Links, Link
<1> QED
  BY <1>1, <1>2, IsLink DEF Link

Grows(f, no) ==
    /\ <<f.blk, f.slot>> \notin Links /\ store'[f.blk][f.slot].inode = no
    /\ f.slot \in Slot /\ f.blk \in DOMAIN store \ {0} /\ f.blk = f.base.i_block
    /\ Links' \subseteq Links \cup {<<f.blk, f.slot>>} /\ Links \subseteq Links'
    /\ f.blk < superblock.s_free_block

LEMMA StepLinks ==
  ASSUME Context, BlocksInv, NEW t \in Thread, Step(t), ~Die, Exact, faults' = 0
  PROVE  LET f == frame[t]
         IN  /\ \A k \in Links : store'[k[1]][k[2]] = Link(k)
             /\ At(t, "link") /\ f.slot # 0 => Grows(f, f.node.i_inode_no)
             /\ ~(At(t, "link") /\ f.slot # 0) => Links' = Links
<1> DEFINE f == frame[t]
<1>0. /\ f \in Frame /\ f.slot \in 0..NSlots /\ superblock.s_free_block \in Nat
      /\ \A x \in DOMAIN store : store[x] \in [Slot -> Entry] /\ x \in Nat
  BY ThreadFrame DEF Context, TypeOK, Frame, Block, Super
<1>1. /\ EntriesAt(pc[t], f, superblock, store, block)
      /\ \A k \in Links : k[1] < superblock.s_free_block /\ Link(k).inode # 0
  <2>1. \A n \in AllNumbers : n # 0
    <3>1. AllNumbers = {} \/ \A n \in AllNumbers : 1 <= n
      BY DEF Exact, Context, NumbersInv, EmptyInv, LiveInv
    <3> QED
      BY <3>1
  <2> QED
    BY <2>1, LinkNumbers DEF BlocksInv
<1>2. CASE At(t, "dir_put")
  <2>1. f.blk = superblock.s_free_block /\ \A k \in Links : k[1] # f.blk
    <3>1. f.blk = superblock.s_free_block
      BY <1>1, <1>2 DEF EntriesAt, At
    <3>2. \A k \in Links : k[1] \in DOMAIN store
      BY IsLink
    <3> QED
      BY <1>0, <1>1, <3>1, <3>2
  <2>2. store' = Stored(f.blk, EmptyDir(f.node.i_inode_no, Parent(f).i_inode_no))
    BY <1>1, <1>2, StepRemote DEF Context, EntriesAt, At
  <2> QED
    BY <1>2, <2>1, <2>2, NewBlockLinks DEF At
<1>3. CASE At(t, "link") /\ f.slot = 0
  <2>1. f.blk = 0
    BY <1>1, <1>3 DEF EntriesAt, At
  <2>2. store' = Stored(0, Linked(f))
    BY <1>3, <2>1, StepRemote DEF Context
  <2> QED
    BY <1>3, <2>2, NoBlockLinks
<1>4. CASE At(t, "link") /\ f.slot # 0
  <2>1. /\ f.blk = f.base.i_block /\ f.blk # 0 /\ f.blk \in DOMAIN store
        /\ f.data = store[f.blk] /\ f.data[f.slot].inode = 0
        /\ HasBlock(f.base, superblock.s_free_block, store)
    BY <1>1, <1>4 DEF EntriesAt, At, Top, Raising, WritesInode
  <2>2. f.slot \in Slot
    BY <1>0, <1>4, BoundAssumption DEF Slot
  <2> DEFINE e == [inode |-> f.node.i_inode_no, name |-> Last(f.path)]
  <2>3. store' = Stored(f.blk, [store[f.blk] EXCEPT ![f.slot] = e])
    BY <1>4, <2>1, StepRemote DEF Context, Linked
  <2>4. f.blk < superblock.s_free_block
    BY <2>1 DEF HasBlock
  <2>5. e.inode = f.node.i_inode_no
    OBVIOUS
  <2> HIDE DEF e
  <2>6. /\ <<f.blk, f.slot>> \notin Links /\ store'[f.blk][f.slot] = e
        /\ Links' \subseteq Links \cup {<<f.blk, f.slot>>} /\ Links \subseteq Links'
        /\ \A k \in Links : store'[k[1]][k[2]] = Link(k)
    BY <1>0, <1>1, <2>1, <2>2, <2>3, NewEntryLinks
  <2> QED
    BY <1>4, <2>1, <2>2, <2>4, <2>5, <2>6 DEF Grows
<1>5. CASE ~At(t, "dir_put") /\ ~At(t, "link")
  <2>1. UNCHANGED store
    BY <1>5, StepRemote DEF Context
  <2> QED
    BY <1>5, <2>1 DEF Links, Link
<1> QED
  BY <1>2, <1>3, <1>4, <1>5

(***************************************************************************)
(* Every block in use is below the counter of blocks                       *)
(***************************************************************************)
LEMMA HasBlockGrows ==
  ASSUME NEW st, DOMAIN st \subseteq Nat, NEW st2, DOMAIN st \subseteq DOMAIN st2,
         NEW top \in Nat, NEW top2 \in Nat, top <= top2, NEW i, HasBlock(i, top, st)
  PROVE  HasBlock(i, top2, st2)
<1> SUFFICES ASSUME i.i_block # 0
             PROVE  i.i_block \in DOMAIN st2 /\ i.i_block < top2
  BY DEF HasBlock
<1>1. i.i_block \in DOMAIN st /\ i.i_block < top /\ i.i_block \in Nat
  BY DEF HasBlock
<1> QED
  BY <1>1

\* A download while no transfer fails.
LEMMA ExactDownload ==
  ASSUME TypeOK, faults = 0, faults' = 0, superblock.s_log_block_size # 0,
         NEW b \in DOMAIN store, NEW data, Downloaded(b, data)
  PROVE  data = store[b] /\ mapping'.unsaved = {}
<1>1. Remote(b)
  BY DEF Remote
<1>2. data = store[b]
  BY <1>1 DEF Downloaded
<1> QED
  BY <1>2 DEF Downloaded, TypeOK

LEMMA StepHolders ==
  ASSUME Context, NEW t \in Thread, Step(t), ~Die
  PROVE  Holders' \subseteq Holders \cup {frame[t].node}
<1> DEFINE f == frame[t]
           p == InodePos(f.node.i_inode_no)
<1>0. ~Die
  OBVIOUS
<1>1. root' \in {root, f.node}
  BY SamePhase
<1>2. Inodes(meta'.view) \subseteq Inodes(meta.view) \cup {f.node}
  <2>1. CASE At(t, "write_inode")
    <3>1. meta'.view = [x \in DOMAIN meta.view \cup {p} |->
                          IF x = p THEN f.node ELSE meta.view[x]]
      BY <1>0, <2>1, StepFile DEF Context
    <3> QED
      BY <3>1 DEF Inodes
  <2>2. CASE At(t, "write_superblock")
    <3>1. meta'.view = [x \in DOMAIN meta.view \cup {SuperPos} |->
                          IF x = SuperPos THEN superblock ELSE meta.view[x]]
      BY <1>0, <2>2, StepFile DEF Context
    <3> QED
      BY <3>1 DEF Inodes
  <2>3. CASE ~At(t, "write_inode") /\ ~At(t, "write_superblock")
    BY <2>3, StepFile DEF Context
  <2> QED
    BY <2>1, <2>2, <2>3
<1>3. meta'.disk \in {meta.disk, meta.view}
  BY StepFile DEF Context
<1> QED
  BY <1>1, <1>2, <1>3 DEF Holders

LEMMA StepBlocks ==
  ASSUME Serial, Context, BlocksInv, NEW t \in Thread, Step(t)
  PROVE  BlocksInv'
<1> DEFINE f == frame[t]
           S == superblock
           top == Top(pc[t], f, S)
<1>1. CASE Die
  BY <1>1 DEF Die, Down, BlocksInv, Exact, Live, ZeroInode
<1>2. CASE ~Die
  <2> SUFFICES ASSUME Exact' PROVE BlocksInv'
    BY DEF BlocksInv
  <2>1. Exact /\ S.s_log_block_size # 0 /\ faults = 0 /\ faults' = 0
    BY <1>2, ExactBefore DEF Exact
  <2>2. /\ f \in Frame /\ RouteAt(pc[t], f) /\ pc[t] \in Labels
        /\ f.node \in Inode /\ S.s_free_block \in Nat /\ DOMAIN store \subseteq Nat
    BY ThreadFrame DEF Context, PlacedInv, TypeOK, Frame, Super
  <2>3. /\ S.s_free_block >= 1 /\ EntriesAt(pc[t], f, S, store, block)
        /\ \A k \in Links : k[1] < S.s_free_block
        /\ \A i \in Holders \cup {f.node, f.base} : HasBlock(i, top, store)
    BY <2>1 DEF BlocksInv, EntriesAt
  <2>4. /\ S'.s_free_block = IF At(t, "bump_block") THEN f.n ELSE S.s_free_block
        /\ At(t, "bump_block") => f.n = S.s_free_block + 1
    <3>1. StepSuper(t) /\ S \in Super
      BY <1>2, StepGlobals DEF Context, TypeOK
    <3> QED
      BY <2>3, <3>1 DEF StepSuper, Super, EntriesAt, At
  <2>5. S'.s_free_block \in Nat /\ S'.s_free_block >= S.s_free_block
    BY <2>2, <2>4
  <2>6. DOMAIN store \subseteq DOMAIN store'
    <3>1. store' = store \/ \E b, data : store' = Stored(b, data)
      BY <1>2, <2>1, StepRemote DEF Context
    <3> QED
      BY <3>1 DEF Stored
  <2>7. ASSUME NEW k \in Links' PROVE k[1] < S'.s_free_block
    <3>1. k[1] < S.s_free_block /\ k[1] \in Nat
      <4>1. CASE At(t, "link") /\ f.slot # 0
        <5>1. Grows(f, f.node.i_inode_no)
          BY <1>2, <2>1, <4>1, StepLinks
        <5> QED
          BY <2>2, <2>3, <5>1, IsLink DEF Grows
      <4>2. CASE ~(At(t, "link") /\ f.slot # 0)
        <5>1. Links' = Links
          BY <1>2, <2>1, <4>2, StepLinks
        <5> QED
          BY <2>2, <2>3, <5>1, IsLink
      <4> QED
        BY <4>1, <4>2
    <3> QED
      BY <2>2, <2>5, <3>1
  <2>8. ZeroInode.i_block = 0 /\ Idle.node = ZeroInode /\ Idle.base = ZeroInode
        /\ Idle.slot = 0 /\ Idle.blk = 0
    BY DEF Idle, ZeroInode
  <2>9. top \in Nat
    BY <2>2 DEF Top
  <2>10. ASSUME NEW top2 \in Nat, top <= top2,
                NEW i \in Holders \cup {f.node, f.base, ZeroInode}
         PROVE  HasBlock(i, top2, store')
    <3>1. HasBlock(i, top, store)
      BY <2>3, <2>8 DEF HasBlock
    <3> QED
      BY <2>2, <2>6, <2>9, <2>10, <3>1, HasBlockGrows
  \* The ways the thread goes on.
  <2>11. ASSUME NEW k, NEW g, Looks(pc[t], f, k, g), Calm(pc[t], f)
         PROVE  /\ top <= Top(k, g, S') /\ Top(k, g, S') \in Nat
                /\ EntriesAt(k, g, S', store', block')
    <3>1. /\ Calm(k, g) /\ k \notin {"dir_put", "dir_iblock", "bump_block", "link"}
          /\ ~Raising(k, g) /\ ~Raising(pc[t], f) /\ ~At(t, "bump_block")
          /\ pc[t] \notin {"link", "dir_put"}
      BY <2>11 DEF Looks, Calm, Raising, WritesInode, At
    <3>2. top = S.s_free_block /\ Top(k, g, S') = S.s_free_block
      BY <2>4, <3>1 DEF Top
    <3>3. HasBlock(g.node, S.s_free_block, store')
      <4>1. PICK i \in Holders \cup {f.node, ZeroInode} : Alike(g.node, i)
        BY <2>11 DEF Looks, Holders
      <4>2. HasBlock(i, S.s_free_block, store')
        BY <2>2, <2>10, <3>2
      <4> QED
        BY <4>1, <4>2 DEF Alike, HasBlock
    <3>4. HasBlock(g.base, S.s_free_block, store')
      <4>1. g.base \in {f.base, ZeroInode, f.node}
        BY <2>11 DEF Looks
      <4> QED
        BY <2>2, <2>10, <3>2, <4>1
    <3>5. k # "done" => g.slot = 0 /\ g.blk = 0
      <4>1. CASE pc[t] = "done"
        BY <2>8, <2>11, <4>1 DEF Looks
      <4>2. CASE pc[t] # "done"
        BY <2>3, <2>11, <3>1, <4>2 DEF Looks, EntriesAt
      <4> QED
        BY <4>1, <4>2
    <3> QED
      BY <2>2, <3>1, <3>2, <3>3, <3>4, <3>5 DEF EntriesAt
  <2>12. ASSUME NEW k, NEW g, Starts(pc[t], f, k, g)
         PROVE  /\ top <= Top(k, g, S') /\ Top(k, g, S') \in Nat
                /\ EntriesAt(k, g, S', store', block')
    <3>1. /\ pc[t] = "named" /\ k = "update_inode" /\ ~Raising(k, g) /\ ~Raising(pc[t], f)
          /\ g.node.i_block = 0 /\ g.base = f.base /\ g.slot = f.slot /\ g.blk = f.blk
      BY <2>12 DEF Starts, Raising, WritesInode, NewInode, Carries
    <3>2. top = S.s_free_block /\ Top(k, g, S') = S.s_free_block
      BY <2>4, <3>1 DEF Top, At
    <3>3. HasBlock(g.node, S.s_free_block, store') /\ HasBlock(g.base, S.s_free_block, store')
      BY <2>2, <2>10, <3>1, <3>2 DEF HasBlock
    <3> QED
      BY <2>2, <2>3, <3>1, <3>2, <3>3 DEF EntriesAt
  <2>13. ASSUME NEW k, NEW g, Makes(pc[t], f, k, g), Creating(pc[t], f)
         PROVE  /\ top <= Top(k, g, S') /\ Top(k, g, S') \in Nat
                /\ EntriesAt(k, g, S', store', block')
    <3>1. /\ g.base = f.base /\ g.op = f.op
          /\ ~At(t, "dir_iblock") => g.node = f.node
          /\ At(t, "dir_iblock") => g.node.i_block = S.s_free_block
      BY <2>2, <2>13 DEF Makes, Inode, At
    <3>2. /\ At(t, "dir_iblock") => Raising(k, g) /\ ~Raising(pc[t], f)
          /\ At(t, "bump_block") => ~Raising(k, g) /\ Raising(pc[t], f)
          /\ ~At(t, "dir_iblock") /\ ~At(t, "bump_block") =>
               (Raising(k, g) <=> Raising(pc[t], f))
      BY <2>2, <2>13 DEF Makes, RouteAt, Creating, Numbered, Advanced, Saved, Raising,
         WritesInode, WritesSuper, At
    <3>3. /\ top <= Top(k, g, S') /\ Top(k, g, S') \in Nat
          /\ At(t, "dir_iblock") => Top(k, g, S') = S.s_free_block + 1
      <4>1. CASE At(t, "dir_iblock")
        <5>1. ~At(t, "bump_block")
          BY <4>1 DEF At
        <5> QED
          BY <2>2, <2>4, <3>2, <4>1, <5>1 DEF Top
      <4>2. CASE At(t, "bump_block")
        <5>1. ~At(t, "dir_iblock")
          BY <4>2 DEF At
        <5> QED
          BY <2>2, <2>4, <3>2, <4>2, <5>1 DEF Top
      <4>3. CASE ~At(t, "dir_iblock") /\ ~At(t, "bump_block")
        BY <2>2, <2>4, <3>2, <4>3 DEF Top
      <4> QED
        BY <4>1, <4>2, <4>3
    <3>4. HasBlock(g.base, Top(k, g, S'), store')
      BY <2>10, <3>1, <3>3
    <3>5. HasBlock(g.node, Top(k, g, S'), store')
      <4>1. CASE At(t, "dir_iblock")
        <5>1. S.s_free_block \in DOMAIN store'
          BY <2>3, <2>6, <4>1 DEF EntriesAt, At
        <5> QED
          BY <2>2, <3>1, <3>3, <4>1, <5>1 DEF HasBlock
      <4> QED
        BY <2>10, <3>1, <3>3, <4>1
    <3>6. k = "dir_put" => /\ g.blk = S'.s_free_block
                           /\ block'.data = EmptyDir(g.node.i_inode_no, Parent(g).i_inode_no)
      <4> SUFFICES ASSUME k = "dir_put" PROVE /\ g.blk = S'.s_free_block
                           /\ block'.data = EmptyDir(g.node.i_inode_no, Parent(g).i_inode_no)
        OBVIOUS
      <4>1. At(t, "dir_block") /\ g.blk = S.s_free_block
        BY <2>2, <2>13 DEF Makes, RouteAt, Creating, Numbered, Advanced, Saved, WritesInode,
           WritesSuper, At
      <4>2. dir_block(t)
        BY <4>1 DEF Step, At, find_inode, lookup, get_inode, read_inode, walk, resolved, list,
           named, update_inode, write_inode, update_superblock, write_superblock,
           inode_written, bump_inode, dir_put, dir_iblock, dir_written, bump_block, dir_free,
           slot, link, done
      <4>3. block'.data = EmptyDir(f.node.i_inode_no, Parent(f).i_inode_no)
        BY <2>1, <4>2 DEF dir_block, Parent
      <4>4. g.node = f.node /\ Parent(g) = Parent(f)
        BY <3>1, <4>1 DEF At, Parent
      <4> QED
        BY <2>4, <4>1, <4>3, <4>4 DEF At
    <3>7. k = "dir_iblock" => S'.s_free_block \in DOMAIN store'
      <4> SUFFICES ASSUME k = "dir_iblock" PROVE S'.s_free_block \in DOMAIN store'
        OBVIOUS
      <4>1. At(t, "dir_put")
        BY <2>2, <2>13 DEF Makes, RouteAt, Creating, Numbered, Advanced, Saved, WritesInode,
           WritesSuper, At
      <4>2. f.blk = S.s_free_block /\ store' = Stored(f.blk, block.data)
        BY <1>2, <2>1, <2>3, <4>1, StepRemote DEF Context, EntriesAt, At
      <4> QED
        BY <2>4, <4>1, <4>2 DEF Stored, At
    <3>8. k = "bump_block" => g.n = S'.s_free_block + 1
      BY <2>2, <2>4, <2>13 DEF Makes, RouteAt, Creating, Numbered, Advanced, Saved,
         WritesInode, WritesSuper, At
    <3>9. k \notin {"link", "done"} => g.slot = 0 /\ pc[t] \notin {"slot", "link", "done"}
      <4>1. k \notin {"link", "done"} => pc[t] \notin {"slot", "link", "done"}
        BY <2>13 DEF Makes, Creating, Numbered, Advanced, Saved, WritesInode, WritesSuper
      <4> QED
        BY <2>3, <2>13, <4>1 DEF Makes, EntriesAt
    <3>10. k \notin {"dir_put", "link", "done"} => g.blk = 0
      <4>1. k # "dir_put" => pc[t] # "dir_block"
        BY <2>13 DEF Makes
      <4> QED
        BY <2>3, <2>13, <3>9, <4>1 DEF Makes, EntriesAt
    <3>11. k = "link" => pc[t] = "slot" /\ f.slot = 0 /\ f.blk = 0
      <4>1. k = "link" => pc[t] = "slot"
        BY <2>2, <2>13 DEF Makes, RouteAt, Creating, Numbered, Advanced, Saved, WritesInode,
           WritesSuper
      <4> QED
        BY <2>3, <4>1 DEF EntriesAt
    <3>12. k = "link" /\ g.slot = 0 => g.blk = 0
      <4> SUFFICES ASSUME k = "link", g.slot = 0 PROVE g.blk = 0
        OBVIOUS
      <4>1. 0 \notin Slot
        BY DEF Slot
      <4> QED
        BY <2>13, <3>11, <4>1 DEF Makes
    <3>13. k = "link" /\ g.slot # 0 => /\ g.blk = g.base.i_block /\ g.blk # 0
                                       /\ g.blk \in DOMAIN store' /\ g.data = store'[g.blk]
                                       /\ g.data[g.slot].inode = 0
      <4> SUFFICES ASSUME k = "link", g.slot # 0
                   PROVE  /\ g.blk = g.base.i_block /\ g.blk # 0
                          /\ g.blk \in DOMAIN store' /\ g.data = store'[g.blk]
                          /\ g.data[g.slot].inode = 0
        OBVIOUS
      <4>1. /\ f.base.i_block # 0 /\ g.blk = f.base.i_block
            /\ Downloaded(f.base.i_block, g.data) /\ g.slot \in FreeSlots(g.data)
        BY <2>13, <3>11 DEF Makes, First
      <4>2. f.base.i_block \in DOMAIN store
        BY <2>3, <4>1 DEF HasBlock
      <4>3. g.data = store[f.base.i_block]
        BY <2>1, <4>1, <4>2, ExactDownload DEF Context
      <4>4. UNCHANGED store
        BY <4>1 DEF Downloaded
      <4> QED
        BY <3>1, <4>1, <4>2, <4>3, <4>4 DEF FreeSlots
    <3> QED
      BY <3>3, <3>4, <3>5, <3>6, <3>7, <3>8, <3>9, <3>10, <3>12, <3>13 DEF EntriesAt
  <2>14. /\ ~Raising("idle", Idle)
         /\ At(t, "dir_free") => top = S.s_free_block /\ S'.s_free_block = S.s_free_block
    BY <2>4 DEF Raising, WritesInode, Top, At
  <2>15. ASSUME At(t, "dir_free"), f.op = "init"
         PROVE  /\ top <= Top("idle", Idle, S') /\ Top("idle", Idle, S') \in Nat
                /\ EntriesAt("idle", Idle, S', store', block')
    BY <2>2, <2>8, <2>14, <2>15 DEF Top, EntriesAt, HasBlock
  <2>16. \E k, g : /\ Goto(t, k, g)
                   /\ top <= Top(k, g, S') /\ Top(k, g, S') \in Nat
                   /\ EntriesAt(k, g, S', store', block')
    BY <1>2, <2>11, <2>12, <2>13, <2>15, StepMoves DEF Context
  <2>17. PICK k, g : /\ Goto(t, k, g)
                     /\ top <= Top(k, g, S') /\ Top(k, g, S') \in Nat
                     /\ EntriesAt(k, g, S', store', block')
    BY <2>16
  <2>18. \A i \in Holders' : HasBlock(i, Top(k, g, S'), store')
    BY <1>2, <2>10, <2>17, StepHolders
  <2>19. \A u \in Thread : pc'[u] = k /\ frame'[u] = g
    BY <2>17, SerialThread DEF Context
  <2>20. S'.s_free_block >= 1
    BY <2>2, <2>3, <2>5
  <2> QED
    BY <2>7, <2>17, <2>18, <2>19, <2>20 DEF BlocksInv
<1> QED
  BY <1>1, <1>2

(***************************************************************************)
(* One name for a number                                                   *)
(***************************************************************************)
\* A process without a root makes no entry, one that has loaded a file with
\* entries puts no block.
LEMMA StepKinds ==
  ASSUME Serial, Context, NEW t \in Thread, Step(t), ~Die, faults' = 0
  PROVE  \/ AllNumbers' = {}
         \/ Exact /\ Live /\ Live' /\ LiveAt(pc[t], frame[t], meta, superblock, AllNumbers)
         \/ /\ UNCHANGED store /\ mapping'.unsaved \subseteq mapping.unsaved
            /\ ~At(t, "dir_put") /\ ~At(t, "link")
<1>1. faults = 0 /\ EmptyInv'
  BY StepFaults, StepEmpty DEF Context
<1>2. CASE ~At(t, "dir_put") /\ ~At(t, "link")
  BY <1>2, StepRemote DEF Context
<1>3. CASE At(t, "dir_put") \/ At(t, "link")
  <2>1. UNCHANGED <<up, root>> /\ (mapping.open => mapping'.open)
    BY <1>3, SamePhase DEF At
  <2>2. up = "init" \/ Rootless => AllNumbers' = {}
    BY <1>1, <2>1 DEF EmptyInv, Rootless
  <2>3. \/ up = "init" \/ Rootless
        \/ Live /\ LiveAt(pc[t], frame[t], meta, superblock, AllNumbers)
    BY <1>3, Phases DEF FrozenAt, WritesInode, At
  <2>4. Live => Live'
    BY <2>1 DEF Live
  <2> QED
    BY <1>1, <2>2, <2>3, <2>4 DEF Exact
<1> QED
  BY <1>2, <1>3

LEMMA NoNumbersNoLinks ==
  ASSUME AllNumbers' = {}
  PROVE  /\ Links' = {}
         /\ \A b \in DOMAIN store' : Numbers(store'[b]) = {}
<1>1. AllNumbers' = (UNION {Numbers(store'[b]) : b \in DOMAIN store'})
                    \cup Numbers(block'.data)
                    \cup (UNION {Numbers(frame'[u].data) : u \in Thread})
  BY DEF AllNumbers, Numbers
<1>2. \A b \in DOMAIN store' : Numbers(store'[b]) = {}
  BY <1>1
<1>3. Links' \subseteq {k \in (DOMAIN store' \ {0}) \X Slot :
                          store'[k[1]][k[2]].name \in Name /\ store'[k[1]][k[2]].inode # Far}
  BY DEF Links, Link
<1>4. ASSUME NEW k \in Links' PROVE FALSE
  <2>1. store'[k[1]][k[2]].inode \in Numbers(store'[k[1]])
    BY <1>3 DEF Numbers
  <2> QED
    BY <1>2, <1>3, <2>1
<1> QED
  BY <1>2, <1>4

\* The end of a process takes blocks away, and changes none.
LEMMA FewerLinks ==
  ASSUME DOMAIN store' \subseteq DOMAIN store, \A b \in DOMAIN store' : store'[b] = store[b]
  PROVE  Links' \subseteq Links /\ \A k \in Links' : store'[k[1]][k[2]] = Link(k)
<1>1. \A k \in Links' : /\ k \in (DOMAIN store' \ {0}) \X Slot
                        /\ store'[k[1]][k[2]].name \in Name
                        /\ store'[k[1]][k[2]].inode # Far
  BY DEF Links, Link
<1>2. \A k \in Links' : store'[k[1]] = store[k[1]] /\ k \in (DOMAIN store \ {0}) \X Slot
  BY <1>1
<1> QED
  BY <1>1, <1>2, IsLink DEF Link

LEMMA StepUnsaved ==
  ASSUME Serial, Context, EntriesInv, NEW t \in Thread, Step(t)
  PROVE  UnsavedInv'
<1> DEFINE f == frame[t]
<1>1. CASE Die
  BY <1>1 DEF Die, UnsavedInv, Unnamed
<1>2. CASE ~Die
  <2>1. up' # "unmounted"
    BY <1>2, SamePhase, StepUp DEF Context
  <2>2. ASSUME faults' = 0 PROVE Unnamed(store', mapping'.unsaved)
    <3>1. faults = 0 /\ Unnamed(store, mapping.unsaved)
      BY <2>2, StepFaults DEF Context, EntriesInv, UnsavedInv
    <3>2. CASE AllNumbers' = {}
      BY <3>2, NoNumbersNoLinks DEF Unnamed
    <3>3. CASE UNCHANGED store /\ mapping'.unsaved \subseteq mapping.unsaved
      BY <3>1, <3>3 DEF Unnamed
    <3>4. CASE Exact /\ (At(t, "dir_put") \/ At(t, "link"))
      <4>1. EntriesAt(pc[t], f, superblock, store, block)
        BY <3>4 DEF EntriesInv, BlocksInv
      <4>2. CASE At(t, "dir_put")
        <5> DEFINE dir == EmptyDir(f.node.i_inode_no, Parent(f).i_inode_no)
        <5>1. block.data = dir /\ Numbers(dir) = {}
          BY <4>1, <4>2, BlockNumbers DEF EntriesAt, At
        <5>2. mapping'.unsaved \subseteq {f.blk} /\ store' = Stored(f.blk, dir)
          BY <1>2, <2>2, <4>2, <5>1, StepRemote DEF Context, NewRecord
        <5> HIDE DEF dir
        <5> QED
          BY <5>1, <5>2 DEF Unnamed, Stored
      <4>3. CASE At(t, "link")
        <5>1. f.blk = 0 \/ f.blk \in DOMAIN store
          BY <4>1, <4>3 DEF EntriesAt, At
        <5>2. mapping'.unsaved \subseteq {0}
          BY <1>2, <2>2, <4>3, <5>1, StepRemote DEF Context, NewRecord
        <5> QED
          BY <5>2 DEF Unnamed
      <4> QED
        BY <3>4, <4>2, <4>3
    <3>5. Exact /\ ~At(t, "dir_put") /\ ~At(t, "link") =>
            UNCHANGED store /\ mapping'.unsaved \subseteq mapping.unsaved
      BY <1>2, <2>2, StepRemote DEF Context
    <3> QED
      BY <1>2, <2>2, <3>2, <3>3, <3>4, <3>5, StepKinds
  <2> QED
    BY <2>1, <2>2 DEF UnsavedInv
<1> QED
  BY <1>1, <1>2

LEMMA StepUnique ==
  ASSUME Serial, Context, EntriesInv, NEW t \in Thread, Step(t)
  PROVE  UniqueInv'
<1> DEFINE f == frame[t]
           no == f.node.i_inode_no
<1> SUFFICES ASSUME faults' = 0, NEW k \in Links', NEW m \in Links', k # m
             PROVE  store'[k[1]][k[2]].inode # store'[m[1]][m[2]].inode
  BY DEF UniqueInv, NumbersUnique, Link
<1>0. NumbersUnique /\ faults = 0
  BY StepFaults DEF Context, EntriesInv, UniqueInv
<1>1. ASSUME Links' \subseteq Links, \A j \in Links' : store'[j[1]][j[2]] = Link(j)
      PROVE  store'[k[1]][k[2]].inode # store'[m[1]][m[2]].inode
  BY <1>0, <1>1 DEF NumbersUnique
<1>2. CASE Die
  BY <1>1, <1>2, FewerLinks DEF Die
<1>3. CASE ~Die /\ UNCHANGED store
  BY <1>1, <1>3, FewerLinks
<1>4. CASE ~Die /\ Exact /\ LiveAt(pc[t], f, meta, superblock, AllNumbers)
  <2>1. \A j \in Links : store'[j[1]][j[2]] = Link(j)
    BY <1>4, StepLinks DEF EntriesInv
  <2>2. CASE At(t, "link") /\ f.slot # 0
    <3>1. /\ Grows(f, no) /\ \A n \in AllNumbers : n < no
      BY <1>4, <2>2, StepLinks DEF EntriesInv, LiveAt, Creating, Saved, At
    <3>2. ASSUME NEW j \in Links PROVE Link(j).inode # no
      <4>1. Link(j).inode < no /\ no \in Nat /\ Link(j).inode \in Nat
        <5>1. AllNumbers \subseteq Nat /\ no \in Nat
          BY NumbersNat, ThreadFrame DEF Context, Frame, Inode
        <5> QED
          BY <3>1, <5>1, LinkNumbers
      <4> QED
        BY <4>1
    <3>3. \A j \in Links' : j \in Links \/ j = <<f.blk, f.slot>>
      BY <3>1 DEF Grows
    <3>4. store'[f.blk][f.slot].inode = no
      BY <3>1 DEF Grows
    <3> QED
      BY <1>0, <2>1, <3>2, <3>3, <3>4 DEF NumbersUnique
  <2>3. CASE ~(At(t, "link") /\ f.slot # 0)
    BY <1>1, <1>4, <2>1, <2>3, StepLinks DEF EntriesInv
  <2> QED
    BY <2>2, <2>3
<1>5. ~Die => AllNumbers' # {}
  BY NoNumbersNoLinks
<1> QED
  BY <1>2, <1>3, <1>4, <1>5, StepKinds

(***************************************************************************)
(* The other steps                                                         *)
(***************************************************************************)
LEMMA SameLinks ==
  ASSUME UNCHANGED store
  PROVE  Links' = Links /\ \A k \in Links : store'[k[1]][k[2]] = Link(k)
  BY DEF Links, Link

LEMMA DownEntries ==
  ASSUME EntriesInv, NEW stream, Down(stream), mapping'.unsaved = {}, ~mapping'.open,
         DOMAIN store' \subseteq DOMAIN store, \A b \in DOMAIN store' : store'[b] = store[b]
  PROVE  EntriesInv'
<1>1. up' = "unmounted" /\ faults' = faults
  BY DEF Down
<1>2. BlocksInv'
  BY <1>1 DEF BlocksInv, Exact, Live
<1>3. UnsavedInv'
  BY DEF UnsavedInv, Unnamed
<1>4. UniqueInv'
  BY <1>1, FewerLinks DEF EntriesInv, UniqueInv, NumbersUnique, Link
<1> QED
  BY <1>2, <1>3, <1>4 DEF EntriesInv

LEMMA DieEntries ==
  ASSUME EntriesInv, Die
  PROVE  EntriesInv'
<1>1. /\ Down(Dropped(meta)) /\ mapping'.unsaved = {} /\ ~mapping'.open
      /\ DOMAIN store' \subseteq DOMAIN store /\ \A b \in DOMAIN store' : store'[b] = store[b]
  BY DEF Die
<1> QED
  BY <1>1, DownEntries

LEMMA StopEntries ==
  ASSUME EntriesInv, Unmount \/ Crash
  PROVE  EntriesInv'
<1>1. CASE Die
  BY <1>1, DieEntries
<1>2. CASE Down(Closed(meta)) /\ mapping' = [open |-> FALSE, unsaved |-> {}] /\ UNCHANGED store
  <2>1. mapping'.unsaved = {} /\ ~mapping'.open
    BY <1>2
  <2> QED
    BY <1>2, <2>1, DownEntries
<1> QED
  BY <1>1, <1>2 DEF Unmount, Crash

\* What a call starts with, and what it leaves alone.
LEMMA CallFrame ==
  ASSUME Serial, Context, NEW t \in Thread, NEW c \in Calls, Call(t, c), ~Die
  PROVE  /\ pc[t] = "idle" /\ up = "mounted"
         /\ UNCHANGED <<up, superblock, root, meta, block, store, mapping, faults>>
         /\ \E k, h :
              /\ k \in {"find", "done"}
              /\ Goto(t, k, h) /\ \A u \in Thread : pc'[u] = k /\ frame'[u] = h
              /\ h.node = ZeroInode /\ h.base = ZeroInode /\ h.slot = 0 /\ h.blk = 0
              /\ h.op # "init"
<1> DEFINE f == [Idle EXCEPT !.op = c.op, !.path = c.path]
           g == [f EXCEPT !.ret = "ok"]
<1>1. /\ f.op = c.op /\ f.slot = 0 /\ f.blk = 0 /\ f.node = ZeroInode /\ f.base = ZeroInode
      /\ g.op = c.op /\ g.slot = 0 /\ g.blk = 0 /\ g.node = ZeroInode /\ g.base = ZeroInode
  BY DEF Idle
<1>2. c.op # "init"
  BY CallsAssumption DEF Mutators, Readers
<1>3. Goto(t, "find", f) \/ Goto(t, "done", g)
  BY DEF Call
<1>4. UNCHANGED <<up, superblock, root, meta, block, store, mapping, faults>>
      /\ up = "mounted" /\ pc[t] = "idle"
  BY DEF Call, remote, At
<1> HIDE DEF f, g
<1>5. PICK k \in {"find", "done"}, h \in {f, g} : Goto(t, k, h)
  BY <1>3
<1>6. \A u \in Thread : pc'[u] = k /\ frame'[u] = h
  BY <1>5, SerialThread DEF Context
<1> QED
  BY <1>1, <1>2, <1>4, <1>5, <1>6

LEMMA CallEntries ==
  ASSUME Serial, Context, EntriesInv, NEW t \in Thread, NEW c \in Calls, Call(t, c)
  PROVE  EntriesInv'
<1>1. CASE Die
  BY <1>1, DieEntries
<1>2. CASE ~Die
  <2>1. /\ pc[t] = "idle"
        /\ UNCHANGED <<up, superblock, root, meta, block, store, mapping, faults>>
    BY <1>2, CallFrame
  <2>2. PICK k, h :
               /\ k \in {"find", "done"} /\ Goto(t, k, h) /\ \A u \in Thread : pc'[u] = k /\ frame'[u] = h
               /\ h.node = ZeroInode /\ h.base = ZeroInode /\ h.slot = 0 /\ h.blk = 0
               /\ h.op # "init"
    BY <1>2, CallFrame
  <2>3. UnsavedInv' /\ UniqueInv'
    BY <2>1, SameLinks DEF EntriesInv, UnsavedInv, Unnamed, UniqueInv, NumbersUnique, Link
  <2>4. ASSUME Exact
        PROVE  /\ superblock.s_free_block >= 1
               /\ \A j \in Links : j[1] < superblock.s_free_block
               /\ EntriesAt(k, h, superblock, store, block)
               /\ \A i \in Holders : HasBlock(i, Top(k, h, superblock), store)
    <3>1. /\ superblock.s_free_block >= 1 /\ \A j \in Links : j[1] < superblock.s_free_block
          /\ \A i \in Holders : HasBlock(i, Top(pc[t], frame[t], superblock), store)
      BY <2>4 DEF EntriesInv, BlocksInv
    <3>2. Top(k, h, superblock) = Top(pc[t], frame[t], superblock)
      <4>1. ~Raising(k, h) /\ ~Raising(pc[t], frame[t])
        BY <2>1, <2>2 DEF Raising, WritesInode
      <4> QED
        BY <4>1 DEF Top
    <3>3. ZeroInode.i_block = 0
      BY DEF ZeroInode
    <3> QED
      BY <2>2, <3>1, <3>2, <3>3 DEF EntriesAt, HasBlock
  <2>5. BlocksInv'
    <3>1. Exact' <=> Exact
      BY <2>1 DEF Exact, Live
    <3>2. Holders' = Holders /\ Links' = Links
      BY <2>1, SameLinks DEF Holders, Inodes
    <3> QED
      BY <2>1, <2>2, <2>4, <3>1, <3>2 DEF BlocksInv
  <2> QED
    BY <2>3, <2>5 DEF EntriesInv
<1> QED
  BY <1>1, <1>2

LEMMA MountFrame ==
  ASSUME Serial, Context, NEW t \in Thread, Mount(t)
  PROVE  /\ up = "unmounted" /\ UNCHANGED <<block, store, mapping, faults>> /\ ~mapping.open
         /\ root = ZeroInode /\ meta.view = meta.disk /\ \A u \in Thread : pc[u] = "idle"
         /\ IF meta.disk = Empty
            THEN /\ up' = "init" /\ superblock' = Fresh /\ UNCHANGED <<root, meta>>
                 /\ \E g : /\ \A u \in Thread : pc'[u] = "update_inode" /\ frame'[u] = g
                           /\ g.op = "init" /\ g.ra = "inode_written" /\ g.slot = 0 /\ g.blk = 0
                           /\ g.node = NewInode(1, "init") /\ g.base = ZeroInode
            ELSE /\ up' = "mounted" /\ meta'.view = meta.view /\ meta'.disk = meta.view
                 /\ UNCHANGED <<pc, frame>>
                 /\ root' \in InodesRead(Seek(meta, InodePos(1)), ZeroInode)
<1>1. /\ up = "unmounted" /\ UNCHANGED <<block, store, mapping, faults>> /\ ~mapping.open
      /\ root = ZeroInode /\ meta.view = meta.disk /\ \A u \in Thread : pc[u] = "idle"
  BY DEF Mount, remote, Context, NumbersInv, PhaseInv, Resting
<1>2. CASE meta.disk = Empty
  <2> DEFINE g == [Idle EXCEPT !.op = "init", !.ra = "inode_written",
                               !.node = NewInode(Fresh.s_free_inode, "init")]
  <2>1. /\ g.op = "init" /\ g.ra = "inode_written" /\ g.slot = 0 /\ g.blk = 0
        /\ g.node = NewInode(1, "init") /\ g.base = ZeroInode
    BY DEF Idle, Fresh
  <2>2. /\ up' = "init" /\ superblock' = Fresh /\ UNCHANGED <<root, meta>>
        /\ Goto(t, "update_inode", g)
    BY <1>2 DEF Mount
  <2> HIDE DEF g
  <2> QED
    BY <1>1, <1>2, <2>1, <2>2, SerialThread DEF Context
<1>3. CASE meta.disk # Empty
  BY <1>1, <1>3 DEF Mount, AfterRead, Seek
<1> QED
  BY <1>2, <1>3

LEMMA MountEntries ==
  ASSUME Serial, Context, EntriesInv, NumbersInv', NEW t \in Thread, Mount(t)
  PROVE  EntriesInv'
<1>1. up # "init" /\ up' # "unmounted" /\ UNCHANGED <<store, mapping, faults>> /\ ~mapping.open
  BY MountFrame
<1>2. UnsavedInv' /\ UniqueInv'
  BY <1>1, SameLinks DEF EntriesInv, UnsavedInv, Unnamed, UniqueInv, NumbersUnique, Link
<1>3. BlocksInv'
  <2> SUFFICES ASSUME Exact' PROVE BlocksInv'
    BY DEF BlocksInv
  <2>1. up' = "init" /\ meta.disk = Empty
    BY <1>1, MountFrame DEF Exact, Live
  <2>2. PICK g : /\ \A u \in Thread : pc'[u] = "update_inode" /\ frame'[u] = g
                 /\ g.op = "init" /\ g.ra = "inode_written" /\ g.slot = 0 /\ g.blk = 0
                 /\ g.node = NewInode(1, "init") /\ g.base = ZeroInode
    BY <2>1, MountFrame
  <2>3. /\ superblock' = Fresh /\ root' = ZeroInode /\ meta'.view = Empty /\ meta'.disk = Empty
    BY <2>1, MountFrame
  <2>4. Links' = {}
    BY <2>1, NoNumbersNoLinks DEF NumbersInv, EmptyInv
  <2>5. ZeroInode.i_block = 0 /\ NewInode(1, "init").i_block = 0 /\ Fresh.s_free_block = 1
    BY DEF ZeroInode, NewInode, Fresh
  <2>6. \A i \in Holders' : i = ZeroInode
    BY <2>3 DEF Holders, Inodes, Empty
  <2>7. EntriesAt("update_inode", g, Fresh, store', block')
    BY <2>2, <2>5 DEF EntriesAt, HasBlock
  <2> QED
    BY <2>2, <2>3, <2>4, <2>5, <2>6, <2>7 DEF BlocksInv, HasBlock
<1> QED
  BY <1>2, <1>3 DEF EntriesInv

LEMMA SameEntries ==
  ASSUME EntriesInv, UNCHANGED vars
  PROVE  EntriesInv'
<1>1. Links' = Links /\ (Exact' <=> Exact) /\ Holders' = Holders
  BY SameLinks DEF vars, Exact, Live, Holders, Inodes
<1>2. UnsavedInv' /\ UniqueInv'
  BY <1>1, SameLinks DEF vars, EntriesInv, UnsavedInv, Unnamed, UniqueInv, NumbersUnique, Link
<1>3. BlocksInv'
  BY <1>1 DEF vars, EntriesInv, BlocksInv
<1> QED
  BY <1>2, <1>3 DEF EntriesInv

LEMMA NextEntries ==
  ASSUME Serial, Context, EntriesInv, [Next]_vars
  PROVE  EntriesInv'
<1>1. ASSUME NEW t \in Thread, Step(t)
      PROVE  EntriesInv'
  BY <1>1, StepBlocks, StepUnsaved, StepUnique DEF EntriesInv
<1>2. NumbersInv'
  BY NextNumbers
<1>3. CASE UNCHANGED vars
  BY <1>3, SameEntries
<1> QED
  BY <1>1, <1>2, <1>3, CallEntries, MountEntries, StopEntries DEF Next

LEMMA InitEntries == Init => EntriesInv
<1> SUFFICES ASSUME Init PROVE EntriesInv
  OBVIOUS
<1>1. Links = {} /\ ~Exact /\ mapping.unsaved = {}
  BY IsLink DEF Init, Exact, Live
<1> QED
  BY <1>1 DEF EntriesInv, BlocksInv, UnsavedInv, Unnamed, UniqueInv, NumbersUnique

(***************************************************************************)
(* The theorems about entries                                              *)
(***************************************************************************)
\* new_inode: with one thread, and as long as no transfer has failed, two entries
\* never name one inode, over any crashes and restarts.
THEOREM SerialUnique == Serial /\ Spec => [](faults = 0 => NumbersUnique)
<1> SUFFICES ASSUME Serial PROVE Spec => [](faults = 0 => NumbersUnique)
  OBVIOUS
<1> DEFINE Inv == Context /\ EntriesInv
<1>1. Init => Inv
  BY InitContext, InitEntries
<1>2. Inv /\ [Next]_vars => Inv'
  BY NextContext, NextEntries
<1>3. Inv => (faults = 0 => NumbersUnique)
  BY DEF EntriesInv, UniqueInv
<1> HIDE DEF Inv
<1> QED
  BY <1>1, <1>2, <1>3, PTL DEF Spec

\* A step that loses no entry.
Keeps == \A l \in Links : l[1] \in DOMAIN store' /\ store'[l[1]][l[2]] = Link(l)

LEMMA StopKeeps ==
  ASSUME EntriesInv, faults = 0, Die \/ UNCHANGED store
  PROVE  Keeps
<1>1. CASE UNCHANGED store
  BY <1>1, SameLinks, IsLink DEF Keeps
<1>2. CASE Die
  <2> SUFFICES ASSUME NEW l \in Links
               PROVE  l[1] \in DOMAIN store' /\ store'[l[1]][l[2]] = Link(l)
    BY DEF Keeps
  <2>1. /\ l \in (DOMAIN store \ {0}) \X Slot /\ store[l[1]][l[2]].name \in Name
        /\ store[l[1]][l[2]].inode # Far
    BY IsLink
  <2>2. store[l[1]][l[2]].inode \in Numbers(store[l[1]])
    BY <2>1 DEF Numbers
  <2>3. l[1] \notin mapping.unsaved
    BY <2>1, <2>2 DEF EntriesInv, UnsavedInv, Unnamed
  <2> QED
    BY <1>2, <2>1, <2>3 DEF Die, Link
<1> QED
  BY <1>1, <1>2

LEMMA NextKeeps ==
  ASSUME Serial, Context, EntriesInv, [Next]_vars, faults' = 0, root.i_block # 0
  PROVE  Keeps
<1>1. ASSUME NEW t \in Thread, Step(t), ~Die
      PROVE  Keeps
  <2>1. faults = 0
    BY <1>1, StepFaults DEF Context
  <2>2. CASE Exact
    <3>1. \A k \in Links : store'[k[1]][k[2]] = Link(k)
      BY <1>1, <2>2, StepLinks DEF EntriesInv
    <3>2. DOMAIN store \subseteq DOMAIN store'
      <4>1. store' = store \/ \E b, data : store' = Stored(b, data)
        BY <1>1, StepRemote DEF Context
      <4> QED
        BY <4>1 DEF Stored
    <3> QED
      BY <3>1, <3>2, IsLink DEF Keeps
  <2>3. CASE ~At(t, "dir_put") /\ ~At(t, "link")
    BY <1>1, <2>1, <2>3, StepRemote, StopKeeps DEF Context
  <2>4. CASE ~Exact /\ (At(t, "dir_put") \/ At(t, "link"))
    BY <1>1, <2>1, <2>4, Phases DEF Exact, Rootless, FrozenAt, WritesInode, At
  <2> QED
    BY <2>2, <2>3, <2>4
<1>2. ASSUME NEW t \in Thread, Mount(t) PROVE Keeps
  <2>1. UNCHANGED <<store, faults>>
    BY <1>2 DEF Mount, remote
  <2> QED
    BY <2>1, StopKeeps
<1>3. ASSUME NEW t \in Thread, NEW c \in Calls, Call(t, c) PROVE Keeps
  <2>1. faults' = faults /\ (Die \/ UNCHANGED store)
    BY <1>3 DEF Call, remote, Die, Down
  <2> QED
    BY <2>1, StopKeeps
<1>4. CASE Unmount \/ Crash \/ Die \/ UNCHANGED vars
  <2>1. faults' = faults /\ (Die \/ UNCHANGED store)
    BY <1>4 DEF Unmount, Crash, vars, Die, Down
  <2> QED
    BY <2>1, StopKeeps
<1> QED
  BY <1>1, <1>2, <1>3, <1>4 DEF Next

\* empty_dir_slot and the put_block after it: with one thread, no step of a
\* process with a root loses or changes an entry, nor does its end, as long as no
\* transfer has failed.
THEOREM SerialEntryKept == Serial /\ Spec => EntryKept
<1> SUFFICES ASSUME Serial PROVE Spec => EntryKept
  OBVIOUS
<1> DEFINE Inv == Context /\ EntriesInv
<1>1. Init => Inv
  BY InitContext, InitEntries
<1>2. Inv /\ [Next]_vars => Inv'
  BY NextContext, NextEntries
<1>3. Inv /\ [Next]_vars => [faults' = 0 /\ root.i_block # 0 => Keeps]_vars
  BY NextKeeps
<1>4. [faults' = 0 /\ root.i_block # 0 => Keeps]_vars
        => [faults' = 0 /\ root.i_block # 0 =>
              \A l \in Links : /\ l[1] \in DOMAIN store'
                               /\ store'[l[1]][l[2]] = Link(l)]_vars
  BY DEF Keeps
<1> HIDE DEF Inv
<1> QED
  BY <1>1, <1>2, <1>3, <1>4, PTL DEF Spec, EntryKept
(***************************************************************************)
(* A directory has a block of its own                                      *)
(***************************************************************************)
InodeIn(file, n) == IF InodePos(n) \in DOMAIN file THEN file[InodePos(n)] ELSE ZeroInode

SameInodes(file, copy) ==
    \A p \in (DOMAIN file \cup DOMAIN copy) \ {SuperPos} :
        p \in DOMAIN file \cap DOMAIN copy /\ file[p] = copy[p]

\* The file says the same of the inode, its time aside.
Agree(i, file) == LET j == InodeIn(file, i.i_inode_no)
                  IN  i.i_block = j.i_block /\ i.i_mode = j.i_mode
Known(i, S, file) == Agree(i, file) /\ i.i_inode_no < S.s_free_inode

\* The directory that the entry k names, if it is one, has a block of its own,
\* whose way a crash does not lose.
Own(file, st, uns, k) ==
    LET n == st[k[1]][k[2]].inode
        i == InodeIn(file, n)
        b == i.i_block
    IN  i.i_mode = "dir" =>
          /\ b # 0 /\ b \in DOMAIN st /\ b # k[1] /\ b \notin uns
          /\ st[b][1] = [inode |-> n, name |-> "."]
          /\ st[b][2].name = ".." /\ st[b][2].inode # 0
          /\ InodeIn(file, st[b][2].inode).i_block = k[1]

OwnInv == faults = 0 =>
    \A k \in Links : /\ Own(meta.view, store, mapping.unsaved, k)
                     /\ Own(meta.disk, store, mapping.unsaved, k)

\* The inodes a call has found are those of the file.
KnownAt(l, f, S, file) == /\ Known(f.base, S, file)
                          /\ ~Creating(l, f) => Known(f.node, S, file)

\* The one it makes is new, gets its block late, and gets it for good.
MadeAt(l, f, file) == Creating(l, f) =>
    LET made == InodeIn(file, f.node.i_inode_no)
    IN  /\ f.base.i_inode_no < f.node.i_inode_no
        /\ f.node.i_mode = IF f.op = "create" THEN "file" ELSE "dir"
        /\ Advanced(l, f) => f.ra = IF f.op = "create" THEN "slot" ELSE "dir_block"
        /\ Blockless(l, f) => f.node.i_block = 0
        /\ IF WritesInode(l) THEN made.i_block = 0 ELSE made = f.node

IsDirOf(f, b, st) == st[b] = EmptyDir(f.node.i_inode_no, Parent(f).i_inode_no)

BlockAt(l, f, S, st) ==
    /\ l = "dir_iblock" => IsDirOf(f, S.s_free_block, st)
    /\ Creating(l, f) /\ ~Blockless(l, f) /\ f.op # "create" =>
         /\ f.node.i_block # 0 /\ f.node.i_block \in DOMAIN st
         /\ f.node.i_block # f.base.i_block /\ IsDirOf(f, f.node.i_block, st)

\* Both are on disk before the entry is uploaded, and the way to its block is.
FlushedAt(l, f, uns, s) ==
    /\ l \in {"write_superblock", "dir_free", "slot", "link"} => SameInodes(s.view, s.disk)
    /\ l = "link" /\ f.slot # 0 => uns = {}

\* No inode has a number that will be handed out.
CountedAt(l, S, file) ==
    \A p \in DOMAIN file :
        p <= S.s_free_inode + IF l \in {"inode_written", "bump_inode"} THEN 1 ELSE 0

MakingAt(l, f, S, st, uns, s) ==
    /\ KnownAt(l, f, S, s.view) /\ MadeAt(l, f, s.view) /\ BlockAt(l, f, S, st)
    /\ FlushedAt(l, f, uns, s) /\ CountedAt(l, S, s.view)

MakingInv == Exact =>
    /\ Agree(ZeroInode, meta.view)
    /\ Agree(root, meta.view) /\ root.i_inode_no <= 1
    /\ \A t \in Thread :
         MakingAt(pc[t], frame[t], superblock, store, mapping.unsaved, meta)

\* A process that has loaded its root writes no inode but with a new time.
LoadedInv == faults = 0 /\ Frozen =>
    /\ Agree(root, meta.view)
    /\ \A t \in Thread : WritesInode(pc[t]) => Agree(frame[t].node, meta.view)

DirsInv == OwnInv /\ MakingInv /\ LoadedInv

(***************************************************************************)
(* The inodes of a file, and what a step does to them                      *)
(***************************************************************************)
With(file, p, r) == [x \in DOMAIN file \cup {p} |-> IF x = p THEN r ELSE file[x]]

LEMMA InodeWritten ==
  ASSUME NEW file, NEW no \in Nat, NEW r, NEW file2, file2 = With(file, InodePos(no), r)
  PROVE  /\ InodeIn(file2, no) = r
         /\ \A n \in Nat \ {no} : InodeIn(file2, n) = InodeIn(file, n)
  BY DEF InodeIn, InodePos, With

LEMMA SuperWritten ==
  ASSUME NEW file, NEW r, NEW file2, file2 = With(file, SuperPos, r)
  PROVE  \A n \in Nat : InodeIn(file2, n) = InodeIn(file, n)
  BY DEF InodeIn, InodePos, SuperPos, With

LEMMA SameInodesIn ==
  ASSUME NEW file, NEW copy, SameInodes(file, copy)
  PROVE  \A n \in Nat : InodeIn(file, n) = InodeIn(copy, n)
<1> SUFFICES ASSUME NEW n \in Nat PROVE InodeIn(file, n) = InodeIn(copy, n)
  OBVIOUS
<1>1. InodePos(n) # SuperPos
  BY DEF InodePos, SuperPos
<1> QED
  BY <1>1 DEF SameInodes, InodeIn

LEMMA StepInodes ==
  ASSUME Context, NEW t \in Thread, Step(t), ~Die
  PROVE  LET no == frame[t].node.i_inode_no
         IN  /\ no \in Nat
             /\ At(t, "write_inode") => InodeIn(meta'.view, no) = frame[t].node
             /\ \A n \in Nat : ~(At(t, "write_inode") /\ n = no) =>
                                 InodeIn(meta'.view, n) = InodeIn(meta.view, n)
             /\ meta'.disk \in {meta.disk, meta.view}
             /\ \A p \in DOMAIN meta'.view :
                  p \in DOMAIN meta.view \cup {SuperPos}
                  \/ (At(t, "write_inode") /\ p = InodePos(no))
<1> DEFINE f == frame[t]
           no == f.node.i_inode_no
<1>0. no \in Nat
  BY ThreadFrame DEF Context, Frame, Inode
<1>1. CASE At(t, "write_inode")
  <2>1. /\ meta'.disk = meta.disk
        /\ meta'.view = [x \in DOMAIN meta.view \cup {InodePos(no)} |->
                           IF x = InodePos(no) THEN f.node ELSE meta.view[x]]
    BY <1>1, StepFile DEF Context
  <2>2. /\ InodeIn(meta'.view, no) = f.node
        /\ \A n \in Nat \ {no} : InodeIn(meta'.view, n) = InodeIn(meta.view, n)
    <3>1. meta'.view = With(meta.view, InodePos(no), f.node)
      BY <2>1 DEF With
    <3> HIDE DEF no, f
    <3> QED
      BY <1>0, <3>1, InodeWritten
  <2>3. DOMAIN meta'.view = DOMAIN meta.view \cup {InodePos(no)}
    BY <2>1
  <2> QED
    BY <1>0, <1>1, <2>1, <2>2, <2>3
<1>2. CASE At(t, "write_superblock")
  <2>1. /\ meta'.disk = meta.disk
        /\ meta'.view = [x \in DOMAIN meta.view \cup {SuperPos} |->
                           IF x = SuperPos THEN superblock ELSE meta.view[x]]
    BY <1>2, StepFile DEF Context
  <2>2. ~At(t, "write_inode")
    BY <1>2 DEF At
  <2>3. \A n \in Nat : InodeIn(meta'.view, n) = InodeIn(meta.view, n)
    BY <2>1, SuperWritten DEF With
  <2>4. DOMAIN meta'.view = DOMAIN meta.view \cup {SuperPos}
    BY <2>1
  <2> QED
    BY <1>0, <2>1, <2>2, <2>3, <2>4
<1>3. CASE ~At(t, "write_inode") /\ ~At(t, "write_superblock")
  <2>1. meta'.view = meta.view /\ meta'.disk \in {meta.disk, meta.view}
    BY <1>3, StepFile DEF Context
  <2> QED
    BY <1>0, <1>3, <2>1
<1> QED
  BY <1>1, <1>2, <1>3

\* The file on disk comes up to the one in memory with the seek to the superblock.
LEMMA StepFlushed ==
  ASSUME Context, NEW t \in Thread, Step(t), ~Die
  PROVE  /\ At(t, "update_superblock") => SameInodes(meta'.view, meta'.disk)
         /\ pc[t] \in {"write_superblock", "dir_free", "slot", "link"}
              /\ SameInodes(meta.view, meta.disk) => SameInodes(meta'.view, meta'.disk)
         /\ pc[t] \in {"dir_put", "dir_free", "slot", "link"} => UNCHANGED meta
<1>1. CASE At(t, "update_superblock")
  <2>1. meta'.view = meta'.disk
    BY <1>1, StepFile DEF Context
  <2> QED
    BY <1>1, <2>1 DEF SameInodes, At
<1>2. CASE At(t, "write_superblock")
  <2>1. /\ meta'.disk = meta.disk
        /\ meta'.view = [x \in DOMAIN meta.view \cup {SuperPos} |->
                           IF x = SuperPos THEN superblock ELSE meta.view[x]]
    BY <1>2, StepFile DEF Context
  <2>2. SameInodes(meta.view, meta.disk) => SameInodes(meta'.view, meta'.disk)
    BY <2>1 DEF SameInodes
  <2> QED
    BY <1>2, <2>2 DEF At
<1>3. CASE pc[t] \in {"dir_put", "dir_free", "slot", "link"}
  <2>1. UNCHANGED meta
    BY <1>3, StepGlobals DEF Context, StepMeta, At
  <2> QED
    BY <1>3, <2>1 DEF At
<1> QED
  BY <1>1, <1>2, <1>3 DEF At

LEMMA AgreeKept ==
  ASSUME Context, NEW t \in Thread, Step(t), ~Die, NEW i, i.i_inode_no \in Nat,
         Agree(i, meta.view),
         At(t, "write_inode") =>
           i.i_inode_no # frame[t].node.i_inode_no \/ Agree(frame[t].node, meta.view)
  PROVE  Agree(i, meta'.view)
<1> DEFINE f == frame[t]
           no == f.node.i_inode_no
<1>1. CASE At(t, "write_inode") /\ i.i_inode_no = no
  <2>1. InodeIn(meta'.view, no) = f.node /\ Agree(f.node, meta.view)
    BY <1>1, StepInodes
  <2> QED
    BY <1>1, <2>1 DEF Agree
<1>2. CASE ~(At(t, "write_inode") /\ i.i_inode_no = no)
  <2>1. InodeIn(meta'.view, i.i_inode_no) = InodeIn(meta.view, i.i_inode_no)
    BY <1>2, StepInodes
  <2> QED
    BY <2>1 DEF Agree
<1> QED
  BY <1>1, <1>2

(***************************************************************************)
(* A directory keeps its block                                             *)
(***************************************************************************)
LEMMA OwnKept ==
  ASSUME NEW file, NEW st, NEW uns, NEW file2, NEW st2, NEW uns2, NEW k,
         Own(file, st, uns, k), st2[k[1]][k[2]].inode = st[k[1]][k[2]].inode,
         LET i == InodeIn(file, st[k[1]][k[2]].inode)
             j == InodeIn(file2, st[k[1]][k[2]].inode)
             b == i.i_block
         IN  /\ j.i_mode = i.i_mode
             /\ i.i_mode = "dir" =>
                  /\ j.i_block = b /\ b \in DOMAIN st2 /\ b \notin uns2
                  /\ st2[b][1] = st[b][1] /\ st2[b][2] = st[b][2]
                  /\ InodeIn(file2, st[b][2].inode).i_block = k[1]
  PROVE  Own(file2, st2, uns2, k)
  BY DEF Own

\* The inode that is written has no block yet, or the one it had.
LEMMA OwnWritten ==
  ASSUME NEW file, NEW st \in [DOMAIN store -> Block], NEW uns, NEW file2, NEW uns2, NEW k,
         Own(file, st, uns, k), uns2 \subseteq uns,
         k \in (DOMAIN st \ {0}) \X Slot, NEW no \in Nat,
         \A n \in Nat \ {no} : InodeIn(file2, n) = InodeIn(file, n),
         LET i == InodeIn(file, no)
             j == InodeIn(file2, no)
         IN  \/ i.i_block = j.i_block /\ i.i_mode = j.i_mode
             \/ i.i_block = 0 /\ st[k[1]][k[2]].inode # no
  PROVE  Own(file2, st, uns2, k)
<1> DEFINE n == st[k[1]][k[2]].inode
           i == InodeIn(file, n)
           b == i.i_block
           m == st[b][2].inode
<1>0. /\ n \in Nat /\ k[1] # 0
      /\ b \in DOMAIN st => m \in Nat
  <2>1. 1 \in Slot /\ 2 \in Slot
    BY BoundAssumption DEF Slot
  <2> QED
    BY <2>1 DEF Block, Entry
<1>1. InodeIn(file2, n).i_mode = i.i_mode /\ InodeIn(file2, n).i_block = b
  <2>1. CASE n = no
    BY <2>1
  <2>2. CASE n # no
    BY <1>0, <2>2
  <2> QED
    BY <2>1, <2>2
<1>2. i.i_mode = "dir" => /\ b \in DOMAIN st /\ b \notin uns2
                          /\ InodeIn(file, m).i_block = k[1]
  BY DEF Own
<1>3. i.i_mode = "dir" => InodeIn(file2, m).i_block = k[1]
  <2>1. CASE m = no
    BY <1>0, <1>2, <2>1
  <2>2. CASE m # no
    BY <1>0, <1>2, <2>2
  <2> QED
    BY <2>1, <2>2
<1> QED
  BY <1>1, <1>2, <1>3, OwnKept

\* What is put while no transfer fails is no block that another directory has,
\* or that block with an entry where none was.
LEMMA PutOwn ==
  ASSUME Context, BlocksInv, Exact, faults' = 0, NEW t \in Thread, Step(t), ~Die,
         At(t, "dir_put") \/ At(t, "link"), NEW k \in Links, Link(k).inode # 0,
         NEW file \in {meta.view, meta.disk}, Own(file, store, mapping.unsaved, k)
  PROVE  Own(file, store', mapping'.unsaved, k)
<1> DEFINE f == frame[t]
           n == store[k[1]][k[2]].inode
           i == InodeIn(file, n)
           b == i.i_block
<1>1. store'[k[1]][k[2]].inode = n /\ n # 0
  BY StepLinks DEF Link
<1>2. /\ EntriesAt(pc[t], f, superblock, store, block)
      /\ \A j \in Holders : HasBlock(j, superblock.s_free_block, store)
  BY DEF BlocksInv, Top, Raising, WritesInode, At
<1>3. SUFFICES ASSUME i.i_mode = "dir"
               PROVE  /\ b \in DOMAIN store' /\ b \notin mapping'.unsaved
                      /\ store'[b][1] = store[b][1] /\ store'[b][2] = store[b][2]
                      /\ InodeIn(file, store[b][2].inode).i_block = k[1]
  <2> HIDE DEF n, i, b
  <2>1. /\ i.i_mode = i.i_mode
        /\ i.i_mode = "dir" =>
             /\ b = b /\ b \in DOMAIN store' /\ b \notin mapping'.unsaved
             /\ store'[b][1] = store[b][1] /\ store'[b][2] = store[b][2]
             /\ InodeIn(file, store[b][2].inode).i_block = k[1]
    BY <1>3
  <2> QED
    BY <1>1, <2>1, OwnKept DEF n, i, b
<1>4. /\ b # 0 /\ b \in DOMAIN store /\ b # k[1]
      /\ store[b][1].inode # 0 /\ store[b][2].inode # 0
      /\ InodeIn(file, store[b][2].inode).i_block = k[1]
  <2>1. /\ b # 0 /\ b \in DOMAIN store /\ b # k[1]
        /\ store[b][1] = [inode |-> n, name |-> "."] /\ store[b][2].inode # 0
        /\ InodeIn(file, store[b][2].inode).i_block = k[1]
    BY <1>3 DEF Own
  <2> HIDE DEF n, i, b
  <2> QED
    BY <1>1, <2>1
<1>5. b \in Nat /\ b < superblock.s_free_block
  <2>1. i \in Holders
    <3>1. ZeroInode.i_mode # "dir"
      BY DEF ZeroInode
    <3>2. n \in Nat
      BY LinkNumbers, NumbersNat DEF Context, Link
    <3>3. InodePos(n) # SuperPos
      BY <3>2 DEF InodePos, SuperPos
    <3> QED
      BY <1>3, <3>1, <3>3 DEF InodeIn, Holders, Inodes
  <2>2. HasBlock(i, superblock.s_free_block, store)
    BY <1>2, <2>1
  <2>3. DOMAIN store \subseteq Nat
    BY DEF Context, TypeOK
  <2> QED
    BY <1>4, <2>2, <2>3 DEF HasBlock
<1> HIDE DEF n, i, b
<1>6. ASSUME NEW blk, NEW data, store' = Stored(blk, data), mapping'.unsaved = NewRecord(blk),
             b # blk
      PROVE  /\ b \in DOMAIN store' /\ b \notin mapping'.unsaved
             /\ store'[b] = store[b]
  BY <1>4, <1>6 DEF Stored, NewRecord
<1>7. CASE At(t, "dir_put")
  <2>1. f.blk = superblock.s_free_block
    BY <1>2, <1>7 DEF EntriesAt, At
  <2>2. superblock.s_free_block \in Nat
    BY DEF Context, TypeOK, Super
  <2>3. b # f.blk
    BY <1>5, <2>1, <2>2
  <2> QED
    BY <1>4, <1>6, <1>7, <2>3, StepRemote DEF Context
<1>8. CASE At(t, "link") /\ f.slot = 0
  <2>1. b # f.blk
    BY <1>2, <1>4, <1>8 DEF EntriesAt, At
  <2> QED
    BY <1>4, <1>6, <1>8, <2>1, StepRemote DEF Context
<1>9. CASE At(t, "link") /\ f.slot # 0
  <2>1. f.blk \in DOMAIN store /\ f.data = store[f.blk] /\ f.data[f.slot].inode = 0
    BY <1>2, <1>9 DEF EntriesAt, At
  <2>2. store' = Stored(f.blk, Linked(f)) /\ mapping'.unsaved = NewRecord(f.blk)
    BY <1>9, StepRemote DEF Context
  <2>3. CASE b # f.blk
    BY <1>4, <1>6, <2>2, <2>3
  <2>4. CASE b = f.blk
    <3>1. f.slot # 1 /\ f.slot # 2
      BY <1>4, <2>1, <2>4
    <3>2. f.data[1] = Linked(f)[1] /\ f.data[2] = Linked(f)[2]
      <4>1. f.data \in [Slot -> Entry] /\ 1 \in Slot /\ 2 \in Slot
        BY ThreadFrame, BoundAssumption DEF Context, Frame, Block, Slot
      <4> QED
        BY <1>9, <3>1, <4>1 DEF Linked
    <3>3. store'[b] = Linked(f) /\ b \in DOMAIN store' /\ mapping'.unsaved = {}
      BY <1>4, <2>2, <2>4 DEF Stored, NewRecord
    <3> QED
      BY <1>4, <2>1, <2>4, <3>2, <3>3
  <2> QED
    BY <2>3, <2>4
<1> QED
  BY <1>7, <1>8, <1>9

\* The directory that is linked has what new_empty_dir made.
LEMMA NewOwn ==
  ASSUME Context, BlocksInv, MakingInv, Exact, faults' = 0, up # "init",
         NEW t \in Thread, Step(t), ~Die,
         At(t, "link"), frame[t].slot # 0, NEW file \in {meta.view, meta.disk}
  PROVE  Own(file, store', mapping'.unsaved, <<frame[t].blk, frame[t].slot>>)
<1> DEFINE f == frame[t]
           no == f.node.i_inode_no
           b == f.node.i_block
           k == <<f.blk, f.slot>>
<1>1. /\ EntriesAt(pc[t], f, superblock, store, block) /\ Agree(ZeroInode, meta.view)
      /\ MakingAt(pc[t], f, superblock, store, mapping.unsaved, meta)
      /\ Creating(pc[t], f) /\ ~Blockless(pc[t], f) /\ ~WritesInode(pc[t])
  BY DEF BlocksInv, MakingInv, Creating, Blockless, Numbered, Advanced, Saved, WritesInode,
     WritesSuper, At
<1>2. f.blk = f.base.i_block /\ f.blk # 0 /\ f.blk \in DOMAIN store
  BY <1>1 DEF EntriesAt, At
<1>3. /\ \A n \in Nat : InodeIn(file, n) = InodeIn(meta.view, n)
      /\ no \in Nat /\ f.base.i_inode_no \in Nat /\ f.op # "init"
  <2>1. SameInodes(meta.view, meta.disk)
    BY <1>1 DEF MakingAt, FlushedAt, At
  <2>2. no \in Nat /\ f.base.i_inode_no \in Nat
    BY ThreadFrame DEF Context, Frame, Inode
  <2>3. f.op # "init"
    BY DEF Context, NumbersInv, PhaseInv
  <2> QED
    BY <2>1, <2>2, <2>3, SameInodesIn
<1>4. InodeIn(file, no) = f.node
  BY <1>1, <1>3 DEF MakingAt, MadeAt
<1>5. InodeIn(file, f.base.i_inode_no).i_block = f.blk /\ f.base.i_inode_no # 0
  <2>1. InodeIn(meta.view, f.base.i_inode_no).i_block = f.blk
    BY <1>1, <1>2 DEF MakingAt, KnownAt, Known, Agree
  <2>2. InodeIn(meta.view, 0).i_block = 0
    BY <1>1 DEF Agree, ZeroInode
  <2> QED
    BY <1>2, <1>3, <2>1, <2>2
<1>6. /\ store' = Stored(f.blk, Linked(f)) /\ mapping'.unsaved = {}
      /\ store'[k[1]][k[2]].inode = no
  <2>1. store' = Stored(f.blk, Linked(f)) /\ mapping'.unsaved = {}
    BY <1>2, StepRemote DEF Context, NewRecord
  <2>2. Grows(f, no)
    BY StepLinks
  <2> QED
    BY <2>1, <2>2 DEF Grows
<1>7. CASE f.node.i_mode = "dir"
  <2>1. /\ b # 0 /\ b \in DOMAIN store /\ b # f.blk
        /\ store[b] = EmptyDir(no, f.base.i_inode_no)
    BY <1>1, <1>2, <1>3, <1>7 DEF MakingAt, MadeAt, BlockAt, IsDirOf, Parent
  <2>2. store'[b] = EmptyDir(no, f.base.i_inode_no) /\ b \in DOMAIN store'
    BY <1>6, <2>1 DEF Stored
  <2>3. 1 \in Slot /\ 2 \in Slot
    BY BoundAssumption DEF Slot
  <2>4. /\ store'[b][1] = [inode |-> no, name |-> "."]
        /\ store'[b][2] = [inode |-> f.base.i_inode_no, name |-> ".."]
    BY <2>2, <2>3 DEF EmptyDir
  <2> HIDE DEF no, b
  <2> QED
    BY <1>4, <1>5, <1>6, <2>1, <2>2, <2>4 DEF Own, b
<1>8. CASE f.node.i_mode # "dir"
  BY <1>4, <1>6, <1>8 DEF Own
<1> QED
  BY <1>7, <1>8

LEMMA StepOwn ==
  ASSUME Serial, Context, EntriesInv, DirsInv, NEW t \in Thread, Step(t), ~Die
  PROVE  OwnInv'
<1> DEFINE f == frame[t]
           no == f.node.i_inode_no
           uns == mapping.unsaved
<1> SUFFICES ASSUME faults' = 0, NEW k \in Links'
             PROVE  Own(meta'.view, store', mapping'.unsaved, k)
                    /\ Own(meta'.disk, store', mapping'.unsaved, k)
  BY DEF OwnInv
<1>1. /\ faults = 0 /\ TypeOK /\ BlocksInv /\ MakingInv
      /\ \A j \in Links : Own(meta.view, store, uns, j) /\ Own(meta.disk, store, uns, j)
  BY StepFaults DEF Context, EntriesInv, DirsInv, OwnInv
<1>2. CASE UNCHANGED store /\ mapping'.unsaved \subseteq uns
  <2>1. k \in Links /\ k \in (DOMAIN store \ {0}) \X Slot /\ store \in [DOMAIN store -> Block]
    BY <1>1, <1>2, SameLinks, IsLink DEF TypeOK
  <2>2. Own(meta.view, store, uns, k) /\ Own(meta.disk, store, uns, k)
    BY <1>1, <2>1
  <2>3. /\ no \in Nat
        /\ At(t, "write_inode") => InodeIn(meta'.view, no) = f.node
        /\ \A n \in Nat : ~(At(t, "write_inode") /\ n = no) =>
                            InodeIn(meta'.view, n) = InodeIn(meta.view, n)
        /\ meta'.disk \in {meta.disk, meta.view}
    BY StepInodes
  <2>4. At(t, "write_inode") =>
          \/ Agree(f.node, meta.view)
          \/ InodeIn(meta.view, no).i_block = 0 /\ store[k[1]][k[2]].inode # no
    <3> SUFFICES ASSUME At(t, "write_inode")
                 PROVE  \/ Agree(f.node, meta.view)
                        \/ InodeIn(meta.view, no).i_block = 0 /\ store[k[1]][k[2]].inode # no
      OBVIOUS
    <3>1. Link(k).inode \in AllNumbers /\ Link(k).inode \in Nat
      BY <1>1, <2>1, LinkNumbers, NumbersNat
    <3>2. up # "init" /\ ~Rootless
      BY <3>1 DEF Context, NumbersInv, EmptyInv
    <3>3. CASE Live /\ LiveAt(pc[t], f, meta, superblock, AllNumbers)
      <4>1. KnownAt(pc[t], f, superblock, meta.view) /\ MadeAt(pc[t], f, meta.view)
        BY <1>1, <3>3 DEF MakingInv, MakingAt, Exact
      <4>2. CASE ~Creating(pc[t], f)
        BY <4>1, <4>2 DEF KnownAt, Known
      <4>3. CASE Creating(pc[t], f)
        <5>1. InodeIn(meta.view, no).i_block = 0
          BY <4>1, <4>3 DEF MadeAt, WritesInode, At
        <5>2. Link(k).inode < no
          BY <3>1, <3>3, <4>3 DEF LiveAt
        <5> QED
          BY <2>3, <3>1, <5>1, <5>2 DEF Link
      <4> QED
        BY <4>2, <4>3
    <3>4. CASE Frozen
      BY <1>1, <3>4 DEF DirsInv, LoadedInv, WritesInode, At
    <3> QED
      BY <3>2, <3>3, <3>4, Phases
  <2>5. Own(meta'.view, store, mapping'.unsaved, k)
    <3>1. CASE At(t, "write_inode")
      <4>1. \A n \in Nat \ {no} : InodeIn(meta'.view, n) = InodeIn(meta.view, n)
        BY <2>3
      <4>2. LET i == InodeIn(meta.view, no)
                j == InodeIn(meta'.view, no)
            IN  \/ i.i_block = j.i_block /\ i.i_mode = j.i_mode
                \/ i.i_block = 0 /\ store[k[1]][k[2]].inode # no
        BY <2>3, <2>4, <3>1 DEF Agree
      <4> HIDE DEF no
      <4> QED
        BY <1>2, <2>1, <2>2, <2>3, <4>1, <4>2, OwnWritten
    <3>2. CASE ~At(t, "write_inode")
      <4>1. \A n \in Nat : InodeIn(meta'.view, n) = InodeIn(meta.view, n)
        BY <2>3, <3>2
      <4> QED
        BY <1>2, <2>1, <2>2, <4>1, OwnWritten
    <3> QED
      BY <3>1, <3>2
  <2>6. Own(meta'.disk, store, mapping'.unsaved, k)
    <3>1. Own(meta'.disk, store, uns, k)
      BY <2>2, <2>3
    <3> QED
      BY <1>2, <2>1, <3>1, OwnWritten
  <2> QED
    BY <1>2, <2>5, <2>6
<1>3. CASE /\ Exact /\ LiveAt(pc[t], f, meta, superblock, AllNumbers) /\ Live
           /\ At(t, "dir_put") \/ At(t, "link")
  <2>1. meta' = meta
    BY <1>3, StepFlushed DEF At
  <2>2. up # "init" /\ \A n \in AllNumbers : n # 0
    <3>1. up # "init"
      BY <1>3 DEF Live, Context, NumbersInv, PhaseInv, ZeroInode
    <3>2. \A n \in AllNumbers : 1 <= n
      BY <1>3 DEF Context, NumbersInv, LiveInv
    <3> QED
      BY <3>1, <3>2
  <2>3. CASE k \in Links
    <3>1. Link(k).inode # 0
      BY <2>2, <2>3, LinkNumbers
    <3> QED
      BY <1>1, <1>3, <2>1, <2>3, <3>1, PutOwn
  <2>4. CASE k \notin Links
    <3>1. At(t, "link") /\ f.slot # 0
      BY <1>1, <1>3, <2>4, StepLinks
    <3>2. k = <<f.blk, f.slot>>
      BY <1>1, <1>3, <2>4, <3>1, StepLinks DEF Grows
    <3> QED
      BY <1>1, <1>3, <2>1, <2>2, <3>1, <3>2, NewOwn
  <2> QED
    BY <2>3, <2>4
<1>4. CASE AllNumbers' = {}
  BY <1>4, NoNumbersNoLinks
<1>5. CASE /\ Exact /\ LiveAt(pc[t], f, meta, superblock, AllNumbers) /\ Live
           /\ ~At(t, "dir_put") /\ ~At(t, "link")
  <2>1. UNCHANGED store /\ mapping'.unsaved \subseteq uns
    BY <1>1, <1>5, StepRemote
  <2> QED
    BY <1>2, <2>1
<1> QED
  BY <1>2, <1>3, <1>4, <1>5, StepKinds

\* The end of a process takes the blocks away that no directory has.
LEMMA DownOwn ==
  ASSUME OwnInv, NEW file \in {meta.view, meta.disk}, Down(Opened(file)), mapping'.unsaved = {},
         DOMAIN store \ mapping.unsaved \subseteq DOMAIN store', DOMAIN store' \subseteq DOMAIN store,
         \A b \in DOMAIN store' : store'[b] = store[b]
  PROVE  OwnInv'
<1> SUFFICES ASSUME faults' = 0, NEW k \in Links'
             PROVE  Own(meta'.view, store', {}, k) /\ Own(meta'.disk, store', {}, k)
  BY DEF OwnInv
<1>1. faults = 0 /\ meta'.view = file /\ meta'.disk = file
  BY DEF Down, Opened
<1>2. k \in Links /\ store'[k[1]][k[2]] = Link(k)
  BY FewerLinks
<1>3. Own(file, store, mapping.unsaved, k)
  BY <1>1, <1>2 DEF OwnInv
<1> DEFINE i == InodeIn(file, store[k[1]][k[2]].inode)
           b == i.i_block
<1>4. i.i_mode = "dir" => /\ b \in DOMAIN store /\ b \notin mapping.unsaved
                          /\ InodeIn(file, store[b][2].inode).i_block = k[1]
  BY <1>3 DEF Own
<1>5. i.i_mode = "dir" => b \in DOMAIN store' /\ store'[b] = store[b]
  BY <1>4
<1>6. store'[k[1]][k[2]].inode = store[k[1]][k[2]].inode
  BY <1>2 DEF Link
<1>7. Own(file, store', {}, k)
  BY <1>3, <1>4, <1>5, <1>6, OwnKept
<1> QED
  BY <1>1, <1>7

LEMMA GoneDirs ==
  ASSUME DirsInv, NEW file \in {meta.view, meta.disk}, Down(Opened(file)), mapping'.unsaved = {},
         ~mapping'.open,
         DOMAIN store \ mapping.unsaved \subseteq DOMAIN store', DOMAIN store' \subseteq DOMAIN store,
         \A b \in DOMAIN store' : store'[b] = store[b]
  PROVE  DirsInv'
<1>1. OwnInv'
  BY DownOwn DEF DirsInv
<1>2. ~Exact' /\ ~Frozen'
  BY DEF Down, Exact, Live, Frozen
<1> QED
  BY <1>1, <1>2 DEF DirsInv, MakingInv, LoadedInv

LEMMA DieDirs ==
  ASSUME DirsInv, Die
  PROVE  DirsInv'
<1>1. /\ Down(Opened(meta.disk)) /\ mapping'.unsaved = {} /\ ~mapping'.open
      /\ DOMAIN store' = DOMAIN store \ mapping.unsaved
      /\ \A b \in DOMAIN store' : store'[b] = store[b]
  BY DEF Die, Dropped
<1> QED
  BY <1>1, GoneDirs

LEMMA StopDirs ==
  ASSUME DirsInv, Unmount \/ Crash
  PROVE  DirsInv'
<1>1. CASE Die
  BY <1>1, DieDirs
<1>2. CASE Down(Closed(meta)) /\ mapping' = [open |-> FALSE, unsaved |-> {}] /\ UNCHANGED store
  <2>1. mapping'.unsaved = {} /\ ~mapping'.open /\ Down(Opened(meta.view))
    BY <1>2 DEF Closed
  <2> QED
    BY <1>2, <2>1, GoneDirs
<1> QED
  BY <1>1, <1>2 DEF Unmount, Crash

(***************************************************************************)
(* From the number to the entry                                            *)
(***************************************************************************)
\* What holds of the thread before a step of the process that formatted.
MayMake(t) ==
    LET f == frame[t]
        no == f.node.i_inode_no
        S == superblock
    IN  /\ MakingAt(pc[t], f, S, store, mapping.unsaved, meta)
        /\ EntriesAt(pc[t], f, S, store, block)
        /\ Agree(ZeroInode, meta.view) /\ Agree(root, meta.view)
        /\ S.s_free_inode \in Nat /\ S.s_free_inode >= 1
        /\ superblock'.s_free_inode = S.s_free_inode + IF At(t, "bump_inode") THEN 1 ELSE 0
        /\ ~Creating(pc[t], f) => root.i_inode_no < S.s_free_inode
        /\ Creating(pc[t], f) => root.i_inode_no < no /\ no >= 1
        /\ Numbered(pc[t], f) => no = S.s_free_inode
        /\ Creating(pc[t], f) /\ ~Numbered(pc[t], f) => no < S.s_free_inode

LEMMA BeforeMaking ==
  ASSUME Context, BlocksInv, MakingInv, NEW t \in Thread, Step(t), ~Die, Exact'
  PROVE  MayMake(t)
<1> DEFINE f == frame[t]
           l == pc[t]
           no == f.node.i_inode_no
           S == superblock
<1>1. /\ Exact /\ S.s_log_block_size # 0
      /\ \/ up = "init" /\ InitAt(l, f, meta, S)
         \/ up = "mounted" /\ Live /\ LiveAt(l, f, meta, S, AllNumbers)
  BY ExactBefore
<1>2. /\ MakingAt(l, f, S, store, mapping.unsaved, meta)
      /\ EntriesAt(l, f, S, store, block)
      /\ Agree(ZeroInode, meta.view) /\ Agree(root, meta.view) /\ root.i_inode_no <= 1
  BY <1>1 DEF MakingInv, BlocksInv
<1>3. S.s_free_inode \in Nat /\ no \in Nat /\ root.i_inode_no \in Nat
  BY ThreadFrame DEF Context, TypeOK, Super, Frame, Inode
<1>4. S'.s_free_inode = IF l = "bump_inode" THEN f.n ELSE S.s_free_inode
  <2>1. StepSuper(t) /\ S \in Super
    BY StepGlobals DEF Context, TypeOK
  <2> QED
    BY <2>1 DEF StepSuper, Super, At
<1>5. l = "bump_inode" => Numbered(l, f)
  BY DEF Numbered
<1>6. CASE up = "init" /\ InitAt(l, f, meta, S)
  <2>1. root.i_inode_no = 0
    BY <1>6 DEF Context, NumbersInv, PhaseInv, ZeroInode
  <2>2. /\ no = 1 /\ Creating(l, f) /\ S.s_free_inode = IF Numbered(l, f) THEN 1 ELSE 2
        /\ l = "bump_inode" => f.n = 2
    BY <1>6 DEF InitAt
  <2> HIDE DEF f, l, no
  <2> QED
    BY <1>2, <1>3, <1>4, <1>5, <2>1, <2>2 DEF MayMake, At, f, l, no
<1>7. CASE up = "mounted" /\ Live /\ LiveAt(l, f, meta, S, AllNumbers)
  <2>1. S.s_free_inode >= 2
    BY <1>7 DEF Context, NumbersInv, LiveInv
  <2>2. /\ Creating(l, f) => no >= 2
        /\ Numbered(l, f) => no = S.s_free_inode
        /\ l = "bump_inode" => f.n = no + 1
        /\ Advanced(l, f) => S.s_free_inode = no + 1
        /\ Saved(l, f) => no < S.s_free_inode
    BY <1>7 DEF LiveAt
  <2>3. Creating(l, f) <=> Numbered(l, f) \/ Advanced(l, f) \/ Saved(l, f)
    BY DEF Creating
  <2> HIDE DEF f, l, no
  <2> QED
    BY <1>2, <1>3, <1>4, <1>5, <2>1, <2>2, <2>3 DEF MayMake, At, f, l, no
<1> QED
  BY <1>1, <1>6, <1>7

\* The inodes that are known stay so: a call that makes none writes one it has
\* found, with a new time, and what it makes has a number above theirs.
LEMMA KnownKept ==
  ASSUME Context, NEW t \in Thread, Step(t), ~Die, MayMake(t), NEW i, i.i_inode_no \in Nat,
         Agree(i, meta.view),
         Creating(pc[t], frame[t]) => i.i_inode_no < frame[t].node.i_inode_no
  PROVE  Agree(i, meta'.view)
<1>1. frame[t].node.i_inode_no \in Nat
  BY ThreadFrame DEF Context, Frame, Inode
<1>2. CASE Creating(pc[t], frame[t])
  <2>1. i.i_inode_no # frame[t].node.i_inode_no
    BY <1>1, <1>2
  <2> QED
    BY <2>1, AgreeKept
<1>3. CASE ~Creating(pc[t], frame[t])
  <2>1. Agree(frame[t].node, meta.view)
    BY <1>3 DEF MayMake, MakingAt, KnownAt, Known
  <2> QED
    BY <2>1, AgreeKept
<1> QED
  BY <1>2, <1>3

LEMMA InodesAgree ==
  ASSUME NEW file, InPlace(file), DOMAIN file \subseteq Nat, NEW i \in Inodes(file)
  PROVE  /\ i \in Inode /\ InodeIn(file, i.i_inode_no) = i
         /\ Agree(i, file) /\ InodePos(i.i_inode_no) \in DOMAIN file
<1>1. PICK p \in DOMAIN file \ {SuperPos} : i = file[p]
  BY DEF Inodes
<1>2. i \in Inode /\ InodePos(i.i_inode_no) = p
  BY <1>1 DEF InPlace
<1>3. InodeIn(file, i.i_inode_no) = i
  BY <1>1, <1>2 DEF InodeIn
<1> QED
  BY <1>1, <1>2, <1>3 DEF Agree

\* The highest record of the file, after a step to k.
LEMMA CountedKept ==
  ASSUME Context, NEW t \in Thread, Step(t), ~Die, MayMake(t), NEW k,
         ~Creating(pc[t], frame[t]) => ~At(t, "inode_written") /\ ~At(t, "bump_inode"),
         At(t, "inode_written") => k = "bump_inode",
         At(t, "write_inode") /\ Numbered(pc[t], frame[t]) => k = "inode_written"
  PROVE  CountedAt(k, superblock', meta'.view)
<1> DEFINE f == frame[t]
           no == f.node.i_inode_no
           c == superblock.s_free_inode
<1> SUFFICES ASSUME NEW p \in DOMAIN meta'.view
             PROVE  p <= superblock'.s_free_inode
                           + IF k \in {"inode_written", "bump_inode"} THEN 1 ELSE 0
  BY DEF CountedAt
<1>1. /\ c \in Nat /\ c >= 1 /\ no \in Nat
      /\ superblock'.s_free_inode = c + IF At(t, "bump_inode") THEN 1 ELSE 0
      /\ \A q \in DOMAIN meta.view :
           q <= c + IF pc[t] \in {"inode_written", "bump_inode"} THEN 1 ELSE 0
      /\ no < c \/ (Numbered(pc[t], f) /\ no = c)
  <2>1. no \in Nat
    BY ThreadFrame DEF Context, Frame, Inode
  <2>2. no < c \/ (Numbered(pc[t], f) /\ no = c)
    BY DEF MayMake, MakingAt, KnownAt, Known, Creating
  <2> QED
    BY <2>1, <2>2 DEF MayMake, MakingAt, CountedAt
<1>2. DOMAIN meta.view \subseteq Nat
  BY DEF Context, TypeOK, IsStream, IsFile
<1>3. p \in DOMAIN meta.view \/ p = SuperPos \/ (At(t, "write_inode") /\ p = InodePos(no))
  BY StepInodes
<1>4. CASE At(t, "write_inode") /\ p = InodePos(no)
  <2>1. p = no + 1 /\ ~At(t, "bump_inode")
    BY <1>4 DEF InodePos, At
  <2>2. CASE Numbered(pc[t], f)
    <3>1. k = "inode_written"
      BY <1>4, <2>2
    <3> QED
      BY <1>1, <2>1, <3>1
  <2>3. CASE no < c
    BY <1>1, <2>1, <2>3
  <2> QED
    BY <1>1, <2>2, <2>3
<1>5. CASE p = SuperPos
  BY <1>1, <1>5 DEF SuperPos
<1>6. CASE p \in DOMAIN meta.view
  <2>1. p \in Nat
    BY <1>2, <1>6
  <2>2. CASE At(t, "inode_written")
    <3>1. k = "bump_inode" /\ ~At(t, "bump_inode")
      BY <2>2 DEF At
    <3> QED
      BY <1>1, <1>6, <2>1, <2>2, <3>1 DEF At
  <2>3. CASE At(t, "bump_inode")
    BY <1>1, <1>6, <2>1, <2>3 DEF At
  <2>4. CASE ~At(t, "inode_written") /\ ~At(t, "bump_inode")
    BY <1>1, <1>6, <2>1, <2>4 DEF At
  <2> QED
    BY <2>2, <2>3, <2>4
<1> QED
  BY <1>3, <1>4, <1>5, <1>6

LEMMA LooksMaking ==
  ASSUME Context, NEW t \in Thread, Step(t), ~Die, MayMake(t), NEW k, NEW g,
         Looks(pc[t], frame[t], k, g), Calm(pc[t], frame[t]), ~Creating(pc[t], frame[t])
  PROVE  MakingAt(k, g, superblock', store', mapping'.unsaved, meta')
<1> DEFINE f == frame[t]
           l == pc[t]
           S == superblock
<1>1. ~Creating(k, g) /\ k \notin {"dir_iblock", "write_superblock", "dir_free", "slot", "link"}
  BY DEF Looks, Calm, Creating, Numbered, Advanced, Saved, WritesInode, WritesSuper
<1>2. l \notin {"inode_written", "bump_inode"} /\ ~Numbered(l, f)
  BY DEF Calm, WritesInode, Creating
<1>3. /\ S'.s_free_inode = S.s_free_inode /\ S.s_free_inode \in Nat /\ S.s_free_inode >= 1
      /\ root.i_inode_no < S.s_free_inode /\ Agree(root, meta.view) /\ Agree(ZeroInode, meta.view)
      /\ Known(f.base, S, meta.view) /\ Known(f.node, S, meta.view)
      /\ CountedAt(l, S, meta.view)
  BY <1>2 DEF MayMake, MakingAt, KnownAt, At
<1>4. f.node \in Inode /\ f.base \in Inode /\ root \in Inode /\ ZeroInode \in Inode
  BY ThreadFrame DEF Context, TypeOK, Frame, ZeroInode, Inode, Mode, Stamp
<1>5. ASSUME NEW i \in Inode, Known(i, S, meta.view)
      PROVE  Known(i, S', meta'.view)
  <2>1. i.i_inode_no \in Nat /\ Agree(i, meta.view)
    BY <1>5 DEF Inode, Known
  <2>2. Agree(i, meta'.view)
    BY <2>1, KnownKept
  <2> QED
    BY <1>3, <1>5, <2>2 DEF Known
<1>6. Known(ZeroInode, S, meta.view) /\ Known(root, S, meta.view)
  BY <1>3 DEF Known, ZeroInode
<1>7. ASSUME NEW i \in Inode, Known(i, S, meta.view), Alike(g.node, i)
      PROVE  Known(g.node, S', meta'.view)
  <2>1. Known(i, S', meta'.view)
    BY <1>5, <1>7
  <2> QED
    BY <1>7, <2>1 DEF Alike, Known, Agree
<1>8. Known(g.node, S', meta'.view)
  <2>1. CASE \E i \in {f.node, root, ZeroInode} : Alike(g.node, i)
    BY <1>3, <1>4, <1>6, <1>7, <2>1
  <2>2. CASE l = "read_inode" /\ \E i \in Inodes(meta.view) : Alike(g.node, i)
    <3>1. PICK i \in Inodes(meta.view) : Alike(g.node, i)
      BY <2>2
    <3>2. /\ i \in Inode /\ Agree(i, meta.view) /\ InodePos(i.i_inode_no) \in DOMAIN meta.view
      BY InodesAgree DEF Context, PlacedInv, TypeOK, IsStream, IsFile
    <3>3. i.i_inode_no < S.s_free_inode
      <4>1. InodePos(i.i_inode_no) <= S.s_free_inode + 0
        BY <1>2, <1>3, <3>2 DEF CountedAt
      <4>2. i.i_inode_no \in Nat
        BY <3>2 DEF Inode
      <4> QED
        BY <1>3, <4>1, <4>2 DEF InodePos
    <3> QED
      BY <1>7, <3>1, <3>2, <3>3 DEF Known
  <2> QED
    BY <2>1, <2>2 DEF Looks
<1>9. Known(g.base, S', meta'.view)
  <2>1. g.base \in {f.base, ZeroInode, f.node}
    BY DEF Looks
  <2> QED
    BY <1>3, <1>4, <1>5, <1>6, <2>1
<1>10. CountedAt(k, S', meta'.view)
  BY <1>2, CountedKept DEF At
<1> QED
  BY <1>1, <1>8, <1>9, <1>10 DEF MakingAt, KnownAt, MadeAt, BlockAt, FlushedAt

LEMMA StartsMaking ==
  ASSUME Context, NEW t \in Thread, Step(t), ~Die, MayMake(t), NEW k, NEW g,
         Starts(pc[t], frame[t], k, g), Calm(pc[t], frame[t]), ~Creating(pc[t], frame[t])
  PROVE  MakingAt(k, g, superblock', store', mapping'.unsaved, meta')
<1> DEFINE f == frame[t]
           l == pc[t]
           S == superblock
           no == S.s_free_inode
<1>1. /\ l = "named" /\ k = "update_inode" /\ g.ra = "inode_written"
      /\ g.node = NewInode(no, f.op) /\ g.base = f.base /\ g.op = f.op
  BY DEF Starts, Carries
<1>2. /\ S'.s_free_inode = no /\ no \in Nat
      /\ Known(f.base, S, meta.view) /\ CountedAt(l, S, meta.view)
  BY <1>1 DEF MayMake, MakingAt, KnownAt, At
<1>3. /\ Creating(k, g) /\ Blockless(k, g) /\ ~Advanced(k, g) /\ WritesInode(k)
  BY <1>1 DEF Creating, Blockless, Numbered, Advanced, WritesInode, WritesSuper
<1>4. /\ g.node.i_inode_no = no /\ g.node.i_block = 0
      /\ g.node.i_mode = IF g.op = "create" THEN "file" ELSE "dir"
  BY <1>1 DEF NewInode
<1>5. f.base \in Inode
  BY ThreadFrame DEF Context, Frame
<1>6. Known(g.base, S', meta'.view)
  <2>1. f.base.i_inode_no \in Nat /\ Agree(f.base, meta.view)
    BY <1>2, <1>5 DEF Inode, Known
  <2>2. Agree(f.base, meta'.view)
    BY <2>1, KnownKept
  <2> QED
    BY <1>1, <1>2, <2>2 DEF Known
<1>7. InodeIn(meta'.view, no).i_block = 0
  <2>1. InodePos(no) \notin DOMAIN meta.view
    <3>1. \A p \in DOMAIN meta.view : p <= no + 0
      BY <1>1, <1>2 DEF CountedAt
    <3> QED
      BY <1>2, <3>1 DEF InodePos
  <2>2. InodeIn(meta'.view, no) = InodeIn(meta.view, no)
    BY <1>1, <1>2, StepInodes DEF At
  <2> QED
    BY <2>1, <2>2 DEF InodeIn, ZeroInode
<1>8. CountedAt(k, S', meta'.view)
  BY <1>1, CountedKept DEF At
<1>9. MadeAt(k, g, meta'.view)
  BY <1>1, <1>2, <1>3, <1>4, <1>7 DEF MadeAt, Known
<1> QED
  BY <1>1, <1>3, <1>6, <1>8, <1>9 DEF MakingAt, KnownAt, BlockAt, FlushedAt

\* The order of the steps that make an inode.
LEMMA MakesShape ==
  ASSUME NEW l \in Labels, NEW f, RouteAt(l, f), Creating(l, f), NEW k, NEW g, Makes(l, f, k, g)
  PROVE  /\ l = "link" <=> ~Creating(k, g)
         /\ Advanced(k, g) => l = "bump_inode" \/ (Advanced(l, f) /\ g.ra = f.ra)
         /\ l = "bump_inode" => g.ra = IF f.op = "create" THEN "slot" ELSE "dir_block"
         /\ Blockless(k, g) => Blockless(l, f) /\ l # "dir_iblock"
         /\ Creating(k, g) /\ ~Blockless(k, g) =>
              ~Blockless(l, f) \/ l = "dir_iblock" \/ (Advanced(l, f) /\ f.ra = "slot")
         /\ l = "update_inode" => WritesInode(k)
         /\ WritesInode(k) => l \in {"update_inode", "dir_iblock"}
         /\ l = "dir_iblock" => WritesInode(k) /\ Blockless(l, f)
         /\ k = "dir_iblock" => l = "dir_put"
         /\ k = "write_superblock" => l = "update_superblock"
         /\ k \in {"dir_free", "slot"} => l \in {"write_superblock", "dir_free"}
         /\ k = "link" => l = "slot"
         /\ l = "write_inode" /\ Numbered(l, f) => k = "inode_written"
         /\ l = "inode_written" => k = "bump_inode"
<1>1. CASE l \in {"update_inode", "write_inode"}
  BY <1>1 DEF Makes, RouteAt, Creating, Numbered, Advanced, Saved, Blockless, WritesInode,
     WritesSuper
<1>2. CASE l \in {"update_superblock", "write_superblock"}
  BY <1>2 DEF Makes, RouteAt, Creating, Numbered, Advanced, Saved, Blockless, WritesInode,
     WritesSuper
<1>3. CASE l \in {"inode_written", "bump_inode"}
  BY <1>3 DEF Makes, RouteAt, Creating, Numbered, Advanced, Saved, Blockless, WritesInode,
     WritesSuper
<1>4. CASE l \in {"dir_block", "dir_put", "dir_iblock", "dir_written", "bump_block"}
  BY <1>4 DEF Makes, RouteAt, Creating, Numbered, Advanced, Saved, Blockless, WritesInode,
     WritesSuper
<1>5. CASE l \in {"dir_free", "slot", "link"}
  BY <1>5 DEF Makes, RouteAt, Creating, Numbered, Advanced, Saved, Blockless, WritesInode,
     WritesSuper
<1> QED
  BY <1>1, <1>2, <1>3, <1>4, <1>5 DEF Creating, Numbered, Advanced, Saved, WritesInode, WritesSuper

LEMMA MakesKnown ==
  ASSUME Context, NEW t \in Thread, Step(t), ~Die, MayMake(t), Creating(pc[t], frame[t]),
         NEW k, NEW g, Makes(pc[t], frame[t], k, g)
  PROVE  KnownAt(k, g, superblock', meta'.view) /\ MadeAt(k, g, meta'.view)
<1> DEFINE f == frame[t]
           l == pc[t]
           S == superblock
           no == f.node.i_inode_no
<1>0. /\ f.node \in Inode /\ f.base \in Inode /\ no \in Nat /\ f.base.i_inode_no \in Nat
      /\ l \in Labels /\ RouteAt(l, f)
  BY ThreadFrame DEF Context, PlacedInv, Frame, Inode
<1>1. /\ S'.s_free_inode >= S.s_free_inode /\ S.s_free_inode \in Nat /\ S'.s_free_inode \in Nat
      /\ Known(f.base, S, meta.view) /\ MadeAt(l, f, meta.view)
      /\ ~Numbered(l, f) => no < S.s_free_inode
  BY DEF MayMake, MakingAt, KnownAt
<1>2. /\ g.op = f.op /\ g.base = f.base
      /\ g.node = IF l = "dir_iblock" THEN [f.node EXCEPT !.i_block = S.s_free_block] ELSE f.node
      /\ g.node.i_inode_no = no /\ g.node.i_mode = f.node.i_mode
      /\ l # "dir_iblock" => g.node = f.node
  BY <1>0 DEF Makes, Inode
<1>3. /\ f.base.i_inode_no < no /\ f.node.i_mode = IF f.op = "create" THEN "file" ELSE "dir"
      /\ Advanced(l, f) => f.ra = IF f.op = "create" THEN "slot" ELSE "dir_block"
      /\ Blockless(l, f) => f.node.i_block = 0
      /\ WritesInode(l) => InodeIn(meta.view, no).i_block = 0
      /\ ~WritesInode(l) => InodeIn(meta.view, no) = f.node
  BY <1>1 DEF MadeAt
<1>4. /\ At(t, "write_inode") => InodeIn(meta'.view, no) = f.node
      /\ ~At(t, "write_inode") => InodeIn(meta'.view, no) = InodeIn(meta.view, no)
  BY StepInodes
<1>5. Known(g.base, S', meta'.view)
  <2>1. Agree(f.base, meta'.view)
    BY <1>0, <1>1, <1>3, KnownKept DEF Known
  <2> QED
    BY <1>0, <1>1, <1>2, <2>1 DEF Known
<1>6. ~Creating(k, g) => Known(g.node, S', meta'.view)
  <2> SUFFICES ASSUME ~Creating(k, g) PROVE Known(g.node, S', meta'.view)
    OBVIOUS
  <2>1. l = "link"
    BY <1>0, MakesShape
  <2>2. ~WritesInode(l) /\ ~Numbered(l, f) /\ ~At(t, "write_inode")
    BY <2>1 DEF WritesInode, Numbered, At
  <2>3. InodeIn(meta'.view, no) = f.node /\ g.node = f.node /\ no < S.s_free_inode
    BY <1>1, <1>2, <1>3, <1>4, <2>1, <2>2
  <2> QED
    BY <1>0, <1>1, <2>3 DEF Known, Agree
<1>7. MadeAt(k, g, meta'.view)
  <2> SUFFICES ASSUME Creating(k, g) PROVE MadeAt(k, g, meta'.view)
    BY DEF MadeAt
  <2>1. Advanced(k, g) => g.ra = IF g.op = "create" THEN "slot" ELSE "dir_block"
    BY <1>0, <1>2, <1>3, MakesShape
  <2>2. Blockless(k, g) => g.node.i_block = 0
    BY <1>0, <1>2, <1>3, MakesShape
  <2>3. IF WritesInode(k) THEN InodeIn(meta'.view, no).i_block = 0
        ELSE InodeIn(meta'.view, no) = g.node
    <3>1. CASE l = "update_inode"
      <4>1. WritesInode(k) /\ WritesInode(l) /\ ~At(t, "write_inode")
        BY <1>0, <3>1, MakesShape DEF WritesInode, At
      <4> QED
        BY <1>3, <1>4, <4>1
    <3>2. CASE l = "dir_iblock"
      <4>1. WritesInode(k) /\ ~WritesInode(l) /\ ~At(t, "write_inode") /\ f.node.i_block = 0
        BY <1>0, <1>3, <3>2, MakesShape DEF WritesInode, At
      <4> QED
        BY <1>3, <1>4, <4>1
    <3>3. CASE l = "write_inode"
      <4>1. ~WritesInode(k) /\ At(t, "write_inode") /\ g.node = f.node
        BY <1>0, <1>2, <3>3, MakesShape DEF At
      <4> QED
        BY <1>4, <4>1
    <3>4. CASE l \notin {"update_inode", "write_inode", "dir_iblock"}
      <4>1. /\ ~WritesInode(k) /\ ~WritesInode(l) /\ ~At(t, "write_inode") /\ g.node = f.node
        BY <1>0, <1>2, <3>4, MakesShape DEF WritesInode, At
      <4> QED
        BY <1>3, <1>4, <4>1
    <3> QED
      BY <3>1, <3>2, <3>3, <3>4
  <2> QED
    BY <1>2, <1>3, <2>1, <2>2, <2>3 DEF MadeAt
<1> QED
  BY <1>5, <1>6, <1>7 DEF KnownAt

LEMMA MakesBlock ==
  ASSUME Context, faults' = 0, superblock.s_free_block >= 1,
         NEW t \in Thread, Step(t), ~Die, MayMake(t), Creating(pc[t], frame[t]),
         NEW k, NEW g, Makes(pc[t], frame[t], k, g)
  PROVE  BlockAt(k, g, superblock', store')
<1> DEFINE f == frame[t]
           l == pc[t]
           S == superblock
<1>0. /\ f.node \in Inode /\ f.base \in Inode /\ l \in Labels /\ RouteAt(l, f)
      /\ S \in Super /\ S.s_free_block \in Nat
  BY ThreadFrame DEF Context, TypeOK, PlacedInv, Frame, Super
<1>1. EntriesAt(l, f, S, store, block) /\ MadeAt(l, f, meta.view) /\ BlockAt(l, f, S, store)
  BY DEF MayMake, MakingAt
<1>2. /\ g.op = f.op /\ g.base = f.base
      /\ g.node = IF l = "dir_iblock" THEN [f.node EXCEPT !.i_block = S.s_free_block] ELSE f.node
      /\ g.node.i_inode_no = f.node.i_inode_no
      /\ l # "dir_iblock" => g.node = f.node
      /\ l = "dir_iblock" => g.node.i_block = S.s_free_block
  BY <1>0 DEF Makes, Inode
<1>3. Parent(g).i_inode_no = Parent(f).i_inode_no
  BY <1>2 DEF Parent
<1>4. \A b, st : IsDirOf(f, b, st) => IsDirOf(g, b, st)
  BY <1>2, <1>3 DEF IsDirOf
<1>5. l \notin {"bump_inode", "bump_block"} => S'.s_free_block = S.s_free_block
  <2>1. StepSuper(t)
    BY StepGlobals DEF Context
  <2> QED
    BY <2>1 DEF StepSuper, At
<1>6. ASSUME k = "dir_iblock"
      PROVE  IsDirOf(g, S'.s_free_block, store')
  <2>1. l = "dir_put"
    BY <1>0, <1>6, MakesShape
  <2>2. /\ f.blk = S.s_free_block
        /\ block.data = EmptyDir(f.node.i_inode_no, Parent(f).i_inode_no)
    BY <1>1, <2>1 DEF EntriesAt
  <2>3. store' = Stored(f.blk, block.data)
    BY <2>1, StepRemote DEF Context, At
  <2>4. store'[S.s_free_block] = EmptyDir(f.node.i_inode_no, Parent(f).i_inode_no)
    BY <2>2, <2>3 DEF Stored
  <2>5. IsDirOf(f, S.s_free_block, store')
    BY <2>4 DEF IsDirOf
  <2> QED
    BY <1>4, <1>5, <2>1, <2>5
<1>7. ASSUME Creating(k, g), ~Blockless(k, g), g.op # "create"
      PROVE  /\ g.node.i_block # 0 /\ g.node.i_block \in DOMAIN store'
             /\ g.node.i_block # g.base.i_block /\ IsDirOf(g, g.node.i_block, store')
  <2>1. ~Blockless(l, f) \/ l = "dir_iblock"
    BY <1>0, <1>1, <1>2, <1>7, MakesShape DEF MadeAt
  <2>2. l # "link"
    BY <1>0, <1>7, MakesShape
  <2>3. CASE l = "dir_iblock"
    <3>1. UNCHANGED store
      BY <2>3, StepRemote DEF Context, At
    <3>2. /\ IsDirOf(f, S.s_free_block, store) /\ S.s_free_block \in DOMAIN store
          /\ HasBlock(f.base, Top(l, f, S), store)
      BY <1>1, <2>3 DEF BlockAt, EntriesAt
    <3>3. f.base.i_block # S.s_free_block /\ S.s_free_block # 0
      <4>1. Top(l, f, S) = S.s_free_block
        BY <2>3 DEF Top, Raising, WritesInode
      <4>2. f.base.i_block \in Nat
        BY <1>0 DEF Inode
      <4> QED
        BY <1>0, <3>2, <4>1, <4>2 DEF HasBlock
    <3> QED
      BY <1>2, <1>4, <2>3, <3>1, <3>2, <3>3
  <2>4. CASE ~Blockless(l, f) /\ l # "dir_iblock"
    <3>1. l # "dir_put"
      BY <2>4 DEF Blockless
    <3>2. UNCHANGED store
      BY <2>2, <3>1, StepRemote DEF Context, At
    <3>3. /\ f.node.i_block # 0 /\ f.node.i_block \in DOMAIN store
          /\ f.node.i_block # f.base.i_block /\ IsDirOf(f, f.node.i_block, store)
      BY <1>1, <1>2, <1>7, <2>4 DEF BlockAt
    <3> QED
      BY <1>2, <1>4, <2>4, <3>2, <3>3
  <2> QED
    BY <2>1, <2>3, <2>4
<1> QED
  BY <1>6, <1>7 DEF BlockAt

LEMMA MakesMaking ==
  ASSUME Context, faults' = 0, superblock.s_free_block >= 1,
         NEW t \in Thread, Step(t), ~Die, MayMake(t), Creating(pc[t], frame[t]),
         NEW k, NEW g, Makes(pc[t], frame[t], k, g)
  PROVE  MakingAt(k, g, superblock', store', mapping'.unsaved, meta')
<1> DEFINE f == frame[t]
           l == pc[t]
<1>0. l \in Labels /\ RouteAt(l, f) /\ mapping \in [open : BOOLEAN, unsaved : SUBSET Nat]
  BY ThreadFrame DEF Context, TypeOK, PlacedInv
<1>1. EntriesAt(l, f, superblock, store, block) /\ FlushedAt(l, f, mapping.unsaved, meta)
  BY DEF MayMake, MakingAt
<1>2. ASSUME k \in {"write_superblock", "dir_free", "slot", "link"}
      PROVE  SameInodes(meta'.view, meta'.disk)
  <2>1. CASE k = "write_superblock"
    <3>1. l = "update_superblock"
      BY <1>0, <2>1, MakesShape
    <3> QED
      BY <3>1, StepFlushed DEF At
  <2>2. CASE k \in {"dir_free", "slot", "link"}
    <3>1. l \in {"write_superblock", "dir_free", "slot"}
      BY <1>0, <2>2, MakesShape
    <3> QED
      BY <1>1, <3>1, StepFlushed DEF FlushedAt
  <2> QED
    BY <1>2, <2>1, <2>2
<1>3. ASSUME k = "link", g.slot # 0
      PROVE  mapping'.unsaved = {}
  <2>1. l = "slot"
    BY <1>0, <1>3, MakesShape
  <2>2. f.slot = 0
    BY <1>1, <2>1 DEF EntriesAt
  <2>3. Downloaded(f.base.i_block, g.data)
    BY <1>3, <2>1, <2>2 DEF Makes
  <2> QED
    BY <1>0, <2>3 DEF Downloaded
<1>4. FlushedAt(k, g, mapping'.unsaved, meta')
  BY <1>2, <1>3 DEF FlushedAt
<1>5. CountedAt(k, superblock', meta'.view)
  BY <1>0, CountedKept, MakesShape DEF At
<1> QED
  BY <1>4, <1>5, MakesKnown, MakesBlock DEF MakingAt

LEMMA StepMaking ==
  ASSUME Serial, Context, BlocksInv, MakingInv, NEW t \in Thread, Step(t), ~Die
  PROVE  MakingInv'
<1> DEFINE f == frame[t]
           l == pc[t]
           no == f.node.i_inode_no
           There(k, g) == MakingAt(k, g, superblock', store', mapping'.unsaved, meta')
<1> SUFFICES ASSUME Exact' PROVE MakingInv'
  BY DEF MakingInv
<1>1. /\ MayMake(t) /\ Exact /\ faults' = 0 /\ superblock.s_free_block >= 1
      /\ root.i_inode_no <= 1
  BY BeforeMaking, ExactBefore DEF Exact, BlocksInv, MakingInv
<1>2. /\ Agree(root, meta.view) /\ Agree(ZeroInode, meta.view)
      /\ MadeAt(l, f, meta.view) /\ superblock.s_free_inode \in Nat
      /\ superblock'.s_free_inode \in Nat /\ superblock'.s_free_inode >= 1
      /\ Creating(l, f) => root.i_inode_no < no /\ no >= 1
  <2> HIDE DEF f, l, no
  <2>1. superblock.s_free_inode \in Nat /\ superblock.s_free_inode >= 1
    BY <1>1 DEF MayMake
  <2>2. superblock'.s_free_inode = superblock.s_free_inode + IF At(t, "bump_inode") THEN 1 ELSE 0
    BY <1>1 DEF MayMake
  <2>3. superblock'.s_free_inode \in Nat /\ superblock'.s_free_inode >= 1
    BY <2>1, <2>2
  <2> QED
    BY <1>1, <2>1, <2>3 DEF MayMake, MakingAt, f, l, no
<1>3. root.i_inode_no \in Nat /\ no \in Nat /\ ZeroInode.i_inode_no = 0
  BY ThreadFrame DEF Context, TypeOK, Frame, Inode, ZeroInode
<1>4. Agree(ZeroInode, meta'.view)
  BY <1>1, <1>2, <1>3, KnownKept
<1>5. Agree(root', meta'.view) /\ root'.i_inode_no <= 1
  <2>1. CASE UNCHANGED root
    <3>1. Agree(root, meta'.view)
      BY <1>1, <1>2, <1>3, KnownKept
    <3> QED
      BY <1>1, <2>1, <3>1
  <2>2. CASE At(t, "dir_free") /\ up = "init" /\ root' = f.node
    <3>1. InitAt(l, f, meta, superblock)
      BY <2>2 DEF Context, NumbersInv, InitInv
    <3>2. InodeIn(meta.view, no) = f.node
      BY <1>2, <2>2 DEF MadeAt, Creating, Saved, WritesInode, At
    <3>3. UNCHANGED meta
      BY <2>2, StepFlushed DEF At
    <3> QED
      BY <2>2, <3>1, <3>2, <3>3 DEF Agree, InitAt
  <2> QED
    BY <2>1, <2>2, SamePhase
<1>6. \E k, g : Goto(t, k, g) /\ There(k, g)
  <2>1. ASSUME Creating(l, f), At(t, "dir_free") PROVE There("idle", Idle)
    <3>1. /\ Idle.node = ZeroInode /\ Idle.base = ZeroInode
          /\ ~Creating("idle", Idle)
      BY DEF Idle, Creating, Numbered, Advanced, Saved, WritesInode, WritesSuper
    <3>2. Known(ZeroInode, superblock', meta'.view)
      BY <1>2, <1>3, <1>4 DEF Known
    <3>3. CountedAt("idle", superblock', meta'.view)
      BY <1>1, <2>1, CountedKept DEF At
    <3> QED
      BY <3>1, <3>2, <3>3 DEF MakingAt, KnownAt, MadeAt, BlockAt, FlushedAt
  <2> HIDE DEF There
  <2>2. \/ \E k, g : Goto(t, k, g) /\ Looks(l, f, k, g) /\ Calm(l, f) /\ ~Creating(l, f)
        \/ \E k, g : Goto(t, k, g) /\ Starts(l, f, k, g) /\ Calm(l, f) /\ ~Creating(l, f)
        \/ \E k, g : Goto(t, k, g) /\ Makes(l, f, k, g) /\ Creating(l, f)
        \/ Creating(l, f) /\ At(t, "dir_free") /\ Goto(t, "idle", Idle)
    BY StepMoves DEF Context
  <2>3. \A k, g : Looks(l, f, k, g) /\ Calm(l, f) /\ ~Creating(l, f) => There(k, g)
    BY <1>1, LooksMaking DEF There
  <2>4. \A k, g : Starts(l, f, k, g) /\ Calm(l, f) /\ ~Creating(l, f) => There(k, g)
    BY <1>1, StartsMaking DEF There
  <2>5. \A k, g : Makes(l, f, k, g) /\ Creating(l, f) => There(k, g)
    BY <1>1, MakesMaking DEF There
  <2> QED
    BY <2>1, <2>2, <2>3, <2>4, <2>5
<1>7. \A u \in Thread : There(pc'[u], frame'[u])
  BY <1>6, SerialThread DEF Context
<1> QED
  BY <1>4, <1>5, <1>7 DEF MakingInv

\* A process that loads its root finds it, or dies asking for its block.
LEMMA StepLoaded ==
  ASSUME Serial, Context, Context', MakingInv, LoadedInv, NEW t \in Thread, Step(t), ~Die
  PROVE  LoadedInv'
<1> DEFINE f == frame[t]
           l == pc[t]
           no == f.node.i_inode_no
<1> SUFFICES ASSUME faults' = 0, Frozen'
             PROVE  /\ Agree(root', meta'.view)
                    /\ \A u \in Thread : WritesInode(pc'[u]) => Agree(frame'[u].node, meta'.view)
  BY DEF LoadedInv
<1>0. /\ faults = 0 /\ f.node \in Inode /\ root \in Inode
      /\ root.i_inode_no \in Nat /\ no \in Nat
  BY StepFaults, ThreadFrame DEF Context, TypeOK, Frame, Inode
<1>1. CASE UNCHANGED <<up, root>>
  <2>1. Frozen /\ FrozenAt(l, f) /\ root.i_block # 0 /\ ~mapping.open
    BY <1>1, SamePhase DEF Frozen, Context, NumbersInv, FrozenInv
  <2>2. Agree(root, meta.view) /\ (WritesInode(l) => Agree(f.node, meta.view))
    BY <1>0, <2>1 DEF LoadedInv
  <2>3. ASSUME NEW i \in Inode, Agree(i, meta.view) PROVE Agree(i, meta'.view)
    <3>1. At(t, "write_inode") => Agree(f.node, meta.view)
      BY <2>2 DEF WritesInode, At
    <3>2. i.i_inode_no \in Nat
      BY DEF Inode
    <3> QED
      BY <2>3, <3>1, <3>2, AgreeKept
  <2>4. ~Creating(l, f) /\ l \notin {"get_inode", "read_inode", "walk", "named"}
    BY <2>1 DEF FrozenAt, Creating, Numbered, Advanced, Saved, WritesInode, WritesSuper
  <2>5. PICK k, g : Goto(t, k, g) /\ Looks(l, f, k, g)
    <3>1. \A k, g : ~Starts(l, f, k, g)
      BY <2>4 DEF Starts
    <3> QED
      BY <2>4, <3>1, StepMoves DEF Context
  <2>6. WritesInode(k) => Agree(g.node, meta.view)
    <3> SUFFICES ASSUME WritesInode(k) PROVE Agree(g.node, meta.view)
      OBVIOUS
    <3>1. g.node.i_block # 0
      <4>1. pc'[t] = k /\ frame'[t] = g
        BY <2>5, SerialThread DEF Context
      <4>2. \A u \in Thread : WritesInode(pc'[u]) => frame'[u].node.i_block # 0
        BY DEF Context, NumbersInv, FrozenInv, FrozenAt, WritesInode
      <4> QED
        BY <4>1, <4>2
    <3>2. PICK i \in {f.node, root} : Alike(g.node, i)
      <4>1. \E i \in {f.node, root, ZeroInode} : Alike(g.node, i)
        BY <2>4, <2>5 DEF Looks
      <4>2. ~Alike(g.node, ZeroInode)
        BY <3>1 DEF Alike, ZeroInode
      <4> QED
        BY <4>1, <4>2
    <3>3. l \notin {"idle", "done", "lookup"}
      <4>1. l # "idle"
        BY StepUp DEF Context
      <4>2. l # "done"
        BY <2>5 DEF Looks, WritesInode
      <4>3. l # "lookup"
        <5> SUFFICES ASSUME l = "lookup" PROVE FALSE
          OBVIOUS
        <5>1. lookup(t) /\ Base(f).i_block # 0 /\ ~mapping.open
          BY <2>1 DEF FrozenAt, WritesInode, Step, find_inode, get_inode, read_inode, walk,
             resolved, list, named, update_inode, write_inode, update_superblock,
             write_superblock, inode_written, bump_inode, dir_block, dir_put, dir_iblock,
             dir_written, bump_block, dir_free, slot, link, done, At
        <5> QED
          BY <5>1 DEF lookup, Downloaded
      <4> QED
        BY <4>1, <4>2, <4>3
    <3>4. Agree(i, meta.view) \/ g.node = root
      <4>1. CASE l = "find"
        BY <2>5, <4>1 DEF Looks
      <4>2. CASE l \in {"resolved", "list"} \/ WritesInode(l)
        BY <2>1, <2>2, <3>2, <4>2 DEF FrozenAt, WritesInode
      <4> QED
        BY <2>1, <3>3, <4>1, <4>2 DEF FrozenAt
    <3> QED
      BY <2>2, <3>2, <3>4 DEF Alike, Agree
  <2>7. g.node \in Inode
    <3>1. pc'[t] = k /\ frame'[t] = g
      BY <2>5, SerialThread DEF Context
    <3>2. frame'[t] \in Frame
      BY DEF Context, TypeOK
    <3> QED
      BY <3>1, <3>2 DEF Frame
  <2> QED
    BY <1>0, <1>1, <2>2, <2>3, <2>5, <2>6, <2>7, SerialThread DEF Context
<1>2. CASE At(t, "dir_free") /\ f.op = "init" /\ up = "init" /\ root' = f.node
  <2>1. /\ MadeAt(l, f, meta.view) /\ Creating(l, f) /\ ~WritesInode(l)
    BY <1>0, <1>2 DEF MakingInv, MakingAt, Exact, Creating, Saved, WritesInode, At
  <2>2. InodeIn(meta.view, no) = f.node /\ UNCHANGED meta
    BY <1>2, <2>1, StepFlushed DEF MadeAt, At
  <2>3. Agree(root', meta'.view)
    BY <1>2, <2>2 DEF Agree
  <2>4. Goto(t, "idle", Idle)
    <3>1. \A k, g : ~Makes(l, f, k, g)
      BY <1>2 DEF Makes, At
    <3> QED
      BY <2>1, <3>1, StepMoves DEF Context
  <2> QED
    BY <2>3, <2>4, SerialThread DEF Context, WritesInode
<1> QED
  BY <1>1, <1>2, SamePhase

(***************************************************************************)
(* The other steps                                                         *)
(***************************************************************************)
LEMMA SameOwn ==
  ASSUME OwnInv, UNCHANGED <<store, mapping, faults>>, meta'.view \in {meta.view, meta.disk},
         meta'.disk \in {meta.view, meta.disk}
  PROVE  OwnInv'
<1>1. Links' = Links
  BY SameLinks
<1> QED
  BY <1>1 DEF OwnInv

LEMMA CallDirs ==
  ASSUME Serial, Context, DirsInv, NEW t \in Thread, NEW c \in Calls, Call(t, c)
  PROVE  DirsInv'
<1>1. CASE Die
  BY <1>1, DieDirs
<1>2. CASE ~Die
  <2>1. /\ pc[t] = "idle"
        /\ UNCHANGED <<up, superblock, root, meta, block, store, mapping, faults>>
    BY <1>2, CallFrame
  <2>2. PICK k, h :
               /\ k \in {"find", "done"} /\ \A u \in Thread : pc'[u] = k /\ frame'[u] = h
               /\ h.node = ZeroInode /\ h.base = ZeroInode
    BY <1>2, CallFrame
  <2>3. OwnInv'
    BY <2>1, SameOwn DEF DirsInv
  <2>4. ~Creating(k, h) /\ ~WritesInode(k)
    BY <2>2 DEF Creating, Numbered, Advanced, Saved, WritesInode, WritesSuper
  <2>5. LoadedInv'
    <3>1. Frozen' <=> Frozen
      BY <2>1 DEF Frozen
    <3> QED
      BY <2>1, <2>2, <2>4, <3>1 DEF DirsInv, LoadedInv
  <2>6. ASSUME Exact
        PROVE  MakingAt(k, h, superblock, store, mapping.unsaved, meta)
    <3>1. /\ Known(frame[t].base, superblock, meta.view) /\ Agree(ZeroInode, meta.view)
          /\ CountedAt(pc[t], superblock, meta.view)
      BY <2>6 DEF DirsInv, MakingInv, MakingAt, KnownAt
    <3>2. 0 < superblock.s_free_inode
      <4>1. frame[t].base.i_inode_no \in Nat /\ superblock.s_free_inode \in Nat
        BY ThreadFrame DEF Context, TypeOK, Frame, Inode, Super
      <4> QED
        BY <3>1, <4>1 DEF Known
    <3>3. Known(ZeroInode, superblock, meta.view)
      BY <3>1, <3>2 DEF Known, ZeroInode
    <3>4. CountedAt(k, superblock, meta.view)
      BY <2>1, <2>2, <3>1 DEF CountedAt
    <3> QED
      BY <2>2, <2>4, <3>3, <3>4 DEF MakingAt, KnownAt, MadeAt, BlockAt, FlushedAt
  <2>7. MakingInv'
    <3>1. Exact' <=> Exact
      BY <2>1 DEF Exact, Live
    <3> QED
      BY <2>1, <2>2, <2>6, <3>1 DEF DirsInv, MakingInv
  <2> QED
    BY <2>3, <2>5, <2>7 DEF DirsInv
<1> QED
  BY <1>1, <1>2

LEMMA MountDirs ==
  ASSUME Serial, Context, DirsInv, NEW t \in Thread, Mount(t)
  PROVE  DirsInv'
<1>1. /\ UNCHANGED <<store, mapping, faults>> /\ ~mapping.open /\ root = ZeroInode
      /\ meta.view = meta.disk /\ \A u \in Thread : pc[u] = "idle"
  BY MountFrame
<1>2. OwnInv'
  <2>1. meta'.view = meta.view /\ meta'.disk = meta.view
    BY <1>1, MountFrame
  <2> QED
    BY <1>1, <2>1, SameOwn DEF DirsInv
<1>3. CASE meta.disk = Empty
  <2>1. PICK g : /\ \A u \in Thread : pc'[u] = "update_inode" /\ frame'[u] = g
                 /\ g.op = "init" /\ g.ra = "inode_written"
                 /\ g.node = NewInode(1, "init") /\ g.base = ZeroInode
    BY <1>3, MountFrame
  <2>2. /\ superblock' = Fresh /\ root' = ZeroInode /\ meta'.view = Empty /\ up' = "init"
    BY <1>1, <1>3, MountFrame
  <2>3. /\ ZeroInode.i_inode_no = 0 /\ g.node.i_inode_no = 1 /\ g.node.i_block = 0
        /\ g.node.i_mode = "dir" /\ Fresh.s_free_inode = 1
    BY <2>1 DEF ZeroInode, NewInode, Fresh
  <2>4. \A n : InodeIn(Empty, n) = ZeroInode
    BY DEF InodeIn, Empty
  <2>5. Agree(ZeroInode, Empty) /\ Known(ZeroInode, Fresh, Empty)
    BY <2>3, <2>4 DEF Agree, Known
  <2>6. /\ Creating("update_inode", g) /\ Blockless("update_inode", g)
        /\ ~Advanced("update_inode", g) /\ WritesInode("update_inode")
    BY <2>1 DEF Creating, Blockless, Numbered, Advanced, WritesInode, WritesSuper
  <2>7. ZeroInode.i_block = 0
    BY DEF ZeroInode
  <2>8. MadeAt("update_inode", g, Empty)
    BY <2>1, <2>3, <2>4, <2>6, <2>7 DEF MadeAt
  <2>9. CountedAt("update_inode", Fresh, Empty)
    BY DEF CountedAt, Empty
  <2>10. MakingAt("update_inode", g, Fresh, store', mapping'.unsaved, meta')
    BY <2>1, <2>2, <2>5, <2>6, <2>8, <2>9 DEF MakingAt, KnownAt, BlockAt, FlushedAt
  <2>11. MakingInv'
    BY <2>1, <2>2, <2>3, <2>5, <2>10 DEF MakingInv
  <2>12. LoadedInv'
    BY <2>2 DEF LoadedInv, Frozen
  <2> QED
    BY <1>2, <2>11, <2>12 DEF DirsInv
<1>4. CASE meta.disk # Empty
  <2>1. /\ up' = "mounted" /\ meta'.view = meta.view /\ UNCHANGED <<pc, frame>>
        /\ root' \in InodesRead(Seek(meta, InodePos(1)), ZeroInode)
    BY <1>4, MountFrame
  <2>2. MakingInv'
    BY <1>1, <2>1 DEF MakingInv, Exact, Live
  <2>3. root'.i_block # 0 => Agree(root', meta.view)
    <3>1. root' \in {ZeroInode} \cup Inodes(meta.view)
      BY <2>1, ReadFrom DEF Context, TypeOK, PlacedInv
    <3>2. ZeroInode.i_block = 0
      BY DEF ZeroInode
    <3>3. DOMAIN meta.view \subseteq Nat /\ InPlace(meta.view)
      BY DEF Context, PlacedInv, TypeOK, IsStream, IsFile
    <3> QED
      BY <3>1, <3>2, <3>3, InodesAgree
  <2>4. LoadedInv'
    BY <1>1, <2>1, <2>3 DEF LoadedInv, Frozen, WritesInode
  <2> QED
    BY <1>2, <2>2, <2>4 DEF DirsInv
<1> QED
  BY <1>3, <1>4

LEMMA SameDirs ==
  ASSUME DirsInv, UNCHANGED vars
  PROVE  DirsInv'
<1>1. OwnInv'
  BY SameOwn DEF vars, DirsInv
<1>2. (Exact' <=> Exact) /\ (Frozen' <=> Frozen)
  BY DEF vars, Exact, Live, Frozen
<1>3. MakingInv' /\ LoadedInv'
  BY <1>2 DEF vars, DirsInv, MakingInv, LoadedInv
<1> QED
  BY <1>1, <1>3 DEF DirsInv

LEMMA NextDirs ==
  ASSUME Serial, Context, EntriesInv, DirsInv, [Next]_vars
  PROVE  DirsInv'
<1>1. ASSUME NEW t \in Thread, Step(t)
      PROVE  DirsInv'
  <2>1. CASE Die
    BY <2>1, DieDirs
  <2>2. CASE ~Die
    <3>1. Context'
      BY NextContext
    <3>2. OwnInv' /\ MakingInv' /\ LoadedInv'
      BY <1>1, <2>2, <3>1, StepOwn, StepMaking, StepLoaded DEF EntriesInv, DirsInv
    <3> QED
      BY <3>2 DEF DirsInv
  <2> QED
    BY <2>1, <2>2
<1>2. CASE UNCHANGED vars
  BY <1>2, SameDirs
<1> QED
  BY <1>1, <1>2, CallDirs, MountDirs, StopDirs DEF Next

LEMMA InitDirs == Init => DirsInv
<1> SUFFICES ASSUME Init PROVE DirsInv
  OBVIOUS
<1>1. Links = {} /\ ~Exact /\ ~Frozen
  BY IsLink DEF Init, Exact, Live, Frozen
<1> QED
  BY <1>1 DEF DirsInv, OwnInv, MakingInv, LoadedInv

LEMMA OwnBlocks ==
  ASSUME Context, OwnInv
  PROVE  DirsOwnBlocks
<1>1. ASSUME NEW n \in Nat
      PROVE  InodeOf(n) = InodeIn(meta.view, n)
  <2>1. CASE InodePos(n) \in DOMAIN meta.view
    <3>1. InodePos(n) # SuperPos
      BY DEF InodePos, SuperPos
    <3>2. meta.view[InodePos(n)] \in Inode
      BY <2>1, <3>1 DEF Context, PlacedInv, InPlace
    <3>3. Torn \notin Inode
      <4>1. "torn" \in DOMAIN Torn
        BY DEF Torn
      <4>2. \A i \in Inode : "torn" \notin DOMAIN i
        BY DEF Inode
      <4> QED
        BY <4>1, <4>2
    <3> QED
      BY <2>1, <3>2, <3>3 DEF InodeOf, InodeIn
  <2>2. CASE InodePos(n) \notin DOMAIN meta.view
    BY <2>2 DEF InodeOf, InodeIn
  <2> QED
    BY <2>1, <2>2
<1> SUFFICES ASSUME faults = 0, NEW l \in Links, InodeOf(Link(l).inode).i_mode = "dir"
             PROVE  LET b == InodeOf(Link(l).inode).i_block
                    IN  /\ b \in DOMAIN store /\ b # l[1]
                        /\ store[b][1] = [inode |-> Link(l).inode, name |-> "."]
                        /\ store[b][2].name = ".."
                        /\ InodeOf(store[b][2].inode).i_block = l[1]
  BY DEF DirsOwnBlocks
<1> DEFINE n == store[l[1]][l[2]].inode
           b == InodeIn(meta.view, n).i_block
<1>2. Link(l).inode = n /\ n \in Nat
  BY LinkNumbers, NumbersNat DEF Context, Link
<1>3. InodeOf(n) = InodeIn(meta.view, n)
  BY <1>1, <1>2
<1>4. /\ b \in DOMAIN store /\ b # l[1] /\ store[b][1] = [inode |-> n, name |-> "."]
      /\ store[b][2].name = ".." /\ InodeIn(meta.view, store[b][2].inode).i_block = l[1]
  BY <1>2, <1>3 DEF OwnInv, Own
<1>5. store[b][2].inode \in Nat
  <2>1. 2 \in Slot
    BY BoundAssumption DEF Slot
  <2>2. store[b] \in [Slot -> Entry]
    BY <1>4 DEF Context, TypeOK, Block
  <2> QED
    BY <2>1, <2>2 DEF Entry
<1> HIDE DEF n, b
<1> QED
  BY <1>1, <1>2, <1>3, <1>4, <1>5 DEF b

\* new_empty_dir: with one thread, and as long as no transfer has failed, every
\* directory an entry names has a block of its own on the server, not the block
\* the entry is in, with a "." that names the directory and a ".." that names the
\* one the entry is in, over any crashes and restarts.
THEOREM SerialDirsOwn == Serial /\ Spec => []DirsOwnBlocks
<1> SUFFICES ASSUME Serial PROVE Spec => []DirsOwnBlocks
  OBVIOUS
<1> DEFINE Inv == Context /\ EntriesInv /\ DirsInv
<1>1. Init => Inv
  BY InitContext, InitEntries, InitDirs
<1>2. Inv /\ [Next]_vars => Inv'
  BY NextContext, NextEntries, NextDirs
<1>3. Inv => DirsOwnBlocks
  BY OwnBlocks DEF DirsInv
<1> HIDE DEF Inv
<1> QED
  BY <1>1, <1>2, <1>3, PTL DEF Spec

(***************************************************************************)
(* Paths: find_inode answers where the path leads.                         *)
(*                                                                         *)
(* The walk takes the path one name at a time, and the invariant says how  *)
(* far it has got: before the i-th name the node in hand is the one that   *)
(* the first i - 1 names lead to.  A path has any number of names, so what *)
(* Resolve computes is reached by induction.  The induction theorems of    *)
(* the library take an operator; the one here takes a set of numbers and   *)
(* follows from the least element of its complement.                       *)
(*                                                                         *)
(* The names walked so far lead nowhere else while the walk goes on: a     *)
(* single thread changes neither a block nor an inode between two steps of *)
(* its own lookup.                                                         *)
(***************************************************************************)

(***************************************************************************)
(* Induction over the natural numbers: a set of them has a least element   *)
(***************************************************************************)
LEMMA Least ==
  ASSUME NEW T, T \subseteq Nat, T # {}
  PROVE  \E x \in T : \A y \in T : x <= y
<1> DEFINE R == OpToRel(<, Nat)
<1>1. IsWellFoundedOn(R, Nat)
  BY NatLessThanWellFounded
<1>2. \A x, y \in Nat : x < y => <<x, y>> \in R
  BY DEF OpToRel
<1> HIDE DEF R
<1>3. PICK x \in T : \A y \in T : ~ (<<y, x>> \in R)
  BY <1>1, WFMin
<1>4. \A y \in T : ~(y < x)
  BY <1>2, <1>3
<1> QED
  BY <1>4

LEMMA Induction ==
  ASSUME NEW S, 0 \in S, \A n \in Nat : n \in S => n + 1 \in S
  PROVE  Nat \subseteq S
<1> SUFFICES ASSUME Nat \ S # {} PROVE FALSE
  OBVIOUS
<1>1. PICK x \in Nat \ S : \A y \in Nat \ S : x <= y
  BY Least
<1>2. x # 0 /\ x - 1 \in Nat
  BY <1>1
<1>3. x - 1 \in S
  BY <1>1, <1>2
<1> QED
  BY <1>1, <1>2, <1>3

(***************************************************************************)
(* Where a path leads, in this file and with these blocks                  *)
(***************************************************************************)
InodeAt(file, n) == IF InodePos(n) \in DOMAIN file /\ file[InodePos(n)] # Torn
                    THEN file[InodePos(n)] ELSE ZeroInode

ChildIn(file, st, n, name) ==
    {st[l[1]][l[2]].inode :
       l \in {k \in ({InodeAt(file, n).i_block} \cap (DOMAIN st \ {0})) \X Slot :
                First(Matches(st[k[1]], name), k[2])}}

\* The numbers that the first i names of a path lead to.
Reached(file, st, path) ==
    CHOOSE at : at = [i \in 0..Len(path) |->
                        IF i = 0 THEN {1} ELSE UNION {ChildIn(file, st, n, path[i]) : n \in at[i - 1]}]

LEMMA ResolveReached == \A path : Resolve(path) = Reached(meta.view, store, path)[Len(path)]
  BY DEF Resolve, Reached, Child, ChildIn, InodeOf, InodeAt, Link

Upto(file, st, path, m, at) ==
    at = [i \in 0..m |->
            IF i = 0 THEN {1} ELSE UNION {ChildIn(file, st, n, path[i]) : n \in at[i - 1]}]

LEMMA UptoExists ==
  ASSUME NEW file, NEW st, NEW path
  PROVE  \A m \in Nat : \E at : Upto(file, st, path, m, at)
<1> DEFINE S == {m \in Nat : \E at : Upto(file, st, path, m, at)}
<1>1. 0 \in S
  <2> DEFINE g == [i \in 0..0 |-> {1}]
  <2>1. Upto(file, st, path, 0, g)
    BY DEF Upto
  <2> QED
    BY <2>1
<1>2. ASSUME NEW m \in Nat, m \in S PROVE m + 1 \in S
  <2>1. PICK g : Upto(file, st, path, m, g)
    BY <1>2
  <2> DEFINE Onwards(i, prev) == UNION {ChildIn(file, st, n, path[i]) : n \in prev}
             h == [i \in 0..(m + 1) |-> IF i <= m THEN g[i] ELSE Onwards(m + 1, g[m])]
  <2>2. g = [i \in 0..m |-> IF i = 0 THEN {1} ELSE Onwards(i, g[i - 1])]
    BY <2>1 DEF Upto
  <2> HIDE DEF Onwards
  <2>3. ASSUME NEW i \in 0..(m + 1)
        PROVE  h[i] = IF i = 0 THEN {1} ELSE Onwards(i, h[i - 1])
    <3>1. CASE i = 0
      <4>1. h[0] = g[0] /\ g[0] = {1}
        BY <2>2
      <4> QED
        BY <3>1, <4>1
    <3>2. CASE i # 0 /\ i <= m
      <4>1. i - 1 \in 0..m /\ i - 1 \in 0..(m + 1) /\ i \in 0..m /\ i - 1 <= m
        BY <3>2
      <4>2. h[i] = g[i] /\ h[i - 1] = g[i - 1]
        BY <3>2, <4>1
      <4>3. g[i] = Onwards(i, g[i - 1])
        BY <2>2, <3>2, <4>1
      <4> QED
        BY <3>2, <4>2, <4>3
    <3>3. CASE i = m + 1
      <4>1. m \in 0..(m + 1) /\ i - 1 = m /\ ~(i <= m) /\ i # 0
        BY <3>3
      <4>2. h[m] = g[m] /\ h[i] = Onwards(m + 1, g[m])
        BY <4>1
      <4> QED
        BY <3>3, <4>1, <4>2
    <3> QED
      BY <3>1, <3>2, <3>3
  <2>5. h = [i \in 0..(m + 1) |-> h[i]]
    OBVIOUS
  <2> HIDE DEF h
  <2>6. h = [i \in 0..(m + 1) |-> IF i = 0 THEN {1} ELSE Onwards(i, h[i - 1])]
    BY <2>3, <2>5
  <2>4. Upto(file, st, path, m + 1, h)
    BY <2>6 DEF Upto, Onwards
  <2> QED
    BY <2>4
<1> HIDE DEF S
<1>3. Nat \subseteq S
  BY <1>1, <1>2, Induction
<1> QED
  BY <1>3 DEF S

LEMMA ReachedSteps ==
  ASSUME NEW file, NEW st, NEW path \in Seq(Name)
  PROVE  LET at == Reached(file, st, path)
         IN  /\ at[0] = {1}
             /\ \A i \in 1..Len(path) :
                  at[i] = UNION {ChildIn(file, st, n, path[i]) : n \in at[i - 1]}
<1> DEFINE at == Reached(file, st, path)
<1>1. Len(path) \in Nat
  OBVIOUS
<1>2. \E g : Upto(file, st, path, Len(path), g)
  BY <1>1, UptoExists
<1>3. Upto(file, st, path, Len(path), CHOOSE g : Upto(file, st, path, Len(path), g))
  BY <1>2
<1>4. at = CHOOSE g : Upto(file, st, path, Len(path), g)
  BY DEF Reached, Upto
<1>5. Upto(file, st, path, Len(path), at)
  BY <1>3, <1>4
<1> DEFINE Onwards(i, prev) == UNION {ChildIn(file, st, n, path[i]) : n \in prev}
<1>6. at = [i \in 0..Len(path) |-> IF i = 0 THEN {1} ELSE Onwards(i, at[i - 1])]
  BY <1>5 DEF Upto
<1> HIDE DEF Onwards, at
<1>7. ASSUME NEW N \in Nat, at = [i \in 0..N |-> IF i = 0 THEN {1} ELSE Onwards(i, at[i - 1])]
      PROVE  at[0] = {1} /\ \A i \in 1..N : at[i] = Onwards(i, at[i - 1])
  <2>1. 0 \in 0..N /\ \A i \in 1..N : i \in 0..N /\ i # 0
    OBVIOUS
  <2> QED
    BY <1>7, <2>1
<1>8. at[0] = {1} /\ \A i \in 1..Len(path) : at[i] = Onwards(i, at[i - 1])
  BY <1>1, <1>6, <1>7
<1> QED
  BY <1>8 DEF Onwards, at

LEMMA ReachedNothing ==
  ASSUME NEW file, NEW st, NEW path \in Seq(Name), NEW i \in 0..Len(path),
         Reached(file, st, path)[i] = {}
  PROVE  Reached(file, st, path)[Len(path)] = {}
<1> DEFINE at == Reached(file, st, path)
           N == Len(path)
           S == {k \in Nat : i + k <= N => at[i + k] = {}}
<1>1. N \in Nat /\ i \in Nat /\ i <= N
  OBVIOUS
<1>2. \A j \in 1..N : at[j] = UNION {ChildIn(file, st, n, path[j]) : n \in at[j - 1]}
  BY ReachedSteps
<1>3. at[i] = {}
  OBVIOUS
<1> HIDE DEF at, N
<1>4. 0 \in S
  BY <1>1, <1>3
<1>5. ASSUME NEW k \in Nat, k \in S PROVE k + 1 \in S
  <2> SUFFICES ASSUME i + (k + 1) <= N PROVE at[i + (k + 1)] = {}
    OBVIOUS
  <2>1. i + (k + 1) \in 1..N /\ (i + (k + 1)) - 1 = i + k /\ i + k <= N
    BY <1>1
  <2>2. at[i + k] = {}
    BY <1>5, <2>1
  <2> QED
    BY <1>2, <2>1, <2>2
<1> HIDE DEF S
<1>6. Nat \subseteq S
  BY <1>4, <1>5, Induction
<1>7. N - i \in Nat /\ i + (N - i) = N
  BY <1>1
<1>8. N - i \in S
  BY <1>6, <1>7
<1>9. at[N] = {}
  BY <1>1, <1>7, <1>8 DEF S
<1> QED
  BY <1>9 DEF at, N

LEMMA InodeAtIn ==
  ASSUME NEW file, InPlace(file), NEW n \in Nat
  PROVE  InodeAt(file, n) = InodeIn(file, n)
<1>1. CASE InodePos(n) \in DOMAIN file
  <2>1. InodePos(n) # SuperPos
    BY DEF InodePos, SuperPos
  <2>2. file[InodePos(n)] \in Inode
    BY <1>1, <2>1 DEF InPlace
  <2>3. Torn \notin Inode
    <3>1. "torn" \in DOMAIN Torn
      BY DEF Torn
    <3>2. \A i \in Inode : "torn" \notin DOMAIN i
      BY DEF Inode
    <3> QED
      BY <3>1, <3>2
  <2> QED
    BY <1>1, <2>2, <2>3 DEF InodeAt, InodeIn
<1>2. CASE InodePos(n) \notin DOMAIN file
  BY <1>2 DEF InodeAt, InodeIn
<1> QED
  BY <1>1, <1>2

\* The i-th name leads from directory no to the entry it has there.
Onward(file, st, path, i, no) ==
    i \in 1..Len(path) /\ Reached(file, st, path)[i - 1] = {no} =>
        Reached(file, st, path)[i] = ChildIn(file, st, no, path[i])

LEMMA ReachedOnward ==
  ASSUME NEW file, NEW st, NEW i, NEW no, NEW path \in Seq(Name)
  PROVE  Onward(file, st, path, i, no)
<1> SUFFICES ASSUME i \in 1..Len(path), Reached(file, st, path)[i - 1] = {no}
             PROVE  Reached(file, st, path)[i] = ChildIn(file, st, no, path[i])
  BY DEF Onward
<1> DEFINE at == Reached(file, st, path)
<1>1. \A j \in 1..Len(path) : at[j] = UNION {ChildIn(file, st, n, path[j]) : n \in at[j - 1]}
  BY ReachedSteps
<1>2. at[i - 1] = {no}
  OBVIOUS
<1> HIDE DEF at
<1>3. at[i] = UNION {ChildIn(file, st, n, path[i]) : n \in at[i - 1]}
  BY <1>1
<1>4. at[i] = UNION {ChildIn(file, st, n, path[i]) : n \in {no}}
  BY <1>2, <1>3
<1>5. UNION {ChildIn(file, st, n, path[i]) : n \in {no}} = ChildIn(file, st, no, path[i])
  OBVIOUS
<1> QED
  BY <1>4, <1>5 DEF at

\* The entry of a name in a block: one, or none.
LEMMA ChildFound ==
  ASSUME NEW file, NEW st, NEW n, NEW name
  PROVE  LET b == InodeAt(file, n).i_block
         IN  /\ b = 0 => ChildIn(file, st, n, name) = {}
             /\ b # 0 /\ b \in DOMAIN st /\ Matches(st[b], name) = {} =>
                  ChildIn(file, st, n, name) = {}
             /\ b # 0 /\ b \in DOMAIN st =>
                  \A i \in Slot : First(Matches(st[b], name), i) =>
                    ChildIn(file, st, n, name) = {st[b][i].inode}
<1> DEFINE b == InodeAt(file, n).i_block
           K == {k \in ({b} \cap (DOMAIN st \ {0})) \X Slot : First(Matches(st[k[1]], name), k[2])}
<1>1. ChildIn(file, st, n, name) = {st[l[1]][l[2]].inode : l \in K}
  BY DEF ChildIn
<1>2. b = 0 => K = {}
  OBVIOUS
<1>3. Matches(st[b], name) = {} => K = {}
  BY DEF First
<1>4. ASSUME b # 0, b \in DOMAIN st, NEW i \in Slot, First(Matches(st[b], name), i)
      PROVE  K = {<<b, i>>}
  <2>1. <<b, i>> \in K
    BY <1>4
  <2>2. ASSUME NEW k \in K PROVE k = <<b, i>>
    <3>1. k[1] = b /\ k[2] \in Slot /\ First(Matches(st[b], name), k[2]) /\ k = <<k[1], k[2]>>
      BY <2>2
    <3>2. k[2] <= i /\ i <= k[2]
      BY <1>4, <3>1 DEF First
    <3>3. k[2] = i
      BY <3>1, <3>2 DEF Slot
    <3> QED
      BY <3>1, <3>3
  <2> QED
    BY <2>1, <2>2
<1> HIDE DEF K, b
<1>5. ASSUME b # 0, b \in DOMAIN st, NEW i \in Slot, First(Matches(st[b], name), i)
      PROVE  ChildIn(file, st, n, name) = {st[b][i].inode}
  BY <1>1, <1>4, <1>5
<1> QED
  BY <1>1, <1>2, <1>3, <1>5 DEF b

(***************************************************************************)
(* The inductive invariant                                                 *)
(***************************************************************************)
NoFar(data) == \A i \in Slot : data[i].name \in Name => data[i].inode # Far

\* No block of a directory has what an overrun leaves.
FarInv == Exact => \A b \in DOMAIN store \ {0} : NoFar(store[b])

\* A call that makes an inode was let in while numbers were left.
RoomAt(l, f, S) ==
    f.op \in Mutators /\ l # "done" =>
        IF Creating(l, f) THEN f.node.i_inode_no < MaxInode ELSE S.s_free_inode < MaxInode

RoomInv == \A t \in Thread : RoomAt(pc[t], frame[t], superblock)

RootInv == root.i_block # 0 => root.i_inode_no = 1

\* Nothing is on the server before the metadata file has something.
BareInv == DOMAIN store # {} => DOMAIN meta.disk # {}

\* The names still to come are the last ones of the path, after the i-th.
Along(path, rest, i) ==
    /\ i \in 1..Len(path) /\ Len(rest) = Len(path) - i
    /\ \A j \in 1..Len(rest) : rest[j] = path[i + j]

Walking(l, f) == \/ l \in {"lookup", "get_inode", "read_inode"} /\ f.ra = "walk"
                 \/ l = "walk"

Answered(f) == IF f.found THEN {f.node.i_inode_no} ELSE {}

\* How far find_inode has got: at the i-th name of the path.
WalkAt(l, f, tok, s, st) ==
    LET path == Target(f)
        at   == Reached(s.view, st, path)
        i    == Len(path) - Len(tok.rest)
    IN  /\ Walking(l, f) => tok.owner # {} /\ Along(path, tok.rest, i)
        /\ Walking(l, f) /\ l = "lookup" => /\ f.comp = path[i]
                                            /\ at[i - 1] = {f.node.i_inode_no}
        /\ Walking(l, f) /\ l \in {"get_inode", "read_inode"} =>
             at[i] = {f.n} /\ InodePos(f.n) \in DOMAIN s.view
        /\ Walking(l, f) /\ l = "read_inode" => s.pos = InodePos(f.n) /\ ~s.mid
        /\ l = "walk" => at[i] = Answered(f)
        /\ l = "resolved" => at[Len(path)] = Answered(f)

WalkInv == faults = 0 /\ root.i_block # 0 =>
    \A t \in Thread : WalkAt(pc[t], frame[t], strtok, meta, store)

FindInv == FarInv /\ RoomInv /\ RootInv /\ BareInv /\ WalkInv

(***************************************************************************)
(* The steps of a call: numbers, the root, what is on the server           *)
(***************************************************************************)
LEMMA StepRoom ==
  ASSUME Serial, Context, RoomInv, NEW t \in Thread, Step(t), ~Die
  PROVE  RoomInv'
<1> DEFINE f == frame[t]
           l == pc[t]
<1>1. RoomAt(l, f, superblock) /\ superblock \in Super /\ f \in Frame /\ l \in Labels
  BY ThreadFrame DEF RoomInv, Context, TypeOK
<1>2. StepSuper(t)
  BY StepGlobals DEF Context
<1>3. ~Creating(l, f) => superblock' = superblock
  BY <1>2 DEF StepSuper, At, Creating, Numbered, Saved
<1>4. ASSUME NEW k, NEW g, Goto(t, k, g), RoomAt(k, g, superblock')
      PROVE  RoomInv'
  BY <1>4, SerialThread DEF Context, RoomInv
<1>5. ASSUME NEW k, NEW g, Goto(t, k, g), Looks(l, f, k, g), Calm(l, f), ~Creating(l, f)
      PROVE  RoomInv'
  <2>1. ~Creating(k, g) \/ k = "idle"
    BY <1>5 DEF Looks, Calm, Creating, Numbered, Advanced, Saved, WritesInode, WritesSuper
  <2>2. k = "idle" => g.op \notin Mutators
    BY <1>5 DEF Looks, Idle, Mutators
  <2>3. k # "idle" => g.op = f.op /\ l # "done"
    BY <1>5 DEF Looks
  <2>4. RoomAt(k, g, superblock')
    BY <1>1, <1>3, <1>5, <2>1, <2>2, <2>3 DEF RoomAt
  <2> QED
    BY <1>4, <1>5, <2>4
<1>6. ASSUME NEW k, NEW g, Goto(t, k, g), Starts(l, f, k, g), ~Creating(l, f)
      PROVE  RoomInv'
  <2>1. Creating(k, g) /\ g.op = f.op /\ l # "done" /\ g.node.i_inode_no = superblock.s_free_inode
    BY <1>6 DEF Starts, Carries, NewInode, Creating, Numbered, WritesInode
  <2>2. RoomAt(k, g, superblock')
    BY <1>1, <1>6, <2>1 DEF RoomAt
  <2> QED
    BY <1>4, <1>6, <2>2
<1>7. ASSUME NEW k, NEW g, Goto(t, k, g), Makes(l, f, k, g), Creating(l, f)
      PROVE  RoomInv'
  <2>1. k = "done" \/ Creating(k, g)
    BY <1>7 DEF Makes, Creating, Numbered, Advanced, Saved, WritesInode, WritesSuper
  <2>2. g.op = f.op /\ l # "done" /\ g.node.i_inode_no = f.node.i_inode_no
    BY <1>1, <1>7 DEF Makes, Frame, Inode, Creating, Numbered, Advanced, Saved, WritesInode, WritesSuper
  <2>3. RoomAt(k, g, superblock')
    BY <1>1, <1>7, <2>1, <2>2 DEF RoomAt
  <2> QED
    BY <1>4, <1>7, <2>3
<1>8. CASE Goto(t, "idle", Idle)
  <2>1. RoomAt("idle", Idle, superblock')
    BY DEF RoomAt, Idle, Mutators
  <2> QED
    BY <1>4, <1>8, <2>1
<1> QED
  BY <1>5, <1>6, <1>7, <1>8, StepMoves DEF Context

LEMMA StepRoot ==
  ASSUME Context, RootInv, NEW t \in Thread, Step(t), ~Die
  PROVE  RootInv'
<1>1. CASE UNCHANGED root
  BY <1>1 DEF RootInv
<1>2. CASE up = "init" /\ root' = frame[t].node
  <2>1. frame[t].node.i_inode_no = 1
    BY <1>2 DEF Context, NumbersInv, InitInv, InitAt
  <2> QED
    BY <1>2, <2>1 DEF RootInv
<1> QED
  BY <1>1, <1>2, SamePhase

LEMMA StepBare ==
  ASSUME Serial, Context, DurableInv, BareInv, NEW t \in Thread, Step(t), ~Die
  PROVE  BareInv'
<1>1. DOMAIN meta.disk \subseteq DOMAIN meta'.disk
  BY StepFile DEF Context, DurableInv
<1>2. CASE At(t, "dir_put") \/ At(t, "link")
  <2>1. DOMAIN meta.disk # {}
    BY <1>2 DEF DurableInv, RecordedAt, Behind, At
  <2> QED
    BY <1>1, <2>1 DEF BareInv
<1>3. CASE ~At(t, "dir_put") /\ ~At(t, "link")
  <2>1. UNCHANGED store
    BY <1>3, StepGlobals DEF Context, At
  <2> QED
    BY <1>1, <2>1 DEF BareInv
<1> QED
  BY <1>2, <1>3

LEMMA StepFar ==
  ASSUME Serial, Context, EntriesInv, RoomInv, FarInv, NEW t \in Thread, Step(t), ~Die
  PROVE  FarInv'
<1> DEFINE f == frame[t]
<1> SUFFICES ASSUME Exact' PROVE \A b \in DOMAIN store' \ {0} : NoFar(store'[b])
  BY DEF FarInv, NoFar
<1>1. /\ Exact /\ faults' = 0
      /\ \A b \in DOMAIN store \ {0} : NoFar(store[b])
  BY ExactBefore DEF FarInv, Exact
<1>2. EntriesAt(pc[t], f, superblock, store, block) /\ f \in Frame
  BY <1>1, ThreadFrame DEF EntriesInv, BlocksInv, Context
<1>3. ASSUME NEW b, NEW data, store' = Stored(b, data), b # 0 => NoFar(data)
      PROVE  \A x \in DOMAIN store' \ {0} : NoFar(store'[x])
  BY <1>1, <1>3 DEF Stored
<1>4. CASE At(t, "dir_put")
  <2>1. store' = Stored(f.blk, block.data)
    BY <1>1, <1>4, StepRemote DEF Context
  <2>2. block.data = EmptyDir(f.node.i_inode_no, Parent(f).i_inode_no)
    BY <1>2, <1>4 DEF EntriesAt, At
  <2>3. \A self, parent : NoFar(EmptyDir(self, parent))
    BY NameAssumption DEF NoFar, EmptyDir, NoEntry
  <2> QED
    BY <1>3, <2>1, <2>2, <2>3
<1>5. CASE At(t, "link")
  <2>1. store' = Stored(f.blk, Linked(f))
    BY <1>1, <1>5, StepRemote DEF Context
  <2>2. ASSUME f.blk # 0 PROVE NoFar(Linked(f))
    <3>1. f.slot # 0 /\ f.blk \in DOMAIN store /\ f.data = store[f.blk]
      BY <1>2, <1>5, <2>2 DEF EntriesAt, At
    <3>2. NoFar(f.data)
      BY <1>1, <2>2, <3>1
    <3>3. f.op \in Mutators
      BY <1>5 DEF Context, ControlOK, Places, At
    <3>4. f.node.i_inode_no < MaxInode
      BY <1>5, <3>3 DEF RoomInv, RoomAt, At, Creating, Saved
    <3>5. f.node.i_inode_no # Far
      BY <1>2, <3>4, BoundAssumption DEF Far, Frame, Inode
    <3>6. \A i \in Slot : Linked(f)[i] = f.data[i] \/ Linked(f)[i].inode = f.node.i_inode_no
      <4>1. f.data \in [Slot -> Entry]
        BY <1>2 DEF Frame, Block
      <4>2. Linked(f) = [f.data EXCEPT ![f.slot] = [inode |-> f.node.i_inode_no, name |-> Last(f.path)]]
        BY <3>1 DEF Linked
      <4> QED
        BY <4>1, <4>2
    <3> QED
      BY <3>2, <3>5, <3>6 DEF NoFar
  <2> QED
    BY <1>3, <2>1, <2>2
<1>6. CASE ~At(t, "dir_put") /\ ~At(t, "link")
  BY <1>1, <1>6, StepRemote DEF Context
<1> QED
  BY <1>4, <1>5, <1>6

(***************************************************************************)
(* The steps of a call: the path                                           *)
(***************************************************************************)
\* Only the steps of find_inode go on with it, or end it.
LEMMA StepElsewhere ==
  ASSUME TypeOK, PlacedInv, NEW t \in Thread, Step(t), ~Die,
         pc[t] \notin {"find", "lookup", "get_inode", "read_inode", "walk"}
  PROVE  \E k, g : Goto(t, k, g) /\ ~Walking(k, g) /\ k # "resolved"
<1> DEFINE f == frame[t]
<1>1. RouteAt(pc[t], f)
  BY DEF PlacedInv
<1>2. ASSUME NEW k, NEW g, Goto(t, k, g),
             k \notin {"lookup", "get_inode", "read_inode", "walk", "resolved"}
      PROVE  \E j, h : Goto(t, j, h) /\ ~Walking(j, h) /\ j # "resolved"
  BY <1>2 DEF Walking
<1>3. CASE resolved(t)
  <2>1. ASSUME NEW g, Goto(t, "lookup", g), g.ra = "named"
        PROVE  \E j, h : Goto(t, j, h) /\ ~Walking(j, h) /\ j # "resolved"
    BY <2>1 DEF Walking
  <2>2. CASE f.found /\ f.op \in Mutators
    <3> DEFINE g == [f EXCEPT !.base = f.node, !.comp = Last(f.path), !.ra = "named"]
    <3>1. g.ra = "named"
      BY ThreadFrame DEF Frame
    <3>2. Goto(t, "lookup", g) \/ \E k, h : Goto(t, k, h) /\ k \in {"done", "list", "update_inode"}
      BY <1>3, <2>2 DEF resolved, Answer
    <3> HIDE DEF g
    <3> QED
      BY <1>2, <2>1, <3>1, <3>2
  <2>3. CASE ~(f.found /\ f.op \in Mutators)
    <3>1. \E k, h : Goto(t, k, h) /\ k \in {"done", "list", "update_inode"}
      BY <1>3, <2>3 DEF resolved, Answer
    <3> QED
      BY <1>2, <3>1
  <2> QED
    BY <2>2, <2>3
<1>4. CASE list(t) \/ named(t) \/ done(t) \/ dir_free(t) \/ slot(t) \/ link(t)
  <2>1. \E k, g : Goto(t, k, g) /\ k \in {"done", "update_inode", "idle", "slot", "link"}
    BY <1>4 DEF list, named, done, dir_free, slot, link, Answer
  <2> QED
    BY <1>2, <2>1
<1>5. CASE update_inode(t) \/ write_inode(t) \/ update_superblock(t) \/ write_superblock(t)
  <2>1. \E k, g : Goto(t, k, g) /\ k \in {"write_inode", "write_superblock", "done", "inode_written",
                                          "dir_written", "slot", "dir_block", "dir_free"}
    BY <1>1, <1>5 DEF update_inode, write_inode, update_superblock, write_superblock, RouteAt, At
  <2> QED
    BY <1>2, <2>1
<1>6. CASE inode_written(t) \/ bump_inode(t) \/ dir_block(t) \/ dir_put(t) \/ dir_iblock(t)
           \/ dir_written(t) \/ bump_block(t)
  <2>1. \E k, g : Goto(t, k, g) /\ k \in {"bump_inode", "update_superblock", "dir_put", "dir_iblock",
                                          "update_inode", "bump_block"}
    BY <1>6 DEF inode_written, bump_inode, dir_block, dir_put, dir_iblock, dir_written, bump_block
  <2> QED
    BY <1>2, <2>1
<1>7. ~find_inode(t) /\ ~lookup(t) /\ ~get_inode(t) /\ ~read_inode(t) /\ ~walk(t)
  BY DEF find_inode, lookup, get_inode, read_inode, walk, At
<1> QED
  BY <1>3, <1>4, <1>5, <1>6, <1>7 DEF Step

LEMMA TailAlong ==
  ASSUME NEW path \in Seq(Name), NEW rest \in Seq(Name), rest # <<>>,
         NEW i \in Nat, i <= Len(path), Len(rest) = Len(path) - i,
         \A j \in 1..Len(rest) : rest[j] = path[i + j]
  PROVE  /\ Along(path, Tail(rest), i + 1)
         /\ Head(rest) = path[i + 1] /\ Len(path) - Len(Tail(rest)) = i + 1
<1> DEFINE tail == Tail(rest)
           N == Len(path)
           M == Len(rest)
<1>1. /\ Len(tail) = M - 1 /\ \A j \in 1..Len(tail) : tail[j] = rest[j + 1]
      /\ M \in Nat \ {0} /\ N \in Nat
  BY HeadTailProperties, EmptySeq
<1>2. Head(rest) = rest[1]
  BY <1>1
<1>3. M = N - i /\ \A j \in 1..M : rest[j] = path[i + j]
  OBVIOUS
<1> HIDE DEF tail, N, M
<1>4. i + 1 \in 1..N /\ Len(tail) = N - (i + 1)
  BY <1>1, <1>3
<1>5. ASSUME NEW j \in 1..Len(tail) PROVE tail[j] = path[(i + 1) + j]
  <2>1. j + 1 \in 1..M /\ i + (j + 1) = (i + 1) + j
    BY <1>1
  <2> QED
    BY <1>1, <1>3, <2>1
<1>6. Along(path, tail, i + 1)
  BY <1>4, <1>5 DEF Along, N
<1>7. Head(rest) = path[i + 1] /\ N - Len(tail) = i + 1
  BY <1>1, <1>2, <1>3, <1>4
<1> QED
  BY <1>6, <1>7 DEF tail, N

LEMMA FindWalk ==
  ASSUME TypeOK, RootInv, root.i_block # 0, NEW t \in Thread, find_inode(t)
  PROVE  \E k, g : Goto(t, k, g) /\ WalkAt(k, g, strtok', meta', store')
<1> DEFINE f == frame[t]
           path == Target(f)
           at == Reached(meta'.view, store', path)
<1>1. f \in Frame /\ path \in Seq(Name) /\ root.i_inode_no = 1
  BY ThreadFrame DEF RootInv
<1>2. at[0] = {1}
  BY <1>1, ReachedSteps
<1>3. CASE path = <<>>
  <2> DEFINE g == [f EXCEPT !.node = root, !.found = TRUE]
  <2>1. Goto(t, "resolved", g)
    BY <1>3 DEF find_inode
  <2>2. g.node = root /\ g.found = TRUE /\ Target(g) = path
    BY <1>1 DEF Frame, Target
  <2>3. Len(path) = 0
    BY <1>3
  <2> HIDE DEF g, f, path
  <2>4. WalkAt("resolved", g, strtok', meta', store')
    BY <1>1, <1>2, <2>2, <2>3 DEF WalkAt, Walking, Answered
  <2> QED
    BY <2>1, <2>4
<1>4. CASE path # <<>>
  <2> DEFINE g == [f EXCEPT !.node = root, !.comp = Head(path), !.ra = "walk"]
  <2>1. Goto(t, "lookup", g) /\ strtok' = [rest |-> Tail(path), owner |-> {t}]
    BY <1>4 DEF find_inode
  <2>2. g.node = root /\ g.comp = Head(path) /\ Target(g) = path
    BY <1>1 DEF Frame, Target
  <2>3. Along(path, Tail(path), 1) /\ Head(path) = path[1] /\ Len(path) - Len(Tail(path)) = 1
    <3>1. Len(path) \in Nat /\ \A j \in 1..Len(path) : path[j] = path[0 + j]
      BY <1>1
    <3> HIDE DEF path
    <3>2. Along(path, Tail(path), 0 + 1) /\ Head(path) = path[0 + 1]
          /\ Len(path) - Len(Tail(path)) = 0 + 1
      <4>1. 0 \in Nat /\ 0 <= Len(path) /\ Len(path) = Len(path) - 0
        BY <3>1
      <4> QED
        BY <1>1, <1>4, <3>1, <4>1, TailAlong
    <3> QED
      BY <3>2
  <2>4. strtok'.rest = Tail(path) /\ strtok'.owner # {}
    BY <2>1
  <2> HIDE DEF g, f, path
  <2>5. WalkAt("lookup", g, strtok', meta', store')
    BY <1>1, <1>2, <2>2, <2>3, <2>4 DEF WalkAt
  <2> QED
    BY <2>1, <2>5
<1> QED
  BY <1>3, <1>4

\* find_direct_relative_inode, in the directory reached so far.
LEMMA LookupWalk ==
  ASSUME Context, DurableInv, EntriesInv, DirsInv, FindInv, faults = 0, faults' = 0,
         root.i_block # 0, NEW t \in Thread, lookup(t), ~Die
  PROVE  \E k, g : Goto(t, k, g) /\ WalkAt(k, g, strtok', meta', store')
<1> DEFINE f == frame[t]
           path == Target(f)
           at == Reached(meta.view, store, path)
           i == Len(path) - Len(strtok.rest)
           b == f.node.i_block
<1>1. /\ f \in Frame /\ path \in Seq(Name) /\ pc[t] = "lookup" /\ Step(t)
      /\ RouteAt(pc[t], f) /\ WalkAt(pc[t], f, strtok, meta, store)
      /\ UNCHANGED <<strtok, meta>>
  BY ThreadFrame DEF Context, PlacedInv, FindInv, WalkInv, lookup, At, Step
<1>2. UNCHANGED store
  BY <1>1, StepGlobals DEF Context
<1>3. ASSUME f.ra = "named"
      PROVE  \E k, g : Goto(t, k, g) /\ WalkAt(k, g, strtok', meta', store')
  <2>1. ASSUME NEW k, NEW g, Goto(t, k, g), g.ra = "named", k \in {"named", "get_inode"}
        PROVE  WalkAt(k, g, strtok', meta', store')
    BY <2>1 DEF WalkAt, Walking
  <2>2. \A v : [f EXCEPT !.found = v].ra = "named" /\ [f EXCEPT !.n = v].ra = "named"
    BY <1>1, <1>3 DEF Frame
  <2>3. \E k, g : Goto(t, k, g) /\ g.ra = "named" /\ k \in {"named", "get_inode"}
    BY <1>3, <2>2 DEF lookup
  <2> QED
    BY <2>1, <2>3
<1>4. ASSUME f.ra = "walk"
      PROVE  \E k, g : Goto(t, k, g) /\ WalkAt(k, g, strtok', meta', store')
  <2>1. /\ strtok.owner # {} /\ Along(path, strtok.rest, i) /\ f.comp = path[i]
        /\ at[i - 1] = {f.node.i_inode_no} /\ Base(f) = f.node
    BY <1>1, <1>4 DEF WalkAt, Walking, Base
  <2>2. i \in 1..Len(path) /\ f.comp \in Name
    BY <1>1, <2>1, ElementOfSeq DEF Along
  <2>3. at[i] = ChildIn(meta.view, store, f.node.i_inode_no, f.comp)
    <3> DEFINE no == f.node.i_inode_no
    <3>1. /\ path \in Seq(Name) /\ i \in 1..Len(path) /\ path[i] = f.comp
          /\ Reached(meta.view, store, path)[i - 1] = {no}
      BY <1>1, <2>1, <2>2
    <3> HIDE DEF path, i, no
    <3>2. Onward(meta.view, store, path, i, no)
      BY <3>1, ReachedOnward
    <3>3. Reached(meta.view, store, path)[i] = ChildIn(meta.view, store, no, path[i])
      BY <3>1, <3>2 DEF Onward
    <3> QED
      BY <3>1, <3>3 DEF no
  <2>4. Live \/ (b # 0 /\ ~mapping.open)
    <3>1. Live \/ (Frozen /\ FrozenAt(pc[t], f))
      BY <1>1, Phases DEF Rootless, Context, NumbersInv, PhaseInv, ZeroInode
    <3>2. Frozen /\ FrozenAt(pc[t], f) => f.node = root /\ ~mapping.open
      BY <1>1, <2>1 DEF Frozen, FrozenAt, WritesInode
    <3> QED
      BY <3>1, <3>2
  <2>5. Live
    BY <2>1, <2>4 DEF lookup, Downloaded
  <2>6. /\ Exact /\ superblock.s_log_block_size # 0
        /\ \A x \in DOMAIN store \ {0} : NoFar(store[x])
        /\ \A x \in DOMAIN store : Clean(store[x], meta.disk)
        /\ DOMAIN meta.disk \subseteq DOMAIN meta.view
    BY <2>5 DEF Exact, Context, NumbersInv, LiveInv, FindInv, FarInv, DurableInv
  <2>7. Agree(f.node, meta.view) /\ f.node.i_inode_no \in Nat
    BY <1>1, <2>6 DEF DirsInv, MakingInv, MakingAt, KnownAt, Known, Creating, Numbered, Advanced,
       Saved, WritesInode, WritesSuper, Frame, Inode
  <2>8. InodeAt(meta.view, f.node.i_inode_no).i_block = b
    <3>1. InodeAt(meta.view, f.node.i_inode_no) = InodeIn(meta.view, f.node.i_inode_no)
      BY <2>7, InodeAtIn DEF Context, PlacedInv
    <3> QED
      BY <2>7, <3>1 DEF Agree
  <2>9. b # 0 => b \in DOMAIN store
    BY <2>6 DEF EntriesInv, BlocksInv, EntriesAt, HasBlock
  <2>10. ASSUME at[i] = {}, NEW k, NEW g, k = "walk", g = [f EXCEPT !.found = FALSE]
         PROVE  WalkAt(k, g, strtok', meta', store')
    <3>1. g.found = FALSE /\ Target(g) = path
      BY <1>1, <2>10 DEF Frame, Target
    <3> HIDE DEF f
    <3> QED
      BY <1>1, <1>2, <2>1, <2>10, <3>1 DEF WalkAt, Walking, Answered
  <2>11. ASSUME NEW x \in Slot, First(Matches(store[b], f.comp), x), b # 0, NEW k, NEW g,
                k = "get_inode", g = [f EXCEPT !.n = store[b][x].inode]
         PROVE  WalkAt(k, g, strtok', meta', store')
    <3>1. g.n = store[b][x].inode /\ Target(g) = path
      BY <1>1, <2>11 DEF Frame, Target
    <3>2. at[i] = {store[b][x].inode}
      BY <2>3, <2>8, <2>9, <2>11, ChildFound
    <3>3. store[b][x].name = f.comp
      BY <2>11 DEF First, Matches
    <3>4. InodePos(store[b][x].inode) \in DOMAIN meta.view
      <4>1. store[b][x].inode # Far
        BY <2>2, <2>6, <2>9, <2>11, <3>3 DEF NoFar
      <4>2. Clean(store[b], meta.disk)
        BY <2>6, <2>9, <2>11
      <4> QED
        BY <2>2, <2>6, <3>3, <4>1, <4>2 DEF Clean
    <3> HIDE DEF f, b
    <3> QED
      BY <1>1, <1>2, <2>1, <2>11, <3>1, <3>2, <3>4 DEF WalkAt, Walking
  <2>12. CASE b = 0
    <3>1. at[i] = {}
      BY <2>3, <2>8, <2>12, ChildFound
    <3>2. Goto(t, "walk", [f EXCEPT !.found = FALSE])
      BY <1>4, <2>1, <2>12 DEF lookup
    <3> QED
      BY <2>10, <3>1, <3>2
  <2>13. CASE b # 0
    <3>1. PICK data \in Buffers :
             /\ Downloaded(b, data)
             /\ \/ Matches(data, f.comp) = {} /\ Goto(t, "walk", [f EXCEPT !.found = FALSE])
                \/ \E x \in Slot : /\ First(Matches(data, f.comp), x)
                                   /\ Goto(t, "get_inode", [f EXCEPT !.n = data[x].inode])
      BY <1>4, <2>1, <2>13 DEF lookup
    <3>2. data = store[b]
      BY <2>6, <2>9, <2>13, <3>1, ExactDownload DEF Context
    <3>3. Matches(data, f.comp) = {} => at[i] = {}
      BY <2>3, <2>8, <2>9, <2>13, <3>2, ChildFound
    <3> HIDE DEF f, b, at, i
    <3> QED
      BY <2>10, <2>11, <2>13, <3>1, <3>2, <3>3
  <2> QED
    BY <2>12, <2>13
<1> QED
  BY <1>1, <1>3, <1>4 DEF RouteAt

LEMMA InodeWalk ==
  ASSUME Context, WalkInv, faults = 0, root.i_block # 0, NEW t \in Thread,
         get_inode(t) \/ read_inode(t)
  PROVE  \E k, g : Goto(t, k, g) /\ WalkAt(k, g, strtok', meta', store')
<1> DEFINE f == frame[t]
           path == Target(f)
<1>1. /\ f \in Frame /\ pc[t] \in {"get_inode", "read_inode"}
      /\ RouteAt(pc[t], f) /\ WalkAt(pc[t], f, strtok, meta, store)
      /\ UNCHANGED <<strtok, store>> /\ InPlace(meta.view)
  BY ThreadFrame DEF Context, PlacedInv, WalkInv, get_inode, read_inode, At, remote
<1>2. CASE get_inode(t)
  <2>1. Goto(t, "read_inode", f) /\ pc[t] = "get_inode"
    BY <1>2 DEF get_inode, At
  <2>2. meta'.view = meta.view /\ meta'.pos = InodePos(f.n) /\ meta'.mid = FALSE
    BY <1>2 DEF get_inode, Seek
  <2> HIDE DEF f
  <2>3. WalkAt("read_inode", f, strtok', meta', store')
    BY <1>1, <2>1, <2>2 DEF WalkAt, Walking
  <2> QED
    BY <2>1, <2>3
<1>3. CASE read_inode(t)
  <2>1. PICK inode \in InodesRead(meta, f.node) :
           Goto(t, f.ra, [f EXCEPT !.node = inode, !.found = TRUE, !.n = 0])
    BY <1>3 DEF read_inode
  <2> DEFINE g == [f EXCEPT !.node = inode, !.found = TRUE, !.n = 0]
  <2>2. g.node = inode /\ g.found = TRUE /\ Target(g) = path /\ g.ra = f.ra
    BY <1>1 DEF Frame, Target
  <2>3. meta'.view = meta.view /\ pc[t] = "read_inode"
    BY <1>3 DEF read_inode, AfterRead, At
  <2>4. CASE f.ra = "named"
    <3> HIDE DEF g
    <3>1. WalkAt(f.ra, g, strtok', meta', store')
      BY <2>4 DEF WalkAt, Walking
    <3> QED
      BY <2>1, <3>1 DEF g
  <2>5. CASE f.ra = "walk"
    <3>1. InodePos(f.n) \in DOMAIN meta.view /\ meta.pos = InodePos(f.n) /\ ~meta.mid
      BY <1>1, <2>3, <2>5 DEF WalkAt, Walking
    <3>2. InodePos(f.n) # SuperPos /\ f.n \in Nat
      BY <1>1 DEF Frame, InodePos, SuperPos
    <3>3. inode = meta.view[InodePos(f.n)]
      <4>1. ~AtEnd(meta)
        BY <3>1, <3>2 DEF AtEnd, InodePos
      <4>2. meta.view[InodePos(f.n)] \in Inode
        BY <1>1, <3>1, <3>2 DEF InPlace
      <4>3. InodesRead(meta, f.node) = {meta.view[InodePos(f.n)]}
        BY <3>1, <3>2, <4>1, <4>2 DEF InodesRead
      <4> QED
        BY <4>3
    <3>4. inode.i_inode_no = f.n
      <4>1. inode \in Inode /\ InodePos(inode.i_inode_no) = InodePos(f.n)
        BY <1>1, <3>1, <3>2, <3>3 DEF InPlace
      <4> QED
        BY <3>2, <4>1 DEF InodePos, Inode
    <3> HIDE DEF g, f
    <3>5. WalkAt("walk", g, strtok', meta', store')
      BY <1>1, <2>2, <2>3, <2>5, <3>4 DEF WalkAt, Walking, Answered
    <3> QED
      BY <2>1, <2>5, <3>5 DEF g
  <2> QED
    BY <1>1, <2>3, <2>4, <2>5 DEF RouteAt
<1> QED
  BY <1>2, <1>3

\* strtok: one more name, or the end.
LEMMA WalkWalk ==
  ASSUME Context, WalkInv, faults = 0, root.i_block # 0, NEW t \in Thread, walk(t)
  PROVE  \E k, g : Goto(t, k, g) /\ WalkAt(k, g, strtok', meta', store')
<1> DEFINE f == frame[t]
           path == Target(f)
           at == Reached(meta.view, store, path)
           rest == strtok.rest
           i == Len(path) - Len(rest)
<1>1. /\ f \in Frame /\ path \in Seq(Name) /\ pc[t] = "walk" /\ f.ra = "walk"
      /\ WalkAt(pc[t], f, strtok, meta, store)
      /\ UNCHANGED <<store, meta>> /\ rest \in Seq(Name)
  BY ThreadFrame DEF Context, PlacedInv, RouteAt, WalkInv, walk, At, remote, TypeOK
<1>2. strtok.owner # {} /\ Along(path, rest, i) /\ at[i] = Answered(f)
  BY <1>1 DEF WalkAt, Walking
<1>3. Pending = {rest}
  BY <1>2 DEF Pending
<1>4. i \in Nat /\ i <= Len(path) /\ Len(rest) = Len(path) - i
      /\ \A j \in 1..Len(rest) : rest[j] = path[i + j]
  <2>1. Len(path) \in Nat
    BY <1>1
  <2> HIDE DEF i, path, rest
  <2> QED
    BY <1>2, <2>1 DEF Along
<1>5. CASE rest # <<>> /\ f.found
  <2> DEFINE g == [f EXCEPT !.comp = Head(rest)]
  <2>1. Goto(t, "lookup", g) /\ strtok' = [strtok EXCEPT !.rest = Tail(rest)]
    BY <1>3, <1>5 DEF walk
  <2>2. strtok'.rest = Tail(rest) /\ strtok'.owner = strtok.owner
    BY <2>1 DEF Context, TypeOK
  <2>3. g.comp = Head(rest) /\ g.node = f.node /\ g.ra = "walk" /\ Target(g) = path
    BY <1>1 DEF Frame, Target
  <2>4. /\ Along(path, Tail(rest), i + 1) /\ Head(rest) = path[i + 1]
        /\ Len(path) - Len(Tail(rest)) = i + 1
    <3> HIDE DEF path, rest, i
    <3> QED
      BY <1>1, <1>4, <1>5, TailAlong
  <2>5. at[(i + 1) - 1] = {f.node.i_inode_no}
    <3>1. (i + 1) - 1 = i
      BY <1>4
    <3> HIDE DEF at, i
    <3> QED
      BY <1>2, <1>5, <3>1 DEF Answered
  <2>6. /\ Len(Target(g)) - Len(strtok'.rest) = i + 1
        /\ Reached(meta'.view, store', Target(g)) = at
    BY <1>1, <2>2, <2>3, <2>4
  <2> HIDE DEF g, f, path, rest, i, at
  <2>7. WalkAt("lookup", g, strtok', meta', store')
    BY <1>2, <2>2, <2>3, <2>4, <2>5, <2>6 DEF WalkAt
  <2> QED
    BY <2>1, <2>7
<1>6. CASE rest = <<>> \/ ~f.found
  <2> DEFINE g == [f EXCEPT !.found = @ /\ rest = <<>>, !.comp = NoName, !.ra = "idle"]
  <2>1. Goto(t, "resolved", g)
    BY <1>3, <1>6 DEF walk
  <2>2. g.node = f.node /\ Target(g) = path /\ g.found = (f.found /\ rest = <<>>)
    BY <1>1 DEF Frame, Target
  <2>3. at[Len(path)] = Answered(g)
    <3>1. CASE rest = <<>>
      <4>1. i = Len(path)
        <5>1. Len(rest) = 0 /\ Len(path) \in Nat
          BY <1>1, <3>1
        <5> QED
          BY <1>4, <5>1
      <4>2. Answered(g) = Answered(f)
        BY <1>1, <2>2, <3>1 DEF Answered, Frame
      <4> HIDE DEF at, i, g
      <4> QED
        BY <1>2, <4>1, <4>2
    <3>2. CASE rest # <<>>
      <4>1. ~f.found /\ ~g.found
        BY <1>6, <2>2, <3>2
      <4>2. at[i] = {} /\ Answered(g) = {}
        BY <1>2, <4>1 DEF Answered
      <4>3. i \in 0..Len(path)
        <5>1. Len(path) \in Nat
          BY <1>1
        <5> HIDE DEF i, path
        <5> QED
          BY <1>4, <5>1
      <4> HIDE DEF g, i, path
      <4> QED
        BY <1>1, <4>2, <4>3, ReachedNothing
    <3> QED
      BY <3>1, <3>2
  <2>4. Reached(meta'.view, store', Target(g)) = at
    BY <1>1, <2>2
  <2> HIDE DEF g, at
  <2>5. WalkAt("resolved", g, strtok', meta', store')
    BY <2>2, <2>3, <2>4 DEF WalkAt, Walking
  <2> QED
    BY <2>1, <2>5
<1> QED
  BY <1>5, <1>6

LEMMA StepWalk ==
  ASSUME Serial, Context, DurableInv, EntriesInv, DirsInv, FindInv,
         NEW t \in Thread, Step(t), ~Die
  PROVE  WalkInv'
<1> SUFFICES ASSUME faults' = 0, root'.i_block # 0
             PROVE  \A u \in Thread : WalkAt(pc'[u], frame'[u], strtok', meta', store')
  BY DEF WalkInv
<1>1. faults = 0
  BY StepFaults DEF Context
<1>2. \E k, g : Goto(t, k, g) /\ WalkAt(k, g, strtok', meta', store')
  <2>1. CASE pc[t] \notin {"find", "lookup", "get_inode", "read_inode", "walk"}
    <3>1. PICK k, g : Goto(t, k, g) /\ ~Walking(k, g) /\ k # "resolved"
      BY <2>1, StepElsewhere DEF Context
    <3>2. k # "walk"
      BY <3>1 DEF Walking
    <3>3. WalkAt(k, g, strtok', meta', store')
      BY <3>1, <3>2 DEF WalkAt
    <3> QED
      BY <3>1, <3>3
  <2>2. CASE pc[t] \in {"find", "lookup", "get_inode", "read_inode", "walk"}
    <3>1. root.i_block # 0
      BY <2>2, SamePhase DEF At
    <3>2. find_inode(t) \/ lookup(t) \/ get_inode(t) \/ read_inode(t) \/ walk(t)
      BY <2>2 DEF Step, resolved, list, named, update_inode, write_inode, update_superblock,
         write_superblock, inode_written, bump_inode, dir_block, dir_put, dir_iblock, dir_written,
         bump_block, dir_free, slot, link, done, At
    <3> QED
      BY <1>1, <3>1, <3>2, FindWalk, LookupWalk, InodeWalk, WalkWalk DEF Context, FindInv
  <2> QED
    BY <2>1, <2>2
<1> QED
  BY <1>2, SerialThread DEF Context

(***************************************************************************)
(* The other steps                                                         *)
(***************************************************************************)
LEMMA IdleRoom == \A S : RoomAt("idle", Idle, S)
  BY DEF RoomAt, Idle, Mutators

LEMMA StillWalk ==
  ASSUME NEW l, NEW f, NEW tok, NEW s, NEW st,
         l \notin {"lookup", "get_inode", "read_inode", "walk", "resolved"}
  PROVE  WalkAt(l, f, tok, s, st)
  BY DEF WalkAt, Walking

LEMMA GoneFind ==
  ASSUME FindInv, NEW stream, Down(stream), DOMAIN store' \subseteq DOMAIN store,
         DOMAIN meta.disk \subseteq DOMAIN stream.disk
  PROVE  FindInv'
<1>1. /\ up' = "unmounted" /\ root' = ZeroInode /\ meta' = stream
      /\ \A t \in Thread : pc'[t] = "idle" /\ frame'[t] = Idle
  BY DEF Down
<1>2. ZeroInode.i_block = 0
  BY DEF ZeroInode
<1>3. FarInv' /\ RootInv' /\ WalkInv'
  BY <1>1, <1>2 DEF FarInv, Exact, Live, RootInv, WalkInv
<1>4. RoomInv'
  BY <1>1, IdleRoom DEF RoomInv
<1>5. BareInv'
  BY <1>1 DEF FindInv, BareInv
<1> QED
  BY <1>3, <1>4, <1>5 DEF FindInv

LEMMA DieFind ==
  ASSUME FindInv, Die
  PROVE  FindInv'
<1>1. Down(Dropped(meta)) /\ DOMAIN store' \subseteq DOMAIN store
  BY DEF Die
<1>2. Dropped(meta).disk = meta.disk
  BY DEF Dropped, Opened
<1> QED
  BY <1>1, <1>2, GoneFind

LEMMA StopFind ==
  ASSUME DurableInv, FindInv, Unmount \/ Crash
  PROVE  FindInv'
<1>1. CASE Die
  BY <1>1, DieFind
<1>2. CASE Down(Closed(meta)) /\ UNCHANGED store
  <2>1. Closed(meta).disk = meta.view
    BY DEF Closed, Opened
  <2> QED
    BY <1>2, <2>1, GoneFind DEF DurableInv
<1> QED
  BY <1>1, <1>2 DEF Unmount, Crash

LEMMA CallFind ==
  ASSUME Serial, Context, FindInv, NEW t \in Thread, NEW c \in Calls, Call(t, c)
  PROVE  FindInv'
<1>1. CASE Die
  BY <1>1, DieFind
<1>2. CASE ~Die
  <2> DEFINE f == [Idle EXCEPT !.op = c.op, !.path = c.path]
             g == [f EXCEPT !.ret = "ok"]
  <2>1. /\ pc[t] = "idle" /\ UNCHANGED <<up, superblock, root, meta, store, mapping, faults>>
    BY <1>2, CallFrame
  <2>2. f.op = c.op /\ g.op = c.op
    BY DEF Idle
  <2>3. Goto(t, "find", f) \/ Goto(t, "done", g)
    BY <1>2 DEF Call
  <2>4. c.op \in Mutators => superblock.s_free_inode < MaxInode
    <3>1. \A u \in Thread : frame[u].op \notin Mutators
      <4>1. \A u \in Thread : u = t
        BY DEF Serial
      <4> QED
        BY <2>1, <4>1 DEF Context, NumbersInv, PhaseInv, Idle, Mutators
    <3>2. {u \in Thread : frame[u].op \in Mutators} = {}
      BY <3>1
    <3>3. Cardinality({u \in Thread : frame[u].op \in Mutators}) = 0
      BY <3>2, FS_EmptySet
    <3>4. superblock.s_free_inode \in Nat
      BY DEF Context, TypeOK, Super
    <3> QED
      BY <3>3, <3>4 DEF Call, Room
  <2> HIDE DEF f, g
  <2>5. RoomAt("find", f, superblock') /\ RoomAt("done", g, superblock')
    BY <2>1, <2>2, <2>4 DEF RoomAt, Creating, Numbered, Advanced, Saved, WritesInode, WritesSuper
  <2>6. RoomInv' /\ WalkInv'
    BY <2>3, <2>5, SerialThread, StillWalk DEF Context, RoomInv, WalkInv
  <2>7. FarInv' /\ RootInv' /\ BareInv'
    BY <2>1 DEF FindInv, FarInv, Exact, Live, RootInv, BareInv
  <2> QED
    BY <2>6, <2>7 DEF FindInv
<1> QED
  BY <1>1, <1>2

LEMMA MountFind ==
  ASSUME Serial, Context, FindInv, NEW t \in Thread, Mount(t)
  PROVE  FindInv'
<1>1. /\ UNCHANGED <<store, mapping, faults>> /\ ~mapping.open /\ root = ZeroInode
      /\ meta.view = meta.disk /\ \A u \in Thread : pc[u] = "idle"
  BY MountFrame
<1>2. ZeroInode.i_block = 0
  BY DEF ZeroInode
<1>3. CASE meta.disk = Empty
  <2>1. /\ UNCHANGED <<root, meta>>
        /\ \E g : \A u \in Thread : pc'[u] = "update_inode" /\ frame'[u] = g /\ g.op = "init"
    BY <1>3, MountFrame
  <2>2. DOMAIN store = {}
    BY <1>3 DEF FindInv, BareInv, Empty
  <2>3. FarInv' /\ RootInv' /\ BareInv'
    BY <1>1, <2>1, <2>2 DEF FindInv, FarInv, RootInv, BareInv
  <2>4. RoomInv' /\ WalkInv'
    BY <2>1, StillWalk DEF RoomInv, RoomAt, Mutators, WalkInv
  <2> QED
    BY <2>3, <2>4 DEF FindInv
<1>4. CASE meta.disk # Empty
  <2>1. /\ up' = "mounted" /\ meta'.view = meta.view /\ meta'.disk = meta.view
        /\ UNCHANGED <<pc, frame>>
        /\ root' \in InodesRead(Seek(meta, InodePos(1)), ZeroInode)
    BY <1>4, MountFrame
  <2>2. RootInv'
    <3> DEFINE s == Seek(meta, InodePos(1))
    <3>1. s.view = meta.view /\ s.pos = InodePos(1) /\ s.mid = FALSE /\ InodePos(1) # SuperPos
      BY DEF Seek, InodePos, SuperPos
    <3>2. CASE InodePos(1) \in DOMAIN meta.view
      <4>1. /\ meta.view[InodePos(1)] \in Inode
            /\ InodePos(meta.view[InodePos(1)].i_inode_no) = InodePos(1)
        BY <3>1, <3>2 DEF Context, PlacedInv, InPlace
      <4>2. ~AtEnd(s)
        <5>1. InodePos(1) = 2
          BY DEF InodePos
        <5>2. 2 \in DOMAIN s.view /\ s.pos = 2 /\ ~s.mid
          BY <3>1, <3>2, <5>1
        <5> HIDE DEF s
        <5>3. ~(2 < s.pos \/ (s.mid /\ 2 = s.pos))
          BY <5>2
        <5> QED
          BY <5>2, <5>3, Zenon DEF AtEnd
      <4> HIDE DEF s
      <4>3. InodesRead(s, ZeroInode) = {meta.view[InodePos(1)]}
        BY <3>1, <3>2, <4>1, <4>2 DEF InodesRead
      <4>4. root' = meta.view[InodePos(1)]
        BY <2>1, <4>3 DEF s
      <4> QED
        BY <4>1, <4>4 DEF RootInv, InodePos, Inode
    <3>3. CASE InodePos(1) \notin DOMAIN meta.view
      <4> HIDE DEF s
      <4>1. InodesRead(s, ZeroInode) = {ZeroInode}
        BY <3>1, <3>3 DEF InodesRead
      <4>2. root' = ZeroInode
        BY <2>1, <4>1 DEF s
      <4> QED
        BY <1>2, <4>2 DEF RootInv
    <3> QED
      BY <3>2, <3>3
  <2>3. FarInv' /\ BareInv'
    BY <1>1, <2>1 DEF FindInv, FarInv, Exact, Live, BareInv
  <2>4. \A u \in Thread : frame[u] = Idle
    BY <1>1 DEF Context, NumbersInv, PhaseInv
  <2>5. RoomInv' /\ WalkInv'
    BY <1>1, <2>1, <2>4, IdleRoom, StillWalk DEF RoomInv, WalkInv
  <2> QED
    BY <2>2, <2>3, <2>5 DEF FindInv
<1> QED
  BY <1>3, <1>4

LEMMA NextFind ==
  ASSUME Serial, Context, DurableInv, EntriesInv, DirsInv, FindInv, [Next]_vars
  PROVE  FindInv'
<1>1. ASSUME NEW t \in Thread, Step(t)
      PROVE  FindInv'
  <2>1. CASE Die
    BY <2>1, DieFind
  <2>2. CASE ~Die
    BY <1>1, <2>2, StepFar, StepRoom, StepRoot, StepBare, StepWalk DEF FindInv
  <2> QED
    BY <2>1, <2>2
<1>2. CASE UNCHANGED vars
  BY <1>2 DEF vars, FindInv, FarInv, Exact, Live, RoomInv, RootInv, BareInv, WalkInv
<1> QED
  BY <1>1, <1>2, CallFind, MountFind, StopFind DEF Next

LEMMA InitFind == Init => FindInv
<1> SUFFICES ASSUME Init PROVE FindInv
  OBVIOUS
<1>1. root.i_block = 0 /\ ~Exact /\ DOMAIN store = {}
  BY DEF Init, ZeroInode, Exact, Live
<1>2. RoomInv
  BY IdleRoom DEF Init, RoomInv
<1> QED
  BY <1>1, <1>2 DEF FindInv, FarInv, RootInv, BareInv, WalkInv

\* find_inode: with one thread, and as long as no transfer has failed, the answer
\* is the number the path leads to in the blocks on the server and the inodes in
\* the metadata file, or that it leads nowhere, for paths of any length, in any
\* process whose root has a block.
THEOREM SerialFind == Serial /\ Spec => [](faults = 0 /\ root.i_block # 0 => FindInodeCorrect)
<1> SUFFICES ASSUME Serial PROVE Spec => [](faults = 0 /\ root.i_block # 0 => FindInodeCorrect)
  OBVIOUS
<1> DEFINE Inv == Context /\ DurableInv /\ EntriesInv /\ DirsInv /\ FindInv
           Found == faults = 0 /\ root.i_block # 0 => FindInodeCorrect
<1>1. Init => Inv
  BY InitContext, InitRecorded, InitEntries, InitDirs, InitFind
<1>2. Inv /\ [Next]_vars => Inv'
  BY NextContext, NextRecorded, NextEntries, NextDirs, NextFind DEF Context
<1>3. Inv => Found
  <2> SUFFICES ASSUME Inv, faults = 0, root.i_block # 0, NEW t \in Thread, At(t, "resolved")
               PROVE  Resolve(Target(frame[t])) = Answered(frame[t])
    BY DEF FindInodeCorrect, Answered
  <2>1. WalkAt(pc[t], frame[t], strtok, meta, store) /\ pc[t] = "resolved"
    BY DEF FindInv, WalkInv, At
  <2> QED
    BY <2>1, ResolveReached DEF WalkAt
<1> HIDE DEF Inv, Found
<1>4. Spec => []Found
  BY <1>1, <1>2, <1>3, PTL DEF Spec
<1> QED
  BY <1>4 DEF Found
=============================================================================
