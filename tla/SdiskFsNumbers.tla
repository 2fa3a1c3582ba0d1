--------------------------- MODULE SdiskFsNumbers ---------------------------
(***************************************************************************)
(* The inode numbers of SdiskFs, served by one thread: the counter of the  *)
(* superblock is ahead of every entry while the process that formatted the *)
(* file system runs, and the counter on disk is at most one allocation     *)
(* behind, wherever the process dies and whatever transfers fail.          *)
(*                                                                         *)
(* The argument follows the life of the file system: while init formats it *)
(* there are no entries; the process that formatted it makes them; a later *)
(* process finds the driver's mapping file closed, and dies at its first   *)
(* transfer; a process without a block for the root makes no entry at all. *)
(***************************************************************************)
EXTENDS SdiskFsWrites

(***************************************************************************)
(* Numbers that have a name, in any copy of a block                        *)
(***************************************************************************)
Numbers(data) ==
    {data[i].inode : i \in {j \in Slot : data[j].name \in Name /\ data[j].inode # Far}}

AllNumbers == (UNION {Numbers(store[b]) : b \in DOMAIN store})
              \cup Numbers(block.data)
              \cup (UNION {Numbers(frame[t].data) : t \in Thread})

(***************************************************************************)
(* The processes                                                           *)
(***************************************************************************)
Rootless == up = "mounted" /\ root.i_block = 0
Live     == root.i_block # 0 /\ mapping.open
Frozen   == up = "mounted" /\ root.i_block # 0 /\ ~mapping.open

(***************************************************************************)
(* How far a call that makes an inode has got                              *)
(***************************************************************************)
WritesInode(l) == l \in {"update_inode", "write_inode"}
WritesSuper(l) == l \in {"update_superblock", "write_superblock"}

\* It has a number and the counter is still at it.
Numbered(l, f) == \/ WritesInode(l) /\ f.ra = "inode_written"
                  \/ l \in {"inode_written", "bump_inode"}

\* The counter has advanced in memory.
Advanced(l, f) == WritesSuper(l) /\ f.ra \in {"slot", "dir_block"}

\* It has advanced in the metadata file.
Saved(l, f) == \/ l \in {"dir_block", "dir_put", "dir_iblock", "dir_written", "bump_block",
                         "dir_free", "slot", "link"}
               \/ WritesSuper(l) /\ f.ra = "dir_free"
               \/ WritesInode(l) /\ f.ra = "dir_written"

Creating(l, f) == Numbered(l, f) \/ Advanced(l, f) \/ Saved(l, f)

\* The new directory has no block yet, or its inode is written with one.
Blockless(l, f) == \/ Numbered(l, f) \/ Advanced(l, f)
                   \/ l \in {"dir_block", "dir_put", "dir_iblock"}
Ending(l, f)    == \/ l \in {"dir_written", "bump_block", "dir_free"}
                   \/ WritesSuper(l) /\ f.ra = "dir_free"

(***************************************************************************)
(* What one step does, variable by variable                                *)
(***************************************************************************)
StepSuper(t) ==
    superblock' = CASE At(t, "bump_inode") -> [superblock EXCEPT !.s_free_inode = frame[t].n]
                    [] At(t, "bump_block") -> [superblock EXCEPT !.s_free_block = frame[t].n]
                    [] OTHER -> superblock

StepMeta(t) ==
    /\ At(t, "write_inode") => meta' = Write(meta, frame[t].node)
    /\ At(t, "write_superblock") => meta' = Write(meta, superblock)
    /\ At(t, "update_superblock") => meta'.view = meta.view /\ meta'.disk = meta.view
    /\ At(t, "update_inode") => meta'.view = meta.view /\ meta'.disk = meta.view
    /\ pc[t] \in {"get_inode", "read_inode"} => meta'.view = meta.view /\ meta'.disk = meta.view
    /\ pc[t] \notin {"write_inode", "write_superblock", "update_superblock", "update_inode",
                     "get_inode", "read_inode"} => UNCHANGED meta

LEMMA StepGlobals ==
  ASSUME TypeOK, NEW t \in Thread, Step(t)
  PROVE  \/ Die
         \/ /\ StepSuper(t) /\ StepMeta(t)
            /\ mapping.open => mapping'.open
            /\ pc[t] \notin {"dir_put", "link"} => mapping'.open = mapping.open /\ UNCHANGED store
            /\ pc[t] \notin {"dir_block", "dir_free"} => UNCHANGED block
            /\ \/ UNCHANGED <<up, root>>
               \/ /\ At(t, "dir_free") /\ frame[t].op = "init"
                  /\ up' = "mounted" /\ root' = frame[t].node
<1> mapping \in [open : BOOLEAN, unsaved : SUBSET Nat]
  BY DEF TypeOK
<1>0. ASSUME NEW b, NEW data, Downloaded(b, data)
      PROVE  mapping'.open = mapping.open /\ UNCHANGED store
  BY <1>0 DEF Downloaded
<1>1. CASE find_inode(t) \/ walk(t) \/ resolved(t) \/ named(t) \/ done(t)
  BY <1>1 DEF find_inode, walk, resolved, named, done, At, StepSuper, StepMeta, remote
<1>2. CASE lookup(t) \/ list(t) \/ slot(t)
  <2>1. Die \/ UNCHANGED <<mapping, store>> \/ \E b, data : Downloaded(b, data)
    BY <1>2 DEF lookup, list, slot, remote
  <2>2. Die \/ (mapping'.open = mapping.open /\ UNCHANGED store)
    BY <1>0, <2>1
  <2>3. Die \/ UNCHANGED <<up, superblock, root, meta, block>>
    BY <1>2 DEF lookup, list, slot
  <2>4. pc[t] \in {"lookup", "list", "slot"}
    BY <1>2 DEF lookup, list, slot, At
  <2> QED
    BY <2>2, <2>3, <2>4 DEF At, StepSuper, StepMeta
<1>10. /\ \A p : Seek(meta, p).view = meta.view /\ Seek(meta, p).disk = meta.view
       /\ AfterRead(meta).view = meta.view /\ AfterRead(meta).disk = meta.view
  BY DEF Seek, AfterRead
<1>3. CASE get_inode(t) \/ read_inode(t) \/ update_inode(t)
  BY <1>3, <1>10 DEF get_inode, read_inode, update_inode, At, StepSuper, StepMeta, remote
<1>4. CASE update_superblock(t) \/ write_superblock(t) \/ write_inode(t)
  BY <1>4, <1>10 DEF update_superblock, write_superblock, write_inode, At, StepSuper, StepMeta,
     remote
<1>11. CASE inode_written(t) \/ bump_inode(t)
  BY <1>11 DEF inode_written, bump_inode, At, StepSuper, StepMeta, remote
<1>5. CASE dir_iblock(t) \/ dir_written(t) \/ bump_block(t)
  BY <1>5 DEF dir_iblock, dir_written, bump_block, At, StepSuper, StepMeta, remote
<1>9. CASE dir_block(t)
  <2>1. UNCHANGED <<up, superblock, root, meta, store, mapping>> /\ pc[t] = "dir_block"
    BY <1>9 DEF dir_block, At, remote
  <2> QED
    BY <2>1 DEF At, StepSuper, StepMeta
<1>8. CASE dir_free(t)
  <2>1. Die \/ UNCHANGED <<superblock, meta, store, mapping>>
    BY <1>8 DEF dir_free, remote
  <2>2. Die \/ UNCHANGED <<up, root>>
        \/ (frame[t].op = "init" /\ up' = "mounted" /\ root' = frame[t].node)
    BY <1>8 DEF dir_free
  <2>3. pc[t] = "dir_free"
    BY <1>8 DEF dir_free, At
  <2> QED
    BY <2>1, <2>2, <2>3 DEF At, StepSuper, StepMeta
<1>6. ASSUME NEW b, NEW data, NEW ret, Uploaded(b, data, ret), mapping.open
      PROVE  mapping'.open
  BY <1>6 DEF Uploaded, PutOk, PutFailed
<1>7. CASE dir_put(t) \/ link(t)
  BY <1>6, <1>7 DEF dir_put, link, At, StepSuper, StepMeta
<1> QED
  BY <1>1, <1>2, <1>3, <1>4, <1>5, <1>7, <1>8, <1>9, <1>11 DEF Step

(***************************************************************************)
(* Where a step takes a thread: from l with the locals f to k with g       *)
(***************************************************************************)
\* A call that looks something up, or writes an inode for utimens.
Calm(l, f) == \/ l \in {"idle", "find", "lookup", "get_inode", "read_inode", "walk",
                        "resolved", "list", "named", "done"}
              \/ WritesInode(l) /\ f.ra = "done"

\* The two say the same of an inode, its time aside.
Alike(i, j) == i.i_inode_no = j.i_inode_no /\ i.i_block = j.i_block /\ i.i_mode = j.i_mode

Inodes(file) == {file[p] : p \in DOMAIN file \ {SuperPos}}

\* What most steps keep.
Carries(f, g) == /\ g.op = f.op /\ g.base = f.base
                 /\ g.slot = f.slot /\ g.blk = f.blk /\ g.data = f.data

\* Where f.node is the inode reached so far.
Seeking == {"lookup", "walk", "resolved"}

Looks(l, f, k, g) ==
    /\ Calm(k, g)
    /\ IF k = "idle" THEN g = Idle ELSE g.op = f.op
    /\ k = "get_inode" => l = "lookup" /\ Base(f).i_block # 0
    /\ k = "read_inode" => l = "get_inode"
    /\ k \in Seeking => l \in {"find", "read_inode"} \cup Seeking
    /\ l = "find" => g.node = root
    /\ l = "done" => k = "idle"
    /\ g.data = f.data \/ g.data \in Buffers
    /\ g.base \in {f.base, ZeroInode} \/ (l = "resolved" /\ g.base = f.node)
    /\ g.slot \in {f.slot, 0} /\ g.blk \in {f.blk, 0}
    /\ \/ \E i \in {f.node, root, ZeroInode} : Alike(g.node, i)
       \/ l = "read_inode" /\ \E i \in Inodes(meta.view) : Alike(g.node, i)

Starts(l, f, k, g) ==
    /\ l = "named" /\ k = "update_inode" /\ g.ra = "inode_written"
    /\ g.node = NewInode(superblock.s_free_inode, f.op)
    /\ Carries(f, g) /\ g.path = f.path

LEMMA ReadFrom ==
  ASSUME InPlace(meta.view), IsStream(meta), NEW p, NEW old
  PROVE  /\ InodesRead(meta, old) \subseteq {old, ZeroInode} \cup Inodes(meta.view)
         /\ InodesRead(Seek(meta, p), old) \subseteq {old, ZeroInode} \cup Inodes(meta.view)
<1>1. \A r \in Super : r \notin Inode
  BY RecordKinds
<1>2. Junk(meta) \subseteq {ZeroInode} \cup Inodes(meta.view)
  BY <1>1 DEF Junk, InPlace, Inodes
<1>3. Seek(meta, p).view = meta.view /\ Junk(Seek(meta, p)) = Junk(meta)
  BY DEF Seek, Junk
<1>4. ASSUME NEW s, s.view = meta.view, Junk(s) = Junk(meta)
      PROVE  InodesRead(s, old) \subseteq {old, ZeroInode} \cup Inodes(meta.view)
  BY <1>2, <1>4 DEF InodesRead, Inodes
<1> QED
  BY <1>3, <1>4

LEMMA CalmFrame ==
  ASSUME TypeOK, PlacedInv, NEW t \in Thread, Step(t), Calm(pc[t], frame[t])
  PROVE  \/ Die
         \/ \E k, g : /\ Goto(t, k, g)
                      /\ Looks(pc[t], frame[t], k, g) \/ Starts(pc[t], frame[t], k, g)
<1> DEFINE f == frame[t]
<1>1. f \in Frame /\ RouteAt(pc[t], f) /\ f.node \in Inode
  BY ThreadFrame DEF PlacedInv, Frame
<1>2. ZeroBlock \in Buffers /\ Carries(f, f)
  BY DEF Buffers, Carries
<1>3. ASSUME NEW k \in {"lookup", "get_inode", "read_inode", "walk", "resolved", "list",
                        "named", "done"},
             NEW g, Goto(t, k, g), Carries(f, g),
             k = "get_inode" => pc[t] = "lookup" /\ Base(f).i_block # 0,
             k = "read_inode" => pc[t] = "get_inode",
             k \in Seeking => pc[t] \in {"find", "read_inode"} \cup Seeking,
             pc[t] = "find" => g.node = root, pc[t] # "done",
             \/ g.node \in {f.node, root, ZeroInode}
             \/ pc[t] = "read_inode" /\ g.node \in Inodes(meta.view)
      PROVE  \E j, h : Goto(t, j, h) /\ Looks(pc[t], f, j, h)
  BY <1>3 DEF Looks, Calm, Alike, Carries
<1>4. CASE find_inode(t)
  <2> DEFINE path == Target(f)
             g == [f EXCEPT !.node = root, !.found = TRUE]
             h == [f EXCEPT !.node = root, !.comp = Head(path), !.ra = "walk"]
  <2>1. Carries(f, g) /\ g.node = root
    BY <1>1 DEF Frame, Carries
  <2>2. Carries(f, h) /\ h.node = root
    BY <1>1 DEF Frame, Carries
  <2>3. Goto(t, "resolved", g) \/ Goto(t, "lookup", h)
    BY <1>4 DEF find_inode
  <2> HIDE DEF g, h
  <2> QED
    BY <1>3, <1>4, <2>1, <2>2, <2>3 DEF find_inode, At
<1>5. CASE lookup(t)
  <2> DEFINE miss == [f EXCEPT !.found = FALSE]
             hit(n) == [f EXCEPT !.n = n]
  <2>1. Carries(f, miss) /\ miss.node = f.node
    BY <1>1 DEF Frame, Carries
  <2>2. \A n : Carries(f, hit(n)) /\ hit(n).node = f.node
    BY <1>1 DEF Frame, Carries
  <2>3. f.ra \in {"walk", "named"}
    BY <1>1, <1>5 DEF lookup, At, RouteAt
  <2>4. \/ Die
        \/ Goto(t, f.ra, miss)
        \/ Base(f).i_block # 0 /\ \E n : Goto(t, "get_inode", hit(n))
    BY <1>5 DEF lookup
  <2>5. pc[t] = "lookup"
    BY <1>5 DEF lookup, At
  <2> HIDE DEF miss, hit
  <2> QED
    BY <1>3, <2>1, <2>2, <2>3, <2>4, <2>5 DEF Seeking
<1>6. CASE get_inode(t)
  BY <1>2, <1>3, <1>6 DEF get_inode, At, Seeking
<1>7. CASE read_inode(t)
  <2> DEFINE got(i) == [f EXCEPT !.node = i, !.found = TRUE, !.n = 0]
  <2>1. \A i : Carries(f, got(i)) /\ got(i).node = i
    BY <1>1 DEF Frame, Carries
  <2>2. f.ra \in {"walk", "named"}
    BY <1>1, <1>7 DEF read_inode, At, RouteAt
  <2>3. pc[t] = "read_inode" /\ \E i \in InodesRead(meta, f.node) : Goto(t, f.ra, got(i))
    BY <1>7 DEF read_inode, At
  <2>4. InodesRead(meta, f.node) \subseteq {f.node, ZeroInode} \cup Inodes(meta.view)
    BY ReadFrom DEF TypeOK, PlacedInv
  <2> HIDE DEF got
  <2> QED
    BY <1>3, <2>1, <2>2, <2>3, <2>4 DEF Seeking, At
<1>8. CASE walk(t)
  <2> DEFINE on(c) == [f EXCEPT !.comp = c]
             end(rest) == [f EXCEPT !.found = @ /\ rest = <<>>, !.comp = NoName,
                                    !.ra = "idle"]
  <2>1. \A c : Carries(f, on(c)) /\ on(c).node = f.node
    BY <1>1 DEF Frame, Carries
  <2>2. \A c : Carries(f, end(c)) /\ end(c).node = f.node
    BY <1>1 DEF Frame, Carries
  <2>3. (\E c : Goto(t, "lookup", on(c))) \/ (\E rest : Goto(t, "resolved", end(rest)))
    BY <1>8 DEF walk
  <2> HIDE DEF on, end
  <2> QED
    BY <1>3, <1>8, <2>1, <2>2, <2>3 DEF walk, At, Seeking
<1>9. CASE resolved(t)
  <2> DEFINE u == [f EXCEPT !.node.i_atime = "set", !.ra = "done", !.ret = "ok"]
             m == [f EXCEPT !.base = f.node, !.comp = Last(f.path), !.ra = "named"]
             a(ret) == [f EXCEPT !.ret = ret]
  <2>1. Carries(f, u) /\ u.ra = "done"
    BY <1>1 DEF Frame, Carries
  <2>2. Alike(u.node, f.node)
    BY <1>1 DEF Frame, Inode, Alike
  <2>3. /\ m.data = f.data /\ m.op = f.op /\ m.base = f.node /\ m.slot = f.slot
        /\ m.blk = f.blk /\ m.node = f.node
    BY <1>1 DEF Frame
  <2>4. \A r : Carries(f, a(r)) /\ a(r).node = f.node
    BY <1>1 DEF Frame, Carries
  <2>5. \/ \E ret : Goto(t, "done", a(ret))
        \/ Goto(t, "list", f) \/ Goto(t, "update_inode", u) \/ Goto(t, "lookup", m)
    BY <1>9 DEF resolved, Answer
  <2> HIDE DEF u, m, a
  <2>6. Looks(pc[t], f, "update_inode", u)
    BY <1>9, <2>1, <2>2 DEF Looks, Calm, WritesInode, Carries, resolved, At, Seeking
  <2>7. Looks(pc[t], f, "lookup", m)
    BY <1>9, <2>3 DEF resolved, At, Looks, Calm, Alike, Seeking
  <2> QED
    BY <1>2, <1>3, <1>9, <2>4, <2>5, <2>6, <2>7 DEF resolved, At, Seeking
<1>10. CASE list(t)
  <2> DEFINE a == [f EXCEPT !.ret = "ok"]
             got(data) == [f EXCEPT !.data = data, !.ret = "ok"]
  <2>1. Carries(f, a) /\ a.node = f.node
    BY <1>1 DEF Frame, Carries
  <2>2. ASSUME NEW d PROVE /\ got(d).data = d /\ got(d).op = f.op /\ got(d).base = f.base
                           /\ got(d).slot = f.slot /\ got(d).blk = f.blk
                           /\ got(d).node = f.node
    BY <1>1 DEF Frame
  <2>3. Die \/ Goto(t, "done", a) \/ \E data \in Buffers : Goto(t, "done", got(data))
    BY <1>10 DEF list, Answer
  <2> HIDE DEF a, got
  <2>4. ASSUME NEW d \in Buffers PROVE Looks(pc[t], f, "done", got(d))
    BY <1>10, <2>2 DEF list, At, Looks, Calm, Alike, Seeking
  <2> QED
    BY <1>3, <1>10, <2>1, <2>3, <2>4 DEF list, At, Seeking
<1>11. CASE named(t)
  <2> DEFINE g == [f EXCEPT !.node = NewInode(superblock.s_free_inode, f.op),
                            !.ra = "inode_written"]
             a(ret) == [f EXCEPT !.ret = ret]
  <2>1. /\ Carries(f, g) /\ g.path = f.path /\ g.ra = "inode_written"
        /\ g.node = NewInode(superblock.s_free_inode, f.op)
    BY <1>1 DEF Frame, Carries
  <2>2. \A r : Carries(f, a(r)) /\ a(r).node = f.node
    BY <1>1 DEF Frame, Carries
  <2>3. (\E ret : Goto(t, "done", a(ret))) \/ Goto(t, "update_inode", g)
    BY <1>11 DEF named, Answer
  <2> HIDE DEF g, a
  <2>4. pc[t] = "named"
    BY <1>11 DEF named, At
  <2>5. Starts(pc[t], f, "update_inode", g)
    BY <2>1, <2>4 DEF Starts
  <2> QED
    BY <1>3, <2>2, <2>3, <2>4, <2>5 DEF Seeking
<1>12. CASE update_inode(t) \/ write_inode(t)
  <2>1. pc[t] \in {"update_inode", "write_inode"}
    BY <1>12 DEF update_inode, write_inode, At
  <2>2. f.ra = "done"
    BY <2>1 DEF Calm
  <2>3. Goto(t, "write_inode", f) \/ Goto(t, "done", f)
    BY <1>12, <2>2 DEF update_inode, write_inode
  <2>4. Looks(pc[t], f, "write_inode", f) /\ Looks(pc[t], f, "done", f)
    BY <2>1, <2>2 DEF Looks, Calm, WritesInode, Alike, Seeking
  <2> QED
    BY <2>3, <2>4
<1>13. CASE done(t)
  <2>1. Looks(pc[t], f, "idle", Idle)
    <3>1. Idle.base = ZeroInode /\ Idle.node = ZeroInode /\ Idle.data = ZeroBlock
          /\ Idle.slot = 0 /\ Idle.blk = 0
      BY DEF Idle
    <3> QED
      BY <1>2, <1>13, <3>1 DEF done, At, Looks, Calm, Alike, Seeking
  <2> QED
    BY <1>13, <2>1 DEF done
<1>14. pc[t] \notin {"update_superblock", "write_superblock", "inode_written", "bump_inode",
                   "dir_block", "dir_put", "dir_iblock", "dir_written", "bump_block",
                   "dir_free", "slot", "link"}
  BY DEF Calm, WritesInode
<1> QED
  BY <1>4, <1>5, <1>6, <1>7, <1>8, <1>9, <1>10, <1>11, <1>12, <1>13, <1>14
     DEF Step, update_superblock, write_superblock, inode_written, bump_inode, dir_block,
         dir_put, dir_iblock, dir_written, bump_block, dir_free, slot, link, At

\* The steps of new_inode, of new_empty_dir and of the linking, in their order.
Makes(l, f, k, g) ==
    /\ g.op = f.op /\ g.path = f.path /\ g.base = f.base
    /\ g.node = IF l = "dir_iblock" THEN [f.node EXCEPT !.i_block = superblock.s_free_block]
                ELSE f.node
    /\ l # "slot" => g.slot = f.slot /\ g.data = f.data
    /\ l \notin {"dir_block", "dir_put", "slot"} => g.blk = f.blk
    /\ l = "update_inode" => k = "write_inode" /\ g.ra = f.ra
    /\ l = "update_superblock" => k = "write_superblock" /\ g.ra = f.ra
    /\ l \in {"write_inode", "write_superblock"} => k = f.ra
    /\ l = "inode_written" => k = "bump_inode" /\ g.n = superblock.s_free_inode + 1
    /\ l = "bump_inode" => /\ k = "update_superblock"
                           /\ g.ra = IF f.op = "create" THEN "slot" ELSE "dir_block"
    /\ l = "dir_block" => k = "dir_put" /\ g.blk = superblock.s_free_block
    /\ l = "dir_put" => k = "dir_iblock" /\ g.blk = 0
    /\ l = "dir_iblock" => k = "update_inode" /\ g.ra = "dir_written"
    /\ l = "dir_written" => k = "bump_block" /\ g.n = superblock.s_free_block + 1
    /\ l = "bump_block" => k = "update_superblock" /\ g.ra = "dir_free"
    /\ l = "dir_free" => k = "slot" /\ f.op # "init"
    /\ l = "slot" =>
         /\ k = "link" /\ g.data \in Buffers
         /\ \/ g.slot = f.slot /\ g.blk = f.blk
            \/ /\ f.base.i_block # 0 /\ g.blk = f.base.i_block
               /\ Downloaded(f.base.i_block, g.data)
               /\ First(FreeSlots(g.data), g.slot) /\ g.slot \in Slot
    /\ l = "link" => k = "done"

LEMMA MakeFrame ==
  ASSUME TypeOK, NEW t \in Thread, Step(t), Creating(pc[t], frame[t])
  PROVE  \/ Die
         \/ At(t, "dir_free") /\ frame[t].op = "init" /\ Goto(t, "idle", Idle)
         \/ \E k, g : Goto(t, k, g) /\ Makes(pc[t], frame[t], k, g)
<1> DEFINE f == frame[t]
           Moves == \E k, g : Goto(t, k, g) /\ Makes(pc[t], f, k, g)
<1>1. f \in Frame /\ f.node \in Inode
  BY ThreadFrame DEF Frame
<1>2. ASSUME NEW l \in {"update_inode", "update_superblock", "write_inode",
                        "write_superblock"}, At(t, l),
             Goto(t, IF l = "update_inode" THEN "write_inode"
                     ELSE IF l = "update_superblock" THEN "write_superblock" ELSE f.ra, f)
      PROVE  Moves
  BY <1>2 DEF Makes, At
<1>3. CASE update_inode(t) \/ write_inode(t) \/ update_superblock(t) \/ write_superblock(t)
  BY <1>2, <1>3 DEF update_inode, write_inode, update_superblock, write_superblock
<1>4. CASE inode_written(t)
  <2> DEFINE g == [f EXCEPT !.n = superblock.s_free_inode + 1]
  <2>1. Carries(f, g) /\ g.node = f.node /\ g.path = f.path /\ g.n = superblock.s_free_inode + 1
    BY <1>1 DEF Frame, Carries
  <2>2. Goto(t, "bump_inode", g) /\ pc[t] = "inode_written"
    BY <1>4 DEF inode_written, next_inode_no, At
  <2> HIDE DEF g
  <2>3. Makes("inode_written", f, "bump_inode", g)
    BY <2>1 DEF Makes, Carries
  <2> QED
    BY <2>2, <2>3
<1>5. CASE bump_inode(t)
  <2> DEFINE g == [f EXCEPT !.n = 0,
                     !.ra = IF f.op = "create" THEN "slot" ELSE "dir_block"]
  <2>1. /\ Carries(f, g) /\ g.node = f.node /\ g.path = f.path
        /\ g.ra = IF f.op = "create" THEN "slot" ELSE "dir_block"
    BY <1>1 DEF Frame, Carries
  <2>2. Goto(t, "update_superblock", g) /\ pc[t] = "bump_inode"
    BY <1>5 DEF bump_inode, At
  <2> HIDE DEF g
  <2>3. Makes("bump_inode", f, "update_superblock", g)
    BY <2>1 DEF Makes, Carries
  <2> QED
    BY <2>2, <2>3
<1>6. CASE dir_block(t)
  <2> DEFINE g == [f EXCEPT !.blk = superblock.s_free_block]
  <2>1. /\ g.op = f.op /\ g.path = f.path /\ g.base = f.base /\ g.node = f.node
        /\ g.slot = f.slot /\ g.data = f.data /\ g.blk = superblock.s_free_block
    BY <1>1 DEF Frame
  <2>2. Goto(t, "dir_put", g) /\ pc[t] = "dir_block"
    BY <1>6 DEF dir_block, At
  <2> HIDE DEF g
  <2>3. Makes("dir_block", f, "dir_put", g)
    BY <2>1 DEF Makes
  <2> QED
    BY <2>2, <2>3
<1>7. CASE dir_put(t)
  <2> DEFINE g == [f EXCEPT !.blk = 0]
  <2>1. /\ g.op = f.op /\ g.path = f.path /\ g.base = f.base /\ g.node = f.node
        /\ g.slot = f.slot /\ g.data = f.data /\ g.blk = 0
    BY <1>1 DEF Frame
  <2>2. Goto(t, "dir_iblock", g) /\ pc[t] = "dir_put"
    BY <1>7 DEF dir_put, At
  <2> HIDE DEF g
  <2>3. Makes("dir_put", f, "dir_iblock", g)
    BY <2>1 DEF Makes
  <2> QED
    BY <2>2, <2>3
<1>8. CASE dir_iblock(t)
  <2> DEFINE g == [f EXCEPT !.node.i_block = superblock.s_free_block, !.ra = "dir_written"]
  <2>1. /\ Carries(f, g) /\ g.path = f.path /\ g.ra = "dir_written"
        /\ g.node = [f.node EXCEPT !.i_block = superblock.s_free_block]
    BY <1>1 DEF Frame, Carries
  <2>2. Goto(t, "update_inode", g) /\ pc[t] = "dir_iblock"
    BY <1>8 DEF dir_iblock, At
  <2> HIDE DEF g
  <2>3. Makes("dir_iblock", f, "update_inode", g)
    BY <2>1 DEF Makes, Carries
  <2> QED
    BY <2>2, <2>3
<1>9. CASE dir_written(t)
  <2> DEFINE g == [f EXCEPT !.n = superblock.s_free_block + 1]
  <2>1. Carries(f, g) /\ g.node = f.node /\ g.path = f.path /\ g.n = superblock.s_free_block + 1
    BY <1>1 DEF Frame, Carries
  <2>2. Goto(t, "bump_block", g) /\ pc[t] = "dir_written"
    BY <1>9 DEF dir_written, next_data_block_no, At
  <2> HIDE DEF g
  <2>3. Makes("dir_written", f, "bump_block", g)
    BY <2>1 DEF Makes, Carries
  <2> QED
    BY <2>2, <2>3
<1>10. CASE bump_block(t)
  <2> DEFINE g == [f EXCEPT !.n = 0, !.ra = "dir_free"]
  <2>1. Carries(f, g) /\ g.node = f.node /\ g.path = f.path /\ g.ra = "dir_free"
    BY <1>1 DEF Frame, Carries
  <2>2. Goto(t, "update_superblock", g) /\ pc[t] = "bump_block"
    BY <1>10 DEF bump_block, At
  <2> HIDE DEF g
  <2>3. Makes("bump_block", f, "update_superblock", g)
    BY <2>1 DEF Makes, Carries
  <2> QED
    BY <2>2, <2>3
<1>11. CASE dir_free(t)
  <2>1. \/ Die
        \/ f.op # "init" /\ Goto(t, "slot", f)
        \/ f.op = "init" /\ Goto(t, "idle", Idle)
    BY <1>11 DEF dir_free
  <2>2. pc[t] = "dir_free"
    BY <1>11 DEF dir_free, At
  <2>3. f.op # "init" => Makes("dir_free", f, "slot", f)
    BY DEF Makes
  <2> QED
    BY <2>1, <2>2, <2>3 DEF At
<1>12. CASE slot(t)
  <2> DEFINE g(data) == [f EXCEPT !.data = data]
             h(data, i) == [f EXCEPT !.data = data, !.slot = i, !.blk = f.base.i_block]
  <2>1. ASSUME NEW data \in Buffers PROVE Makes("slot", f, "link", g(data))
    <3>1. /\ g(data).op = f.op /\ g(data).path = f.path /\ g(data).base = f.base
          /\ g(data).node = f.node /\ g(data).slot = f.slot /\ g(data).blk = f.blk
          /\ g(data).data = data
      BY <1>1 DEF Frame
    <3> HIDE DEF g
    <3> QED
      BY <2>1, <3>1 DEF Makes
  <2>2. ASSUME NEW data \in Buffers, NEW i \in Slot, f.base.i_block # 0,
               Downloaded(f.base.i_block, data), First(FreeSlots(data), i)
        PROVE  Makes("slot", f, "link", h(data, i))
    <3>1. /\ h(data, i).op = f.op /\ h(data, i).path = f.path /\ h(data, i).base = f.base
          /\ h(data, i).node = f.node /\ h(data, i).slot = i
          /\ h(data, i).blk = f.base.i_block /\ h(data, i).data = data
      BY <1>1 DEF Frame
    <3> HIDE DEF h
    <3> QED
      BY <2>2, <3>1 DEF Makes
  <2>3. \/ Die
        \/ \E data \in Buffers : Goto(t, "link", g(data))
        \/ /\ f.base.i_block # 0
           /\ \E data \in Buffers, i \in Slot :
                /\ Downloaded(f.base.i_block, data) /\ First(FreeSlots(data), i)
                /\ Goto(t, "link", h(data, i))
    BY <1>12, BlockTypes DEF slot
  <2>4. pc[t] = "slot"
    BY <1>12 DEF slot, At
  <2> HIDE DEF g, h
  <2> QED
    BY <2>1, <2>2, <2>3, <2>4
<1>13. CASE link(t)
  <2> DEFINE a(r) == [f EXCEPT !.ret = r]
  <2>1. \A r : Carries(f, a(r)) /\ a(r).node = f.node /\ a(r).path = f.path
    BY <1>1 DEF Frame, Carries
  <2>2. (\E r : Goto(t, "done", a(r))) /\ pc[t] = "link"
    BY <1>13 DEF link, Answer, At
  <2> HIDE DEF a
  <2>3. \A r : Makes("link", f, "done", a(r))
    BY <2>1 DEF Makes, Carries
  <2> QED
    BY <2>2, <2>3
<1>14. pc[t] \notin {"idle", "find", "lookup", "get_inode", "read_inode", "walk", "resolved",
                   "list", "named", "done"}
  BY DEF Creating, Numbered, Advanced, Saved, WritesInode, WritesSuper
<1> QED
  BY <1>3, <1>4, <1>5, <1>6, <1>7, <1>8, <1>9, <1>10, <1>11, <1>12, <1>13, <1>14
     DEF Step, find_inode, lookup, get_inode, read_inode, walk, resolved, list, named, done, At

\* A call looks something up or makes an inode.
LEMMA CalmOrCreating ==
  ASSUME NEW l \in Labels, NEW f, RouteAt(l, f)
  PROVE  Calm(l, f) <=> ~Creating(l, f)
  BY DEF Labels, RouteAt, Calm, Creating, Numbered, Advanced, Saved, WritesInode, WritesSuper

(***************************************************************************)
(* What a step does to the numbers that have a name                        *)
(***************************************************************************)
LEMMA BlockNumbers ==
  /\ Numbers(ZeroBlock) = {}
  /\ \A self, parent : Numbers(EmptyDir(self, parent)) = {}
<1>1. NoEntry.name \notin Name
  BY NameAssumption DEF NoEntry
<1>2. Numbers(ZeroBlock) = {}
  BY <1>1 DEF Numbers, ZeroBlock
<1>3. ASSUME NEW self, NEW parent
      PROVE  Numbers(EmptyDir(self, parent)) = {}
  BY <1>1, NameAssumption DEF Numbers, EmptyDir
<1> QED
  BY <1>2, <1>3

LEMMA BufferNumbers ==
  ASSUME TypeOK, NEW data \in Buffers
  PROVE  Numbers(data) \subseteq AllNumbers
<1>1. CASE data = ZeroBlock
  BY <1>1, BlockNumbers
<1>2. ASSUME NEW b \in DOMAIN store, data \in Partial(store[b])
      PROVE  Numbers(data) \subseteq AllNumbers
  <2>1. store[b] \in Block /\ NoEntry.name \notin Name
    BY NameAssumption DEF TypeOK, NoEntry
  <2>2. \A i \in Slot : \/ data[i] = NoEntry
                       \/ /\ data[i].inode = store[b][i].inode
                          /\ data[i].name \in Name => store[b][i].name \in Name
    BY <1>2, <2>1, PartialEntries
  <2>3. Numbers(data) \subseteq Numbers(store[b])
    BY <2>1, <2>2 DEF Numbers
  <2> QED
    BY <2>3 DEF AllNumbers
<1> QED
  BY <1>1, <1>2 DEF Buffers

LEMMA NumbersNat ==
  ASSUME TypeOK
  PROVE  AllNumbers \subseteq Nat
<1>1. ASSUME NEW data \in Block
      PROVE  Numbers(data) \subseteq Nat
  BY <1>1 DEF Numbers, Block, Entry
<1>2. UNION {Numbers(store[b]) : b \in DOMAIN store} \subseteq Nat
  BY <1>1 DEF TypeOK
<1>3. UNION {Numbers(frame[t].data) : t \in Thread} \subseteq Nat
  BY <1>1 DEF TypeOK, Frame
<1>4. Numbers(block.data) \subseteq Nat
  BY <1>1 DEF TypeOK
<1> QED
  BY <1>2, <1>3, <1>4 DEF AllNumbers

LEMMA LinkedNumbers ==
  ASSUME NEW f \in Frame
  PROVE  Numbers(Linked(f)) \subseteq
           Numbers(f.data) \cup (IF f.slot = 0 THEN {} ELSE {f.node.i_inode_no})
<1> SUFFICES ASSUME NEW i \in Slot, Linked(f)[i].name \in Name, Linked(f)[i].inode # Far
             PROVE  \/ Linked(f)[i].inode \in Numbers(f.data)
                    \/ f.slot # 0 /\ Linked(f)[i].inode = f.node.i_inode_no
  BY DEF Numbers
<1>1. f.data \in [Slot -> Entry]
  BY DEF Frame, Block
<1>2. CASE f.slot = 0
  <2>1. i # 1
    BY <1>1, <1>2 DEF Linked
  <2>2. Linked(f)[i] = f.data[i]
    BY <1>1, <1>2, <2>1 DEF Linked
  <2> QED
    BY <2>2 DEF Numbers
<1>3. CASE f.slot # 0
  <2>1. i = f.slot => Linked(f)[i].inode = f.node.i_inode_no
    BY <1>1, <1>3 DEF Linked
  <2>2. i # f.slot => Linked(f)[i] = f.data[i]
    BY <1>1, <1>3 DEF Linked
  <2> QED
    BY <1>3, <2>1, <2>2 DEF Numbers
<1> QED
  BY <1>2, <1>3

LEMMA StoreNumbers ==
  ASSUME NEW N, AllNumbers \subseteq N, NEW b, NEW data, NEW ret,
         \/ Downloaded(b, data)
         \/ Uploaded(b, data, ret) /\ Numbers(data) \subseteq N
  PROVE  \A x \in DOMAIN store' : Numbers(store'[x]) \subseteq N
<1>1. \A x \in DOMAIN store : Numbers(store[x]) \subseteq N
  BY DEF AllNumbers
<1>2. CASE UNCHANGED store
  BY <1>1, <1>2
<1>3. CASE store' = Stored(b, data) /\ Numbers(data) \subseteq N
  BY <1>1, <1>3 DEF Stored
<1> QED
  BY <1>2, <1>3 DEF Downloaded, Uploaded, PutOk, PutFailed

LEMMA SerialNumbers ==
  ASSUME Serial, TypeOK, NEW t \in Thread, NEW k, NEW g, Goto(t, k, g),
         NEW N, Numbers(g.data) \subseteq N, Numbers(block'.data) \subseteq N,
         \A x \in DOMAIN store' : Numbers(store'[x]) \subseteq N
  PROVE  AllNumbers' \subseteq N
<1>1. \A u \in Thread : frame'[u] = g
  BY DEF Serial, Goto, TypeOK
<1>2. AllNumbers' = (UNION {Numbers(store'[b]) : b \in DOMAIN store'})
                    \cup Numbers(block'.data)
                    \cup (UNION {Numbers(frame'[u].data) : u \in Thread})
  BY DEF AllNumbers, Numbers
<1>3. UNION {Numbers(store'[b]) : b \in DOMAIN store'} \subseteq N
  OBVIOUS
<1>4. UNION {Numbers(frame'[u].data) : u \in Thread} \subseteq N
  BY <1>1
<1> QED
  BY <1>2, <1>3, <1>4

LEMMA DownNumbers ==
  ASSUME NEW stream, Down(stream), DOMAIN store' \subseteq DOMAIN store,
         \A b \in DOMAIN store' : store'[b] = store[b]
  PROVE  AllNumbers' \subseteq AllNumbers
<1>1. AllNumbers' = (UNION {Numbers(store'[b]) : b \in DOMAIN store'})
                    \cup Numbers(block'.data)
                    \cup (UNION {Numbers(frame'[u].data) : u \in Thread})
  BY DEF AllNumbers, Numbers
<1>2. block'.data = ZeroBlock /\ \A u \in Thread : frame'[u].data = ZeroBlock
  BY DEF Down, Idle
<1>3. UNION {Numbers(store'[b]) : b \in DOMAIN store'}
        \subseteq UNION {Numbers(store[b]) : b \in DOMAIN store}
  OBVIOUS
<1> QED
  BY <1>1, <1>2, <1>3, BlockNumbers DEF AllNumbers

LEMMA DieNumbers ==
  ASSUME Die
  PROVE  AllNumbers' \subseteq AllNumbers
  BY DownNumbers DEF Die

\* Only the put of a link names a number.
LEMMA StepNumbers ==
  ASSUME Serial, TypeOK, PlacedInv, NEW t \in Thread, Step(t)
  PROVE  AllNumbers' \subseteq
           AllNumbers \cup (IF At(t, "link") /\ frame[t].slot # 0
                            THEN {frame[t].node.i_inode_no} ELSE {})
<1> DEFINE f == frame[t]
           N == AllNumbers \cup (IF At(t, "link") /\ f.slot # 0
                                 THEN {f.node.i_inode_no} ELSE {})
<1>1. f \in Frame /\ pc[t] \in Labels /\ RouteAt(pc[t], f)
  BY ThreadFrame DEF PlacedInv
<1>2. /\ AllNumbers \subseteq N /\ Numbers(f.data) \subseteq N
      /\ Numbers(block.data) \subseteq N
      /\ \A x \in DOMAIN store : Numbers(store[x]) \subseteq N
      /\ \A data \in Buffers : Numbers(data) \subseteq N
  <2>1. \A data \in Buffers : Numbers(data) \subseteq AllNumbers
    BY BufferNumbers
  <2>2. /\ Numbers(f.data) \subseteq AllNumbers /\ Numbers(block.data) \subseteq AllNumbers
        /\ \A x \in DOMAIN store : Numbers(store[x]) \subseteq AllNumbers
    BY DEF AllNumbers
  <2>3. AllNumbers \subseteq N
    OBVIOUS
  <2> HIDE DEF N
  <2> QED
    BY <2>1, <2>2, <2>3
<1>3. CASE Die
  BY <1>2, <1>3, DieNumbers
<1>4. CASE ~Die
  <2>1. pc[t] \notin {"dir_put", "link"} => UNCHANGED store
    BY <1>4, StepGlobals
  <2>2. Numbers(block'.data) \subseteq N
    <3>1. pc[t] \notin {"dir_block", "dir_free"} => UNCHANGED block
      BY <1>4, StepGlobals
    <3>2. CASE dir_block(t)
      <4>1. \/ block'.data \in Buffers
            \/ \E self, parent : block'.data = EmptyDir(self, parent)
        BY <3>2, BlockTypes DEF dir_block
      <4> QED
        BY <1>2, <4>1, BlockNumbers
    <3>3. CASE dir_free(t)
      <4>1. block'.data \in {block.data, ZeroBlock}
        BY <1>4, <3>3 DEF dir_free, TypeOK
      <4> QED
        BY <1>2, <4>1, BlockNumbers
    <3> QED
      BY <1>2, <3>1, <3>2, <3>3 DEF Step, At, find_inode, lookup, get_inode, read_inode,
         walk, resolved, list, named, update_inode, write_inode, update_superblock,
         write_superblock, inode_written, bump_inode, dir_put, dir_iblock, dir_written,
         bump_block, slot, link, done
  <2>3. \A x \in DOMAIN store' : Numbers(store'[x]) \subseteq N
    <3>1. CASE dir_put(t)
      <4>1. PICK ret : Uploaded(f.blk, block.data, ret)
        BY <3>1 DEF dir_put
      <4> QED
        BY <1>2, <4>1, StoreNumbers
    <3>2. CASE link(t)
      <4>1. PICK ret : Uploaded(f.blk, Linked(f), ret)
        BY <3>2 DEF link
      <4>2. At(t, "link")
        BY <3>2 DEF link
      <4>3. Numbers(Linked(f)) \subseteq N
        BY <1>1, <1>2, <4>2, LinkedNumbers
      <4> QED
        BY <1>2, <4>1, <4>3, StoreNumbers
    <3> QED
      BY <1>2, <2>1, <3>1, <3>2 DEF Step, At, find_inode, lookup, get_inode, read_inode,
         walk, resolved, list, named, update_inode, write_inode, update_superblock,
         write_superblock, inode_written, bump_inode, dir_block, dir_iblock, dir_written,
         bump_block, dir_free, slot, done
  <2>4. \E k, g : Goto(t, k, g) /\ Numbers(g.data) \subseteq N
    <3>1. CASE Calm(pc[t], f)
      <4>1. PICK k, g : Goto(t, k, g) /\ (Looks(pc[t], f, k, g) \/ Starts(pc[t], f, k, g))
        BY <1>4, <3>1, CalmFrame
      <4>2. g.data = f.data \/ g.data \in Buffers
        BY <4>1 DEF Looks, Starts, Carries
      <4> QED
        BY <1>2, <4>1, <4>2
    <3>2. CASE Creating(pc[t], f)
      <4>1. Idle.data = ZeroBlock
        BY DEF Idle
      <4>2. ASSUME NEW k, NEW g, Makes(pc[t], f, k, g)
            PROVE  g.data = f.data \/ g.data \in Buffers
        BY <4>2 DEF Makes
      <4> QED
        BY <1>2, <1>4, <3>2, <4>1, <4>2, MakeFrame, BlockNumbers
    <3> QED
      BY <1>1, <3>1, <3>2, CalmOrCreating
  <2>5. PICK k, g : Goto(t, k, g) /\ Numbers(g.data) \subseteq N
    BY <2>4
  <2> HIDE DEF N
  <2>6. AllNumbers' \subseteq N
    BY <2>2, <2>3, <2>5, SerialNumbers
  <2> QED
    BY <2>6 DEF N
<1> QED
  BY <1>3, <1>4

(***************************************************************************)
(* The invariant, part by part                                             *)
(***************************************************************************)
HasSuper(file) == SuperPos \in DOMAIN file
Counter(file)  == file[SuperPos].s_free_inode
Rooted(file)   == InodePos(1) \in DOMAIN file /\ file[InodePos(1)].i_block # 0
Ready(file)    == HasSuper(file) /\ Rooted(file)

\* While init formats the file: how the root and the first superblock get to it.
InitAt(l, f, s, S) ==
    /\ f.node.i_inode_no = 1
    /\ Creating(l, f) /\ l \notin {"slot", "link"}
    /\ WritesSuper(l) => f.ra # "slot"
    /\ S.s_free_inode = IF Numbered(l, f) THEN 1 ELSE 2
    /\ l = "bump_inode" => f.n = 2
    /\ Blockless(l, f) => S.s_free_block = 1
    /\ Saved(l, f) => HasSuper(s.view) /\ Counter(s.view) = 2
    /\ ~Blockless(l, f) => f.node.i_block # 0
    /\ Ending(l, f) => Rooted(s.view)
    /\ l = "dir_free" \/ (l = "write_superblock" /\ f.ra = "dir_free") => Ready(s.disk)

\* While the process that formatted it runs, with the numbers N in use.
LiveAt(l, f, s, S, N) ==
    LET no == f.node.i_inode_no
    IN  /\ no = 1 => f.node.i_block # 0
        /\ Creating(l, f) => no >= 2 /\ \A n \in N : n < no
        /\ Numbered(l, f) => no = S.s_free_inode
        /\ l = "bump_inode" => f.n = no + 1
        /\ Advanced(l, f) => /\ S.s_free_inode = no + 1 /\ Counter(s.view) = no
                             /\ l = "write_superblock" => Counter(s.disk) = no
        /\ ~Advanced(l, f) => Counter(s.view) = S.s_free_inode
        /\ Saved(l, f) => no < S.s_free_inode /\ no <= Counter(s.disk)

\* In a process whose root has no block: nothing is found, no slot is.
RootlessAt(l, f) ==
    /\ f.base.i_block = 0 /\ f.slot = 0
    /\ l \notin {"get_inode", "read_inode"}
    /\ l \in {"lookup", "walk", "resolved"} => f.node.i_block = 0

\* In one that has loaded a file with entries, before it asks for a block.
FrozenAt(l, f) ==
    \/ l \in {"idle", "find", "done"}
    \/ WritesInode(l) /\ f.ra = "done" /\ f.node.i_block # 0
    \/ l \in {"resolved", "list"} /\ f.node = root
    \/ l = "lookup" /\ Base(f) = root

PhaseInv ==
    /\ up # "mounted" => root = ZeroInode
    /\ up = "unmounted" => ~mapping.open /\ meta.view = meta.disk
    /\ \A t \in Thread : /\ frame[t].op = "init" <=> up = "init"
                         /\ pc[t] = "idle" => frame[t] = Idle

EmptyInv == up = "init" \/ Rootless => AllNumbers = {}

Covers(file, n) == Ready(file) /\ n <= Counter(file)
CoveredInv == \A n \in AllNumbers : Covers(meta.view, n) /\ Covers(meta.disk, n)

InitInv == up = "init" => /\ superblock.s_log_block_size # 0
                          /\ \A t \in Thread : InitAt(pc[t], frame[t], meta, superblock)

LiveInv == Live =>
    /\ superblock.s_log_block_size # 0 /\ superblock.s_free_inode >= 2
    /\ Ready(meta.view) /\ Ready(meta.disk)
    /\ \A n \in AllNumbers : 1 <= n /\ n < superblock.s_free_inode
    /\ \A t \in Thread : LiveAt(pc[t], frame[t], meta, superblock, AllNumbers)

RootlessInv == Rootless => \A t \in Thread : RootlessAt(pc[t], frame[t])
FrozenInv   == Frozen => \A t \in Thread : FrozenAt(pc[t], frame[t])

NumbersInv == /\ PhaseInv /\ EmptyInv /\ CoveredInv
              /\ InitInv /\ LiveInv /\ RootlessInv /\ FrozenInv

\* All that holds before a step.
Context == TypeOK /\ ControlOK /\ Resting /\ PlacedInv /\ NumbersInv

(***************************************************************************)
(* The steps of a call                                                     *)
(***************************************************************************)
LEMMA WriteView ==
  ASSUME NEW s, ~s.mid,
         NEW r, \/ s.pos = SuperPos /\ r \in Super
                \/ r \in Inode /\ s.pos = InodePos(r.i_inode_no)
  PROVE  /\ Write(s, r).view = [p \in DOMAIN s.view \cup {s.pos} |->
                                  IF p = s.pos THEN r ELSE s.view[p]]
         /\ Write(s, r).disk = s.disk
<1>1. r \in Inode => r \notin Super /\ s.pos # SuperPos
  BY RecordKinds DEF InodePos, SuperPos, Inode
<1>2. Touched(s) = {s.pos} /\ Fits(s, r)
  BY <1>1 DEF Touched, Fits
<1> QED
  BY <1>2 DEF Write

\* The metadata file after a step: what was there is there, but for the record
\* that the step writes.
LEMMA StepFile ==
  ASSUME TypeOK, PlacedInv, NEW t \in Thread, Step(t), ~Die
  PROVE  LET p == InodePos(frame[t].node.i_inode_no)
         IN  /\ At(t, "write_inode") =>
                  /\ meta'.disk = meta.disk
                  /\ meta'.view = [x \in DOMAIN meta.view \cup {p} |->
                                     IF x = p THEN frame[t].node ELSE meta.view[x]]
             /\ At(t, "write_superblock") =>
                  /\ meta'.disk = meta.disk
                  /\ meta'.view = [x \in DOMAIN meta.view \cup {SuperPos} |->
                                     IF x = SuperPos THEN superblock ELSE meta.view[x]]
             /\ ~At(t, "write_inode") /\ ~At(t, "write_superblock") =>
                  meta'.view = meta.view /\ meta'.disk \in {meta.disk, meta.view}
             /\ At(t, "update_superblock") => meta'.view = meta.view /\ meta'.disk = meta.view
             /\ At(t, "update_inode") => meta'.view = meta.view /\ meta'.disk = meta.view
             /\ p # SuperPos
<1> DEFINE p == InodePos(frame[t].node.i_inode_no)
<1>1. /\ frame[t].node \in Inode /\ superblock \in Super
      /\ PositionedAt(pc[t], frame[t], meta)
  BY ThreadFrame DEF Frame, TypeOK, PlacedInv
<1>2. StepMeta(t)
  BY StepGlobals
<1>3. CASE At(t, "write_inode")
  <2>1. meta.pos = p /\ ~meta.mid /\ meta' = Write(meta, frame[t].node)
    BY <1>1, <1>2, <1>3 DEF At, PositionedAt, StepMeta
  <2> QED
    BY <1>1, <1>3, <2>1, WriteView DEF InodePos, SuperPos, Inode, At
<1>4. CASE At(t, "write_superblock")
  <2>1. meta.pos = SuperPos /\ ~meta.mid /\ meta' = Write(meta, superblock)
    BY <1>1, <1>2, <1>4 DEF At, PositionedAt, StepMeta
  <2>2. /\ meta'.disk = meta.disk
        /\ meta'.view = [x \in DOMAIN meta.view \cup {SuperPos} |->
                           IF x = SuperPos THEN superblock ELSE meta.view[x]]
    BY <1>1, <2>1, WriteView
  <2>3. p # SuperPos
    BY <1>1 DEF InodePos, SuperPos, Inode
  <2> QED
    BY <1>4, <2>2, <2>3 DEF At
<1>5. CASE ~At(t, "write_inode") /\ ~At(t, "write_superblock")
  BY <1>1, <1>2, <1>5 DEF At, StepMeta, InodePos, SuperPos, Inode
<1> QED
  BY <1>3, <1>4, <1>5

LEMMA StepUp ==
  ASSUME Resting, NEW t \in Thread, Step(t)
  PROVE  pc[t] # "idle" /\ up # "unmounted"
<1>1. pc[t] # "idle"
  BY DEF Step, find_inode, lookup, get_inode, read_inode, walk, resolved, list, named,
     update_inode, write_inode, update_superblock, write_superblock, inode_written,
     bump_inode, dir_block, dir_put, dir_iblock, dir_written, bump_block, dir_free,
     slot, link, done, At
<1> QED
  BY <1>1 DEF Resting

\* The four ways a step goes on.
LEMMA StepMoves ==
  ASSUME TypeOK, PlacedInv, NEW t \in Thread, Step(t), ~Die
  PROVE  \/ /\ Calm(pc[t], frame[t]) /\ ~Creating(pc[t], frame[t])
            /\ \E k, g : Goto(t, k, g) /\ Looks(pc[t], frame[t], k, g)
         \/ /\ Calm(pc[t], frame[t]) /\ ~Creating(pc[t], frame[t])
            /\ \E k, g : Goto(t, k, g) /\ Starts(pc[t], frame[t], k, g)
         \/ /\ Creating(pc[t], frame[t])
            /\ \E k, g : Goto(t, k, g) /\ Makes(pc[t], frame[t], k, g)
         \/ /\ Creating(pc[t], frame[t])
            /\ At(t, "dir_free") /\ frame[t].op = "init" /\ Goto(t, "idle", Idle)
<1>1. Calm(pc[t], frame[t]) <=> ~Creating(pc[t], frame[t])
  BY CalmOrCreating, ThreadFrame DEF PlacedInv
<1> QED
  BY <1>1, CalmFrame, MakeFrame

LEMMA SerialThread ==
  ASSUME Serial, TypeOK, NEW t \in Thread, NEW k, NEW g, Goto(t, k, g)
  PROVE  \A u \in Thread : pc'[u] = k /\ frame'[u] = g
  BY DEF Serial, Goto, TypeOK

LEMMA DiePhase ==
  ASSUME NEW file, Down(Opened(file)), ~mapping'.open
  PROVE  PhaseInv'
<1>1. Idle.op # "init"
  BY DEF Idle
<1> QED
  BY <1>1 DEF Down, Opened, PhaseInv

LEMMA StepPhase ==
  ASSUME Serial, Context, NEW t \in Thread, Step(t)
  PROVE  PhaseInv'
<1> DEFINE f == frame[t]
<1> USE DEF Context
<1>1. CASE Die
  BY <1>1, DiePhase DEF Die, Dropped
<1>2. CASE ~Die
  <2>1. Idle.op # "init" /\ (f.op = "init" <=> up = "init") /\ up # "unmounted"
        /\ pc[t] \in Labels
    BY StepUp, ThreadFrame DEF NumbersInv, PhaseInv, Idle
  <2>2. up = "init" => Creating(pc[t], f)
    BY DEF NumbersInv, InitInv, InitAt
  <2>3. UNCHANGED <<up, root>>
        \/ (At(t, "dir_free") /\ f.op = "init" /\ up' = "mounted" /\ root' = f.node)
    BY <1>2, StepGlobals
  <2>4. ASSUME NEW k, NEW g, Goto(t, k, g), UNCHANGED <<up, root>>,
               g.op = "init" <=> f.op = "init", k = "idle" => g = Idle
        PROVE  PhaseInv'
    BY <2>1, <2>4, SerialThread DEF NumbersInv, PhaseInv
  <2>5. CASE f.op = "init" /\ At(t, "dir_free") /\ Goto(t, "idle", Idle)
    <3>1. up' = "mounted"
      BY <2>5, <2>1, <1>2 DEF Step, At, find_inode, lookup, get_inode, read_inode, walk,
         resolved, list, named, update_inode, write_inode, update_superblock,
         write_superblock, inode_written, bump_inode, dir_block, dir_put, dir_iblock,
         dir_written, bump_block, dir_free, slot, link, done
    <3> QED
      BY <2>1, <2>5, <3>1, SerialThread DEF PhaseInv
  <2>6. ~(f.op = "init" /\ At(t, "dir_free")) => UNCHANGED <<up, root>>
    BY <2>3
  <2>7. ASSUME NEW k, NEW g, Goto(t, k, g), Looks(pc[t], f, k, g) \/ Starts(pc[t], f, k, g),
               ~Creating(pc[t], f)
        PROVE  PhaseInv'
    BY <2>1, <2>2, <2>4, <2>6, <2>7 DEF Looks, Starts, Carries, Creating, Saved, At
  <2>8. ASSUME NEW k, NEW g, Goto(t, k, g), Makes(pc[t], f, k, g), Creating(pc[t], f)
        PROVE  PhaseInv'
    <3>1. k # "idle" /\ g.op = f.op /\ ~(f.op = "init" /\ At(t, "dir_free"))
      BY <2>8 DEF Makes, At, Creating, Numbered, Advanced, Saved, WritesInode, WritesSuper
    <3> QED
      BY <2>4, <2>6, <2>8, <3>1
  <2> QED
    BY <1>2, <2>5, <2>7, <2>8, StepMoves
<1> QED
  BY <1>1, <1>2

\* What a mounted process that may step is.
LEMMA Phases ==
  ASSUME Context, NEW t \in Thread, Step(t)
  PROVE  \/ up = "init" /\ InitAt(pc[t], frame[t], meta, superblock)
         \/ up = "mounted" /\ Rootless /\ RootlessAt(pc[t], frame[t])
         \/ up = "mounted" /\ Live
            /\ LiveAt(pc[t], frame[t], meta, superblock, AllNumbers)
         \/ up = "mounted" /\ Frozen /\ FrozenAt(pc[t], frame[t])
<1>1. up \in {"init", "mounted"}
  BY StepUp DEF Context, TypeOK
<1> QED
  BY <1>1 DEF Context, NumbersInv, InitInv, RootlessInv, LiveInv, FrozenInv, Rootless, Live, Frozen

\* The process is the same one after its step, but at the end of init.
LEMMA SamePhase ==
  ASSUME Context, NEW t \in Thread, Step(t), ~Die
  PROVE  \/ /\ UNCHANGED <<up, root>>
            /\ mapping.open => mapping'.open
            /\ ~mapping.open /\ mapping'.open => pc[t] \in {"dir_put", "link"}
         \/ /\ At(t, "dir_free") /\ frame[t].op = "init" /\ up = "init"
            /\ up' = "mounted" /\ root' = frame[t].node /\ root'.i_block # 0
<1>1. UNCHANGED <<up, root>>
      \/ /\ At(t, "dir_free") /\ frame[t].op = "init"
         /\ up' = "mounted" /\ root' = frame[t].node
  BY StepGlobals DEF Context
<1>2. frame[t].op = "init" <=> up = "init"
  BY DEF Context, NumbersInv, PhaseInv
<1>3. At(t, "dir_free") /\ up = "init" => frame[t].node.i_block # 0
  BY DEF Context, NumbersInv, InitInv, InitAt, Blockless, Numbered, Advanced, At,
     WritesInode, WritesSuper
<1>4. /\ mapping.open => mapping'.open
      /\ pc[t] \notin {"dir_put", "link"} => mapping'.open = mapping.open
  BY StepGlobals DEF Context
<1> QED
  BY <1>1, <1>2, <1>3, <1>4

LEMMA StepEmpty ==
  ASSUME Serial, Context, NEW t \in Thread, Step(t)
  PROVE  EmptyInv'
<1> DEFINE f == frame[t]
<1>1. CASE Die
  BY <1>1 DEF Die, Down, EmptyInv, Rootless
<1>2. CASE ~Die
  <2> SUFFICES ASSUME up' = "init" \/ Rootless'
               PROVE  AllNumbers' = {}
    BY DEF EmptyInv
  <2>1. up = "init" \/ Rootless
    BY <1>2, SamePhase DEF Rootless
  <2>2. AllNumbers = {}
    BY <2>1 DEF Context, NumbersInv, EmptyInv
  <2>3. ~(At(t, "link") /\ f.slot # 0)
    BY <2>1, Phases DEF InitAt, RootlessAt, At, Context, NumbersInv, InitInv, RootlessInv
  <2> QED
    BY <2>2, <2>3, StepNumbers DEF Context
<1> QED
  BY <1>1, <1>2

LEMMA StepCovered ==
  ASSUME Serial, Context, NEW t \in Thread, Step(t)
  PROVE  CoveredInv'
<1> DEFINE f == frame[t]
           p == InodePos(f.node.i_inode_no)
<1>1. CASE Die
  <2>1. meta'.view = meta.disk /\ meta'.disk = meta.disk
    BY <1>1 DEF Die, Down, Dropped, Opened
  <2>2. AllNumbers' \subseteq AllNumbers
    BY <1>1, DieNumbers
  <2> QED
    BY <2>1, <2>2 DEF CoveredInv, Context, NumbersInv, Covers
<1>2. CASE ~Die
  <2> SUFFICES ASSUME NEW n \in AllNumbers'
               PROVE  Covers(meta'.view, n) /\ Covers(meta'.disk, n)
    BY DEF CoveredInv
  <2>1. n \in AllNumbers \/ (At(t, "link") /\ f.slot # 0 /\ n = f.node.i_inode_no)
    BY StepNumbers DEF Context
  <2>2. f.node \in Inode /\ superblock \in Super
    BY ThreadFrame DEF Context, Frame, TypeOK
  \* The new entry is that of the process that made its inode.
  <2>3. CASE At(t, "link") /\ f.slot # 0 /\ n = f.node.i_inode_no
    <3>1. Live /\ LiveAt(pc[t], f, meta, superblock, AllNumbers)
      BY <2>3, Phases DEF InitAt, RootlessAt, FrozenAt, At, WritesInode
    <3>2. Saved(pc[t], f) /\ ~Advanced(pc[t], f)
      BY <2>3 DEF At, Saved, Advanced, WritesSuper
    <3>3. n < superblock.s_free_inode /\ n <= Counter(meta.disk)
          /\ Counter(meta.view) = superblock.s_free_inode
      BY <2>3, <3>1, <3>2 DEF LiveAt
    <3>4. UNCHANGED meta
      BY <1>2, <2>3, StepGlobals DEF Context, StepMeta, At
    <3>5. Ready(meta.view) /\ Ready(meta.disk)
      BY <3>1 DEF Context, NumbersInv, LiveInv
    <3> QED
      BY <2>2, <2>3, <3>3, <3>4, <3>5 DEF Covers, Inode, Super
  <2>4. CASE n \in AllNumbers
    <3>1. Covers(meta.view, n) /\ Covers(meta.disk, n)
      BY <2>4 DEF Context, NumbersInv, CoveredInv
    <3>2. \/ Live /\ LiveAt(pc[t], f, meta, superblock, AllNumbers)
          \/ FrozenAt(pc[t], f)
      BY <2>4, Phases DEF Context, NumbersInv, EmptyInv
    <3>3. CASE At(t, "write_inode")
      <4>1. p = InodePos(1) => f.node.i_block # 0
        BY <2>2, <3>2, <3>3 DEF LiveAt, FrozenAt, At, WritesInode, InodePos, Inode
      <4>2. p # SuperPos
        BY <2>2 DEF InodePos, SuperPos, Inode
      <4>3. /\ meta'.disk = meta.disk
            /\ meta'.view = [x \in DOMAIN meta.view \cup {p} |->
                               IF x = p THEN f.node ELSE meta.view[x]]
        BY <1>2, <3>3, StepFile DEF Context
      <4> QED
        BY <3>1, <4>1, <4>2, <4>3 DEF Covers, Ready, HasSuper, Rooted, Counter
    <3>4. CASE At(t, "write_superblock")
      <4>1. Live
        BY <3>2, <3>4 DEF FrozenAt, At, WritesInode
      <4>2. n < superblock.s_free_inode /\ 1 <= n
        BY <2>4, <4>1 DEF Context, NumbersInv, LiveInv
      <4>3. InodePos(1) # SuperPos
        BY DEF InodePos, SuperPos
      <4>4. /\ meta'.disk = meta.disk /\ Ready(meta'.view)
            /\ Counter(meta'.view) = superblock.s_free_inode
        BY <1>2, <3>1, <3>4, <4>3, StepFile
           DEF Context, Covers, Ready, HasSuper, Rooted, Counter
      <4>5. n \in Nat /\ superblock.s_free_inode \in Nat
        <5>1. TypeOK
          BY DEF Context
        <5> QED
          BY <2>2, <2>4, <5>1, NumbersNat DEF Super
      <4>6. n <= superblock.s_free_inode
        BY <4>2, <4>5
      <4> QED
        BY <3>1, <3>4, <4>4, <4>6 DEF Covers
    <3> QED
      BY <1>2, <3>1, <3>3, <3>4, StepFile DEF Context
  <2> QED
    BY <2>1, <2>3, <2>4
<1> QED
  BY <1>1, <1>2

\* init: the root is number 1, and its inode and the superblock are on disk when
\* the file system is mounted.
LEMMA StepInit ==
  ASSUME Serial, Context, NEW t \in Thread, Step(t)
  PROVE  InitInv'
<1> DEFINE f == frame[t]
           p == InodePos(f.node.i_inode_no)
<1>1. CASE Die
  BY <1>1 DEF Die, Down, InitInv
<1>2. CASE ~Die
  <2> SUFFICES ASSUME up' = "init"
               PROVE  /\ superblock'.s_log_block_size # 0
                      /\ \A u \in Thread : InitAt(pc'[u], frame'[u], meta', superblock')
    BY DEF InitInv
  <2>1. up = "init" /\ UNCHANGED <<up, root>>
    BY <1>2, SamePhase
  <2>2. /\ superblock.s_log_block_size # 0 /\ InitAt(pc[t], f, meta, superblock)
        /\ f.op = "init"
    BY <2>1 DEF Context, NumbersInv, InitInv, PhaseInv
  <2>3. f.node \in Inode /\ superblock \in Super /\ RouteAt(pc[t], f) /\ pc[t] \in Labels
    BY ThreadFrame DEF Context, Frame, TypeOK, PlacedInv
  <2>4. PICK k, g : Goto(t, k, g) /\ Makes(pc[t], f, k, g)
    <3>1. ~(At(t, "dir_free") /\ Goto(t, "idle", Idle))
      <4>1. ASSUME At(t, "dir_free"), Goto(t, "idle", Idle) PROVE FALSE
        <5>1. up' = "mounted" \/ Goto(t, "slot", f)
          BY <1>2, <4>1 DEF Step, At, find_inode, lookup, get_inode, read_inode, walk,
             resolved, list, named, update_inode, write_inode, update_superblock,
             write_superblock, inode_written, bump_inode, dir_block, dir_put, dir_iblock,
             dir_written, bump_block, dir_free, slot, link, done
        <5>2. "idle" # "slot" /\ Context
          OBVIOUS
        <5>3. ~Goto(t, "slot", f)
          BY <4>1, <5>2 DEF Goto, Context, TypeOK
        <5> QED
          BY <5>1, <5>3
      <4> QED
        BY <4>1
    <3>2. Creating(pc[t], f)
      BY <2>2 DEF InitAt
    <3> QED
      BY <1>2, <3>1, <3>2, StepMoves DEF Context
  <2>5. StepSuper(t) /\ superblock'.s_log_block_size = superblock.s_log_block_size
    BY <1>2, <2>3, StepGlobals DEF Context, StepSuper, Super
  <2>6. InitAt(k, g, meta', superblock')
    <3>1. g.node.i_inode_no = 1
      BY <2>2, <2>3, <2>4 DEF Makes, InitAt, Inode
    <3>2. /\ superblock'.s_free_inode = IF At(t, "bump_inode") THEN f.n
                                       ELSE superblock.s_free_inode
          /\ ~At(t, "bump_block") => superblock'.s_free_block = superblock.s_free_block
      BY <2>3, <2>5 DEF StepSuper, Super, At
    <3>3. /\ HasSuper(meta.view) => HasSuper(meta'.view)
          /\ ~At(t, "write_superblock") /\ HasSuper(meta.view) =>
               Counter(meta'.view) = Counter(meta.view)
          /\ At(t, "write_superblock") =>
               HasSuper(meta'.view) /\ Counter(meta'.view) = superblock.s_free_inode
          /\ ~At(t, "write_inode") /\ Rooted(meta.view) => Rooted(meta'.view)
          /\ At(t, "write_inode") /\ f.node.i_block # 0 => Rooted(meta'.view)
          /\ At(t, "update_superblock") /\ Ready(meta.view) => Ready(meta'.disk)
          /\ At(t, "write_superblock") /\ Ready(meta.disk) => Ready(meta'.disk)
      <4>1. p = InodePos(1) /\ p # SuperPos
        BY <2>2, <2>3 DEF InitAt, InodePos, SuperPos
      <4>2. CASE At(t, "write_inode")
        <5>1. /\ meta'.disk = meta.disk
              /\ meta'.view = [x \in DOMAIN meta.view \cup {p} |->
                                 IF x = p THEN f.node ELSE meta.view[x]]
          BY <1>2, <4>2, StepFile DEF Context
        <5> QED
          BY <4>1, <4>2, <5>1 DEF Ready, HasSuper, Rooted, Counter, At
      <4>3. CASE At(t, "write_superblock")
        <5>1. /\ meta'.disk = meta.disk
              /\ meta'.view = [x \in DOMAIN meta.view \cup {SuperPos} |->
                                 IF x = SuperPos THEN superblock ELSE meta.view[x]]
          BY <1>2, <4>3, StepFile DEF Context
        <5> QED
          BY <4>1, <4>3, <5>1 DEF Ready, HasSuper, Rooted, Counter, At
      <4>4. CASE ~At(t, "write_inode") /\ ~At(t, "write_superblock")
        BY <1>2, <4>4, StepFile DEF Context, At, Ready, HasSuper
      <4> QED
        BY <4>2, <4>3, <4>4
    <3>4. k \notin {"slot", "link"} /\ (WritesSuper(k) => g.ra # "slot") /\ Creating(k, g)
      BY <2>2, <2>3, <2>4 DEF InitAt, Makes, RouteAt, Creating, Numbered, Advanced, Saved,
         WritesInode, WritesSuper
    <3>5. superblock'.s_free_inode = IF Numbered(k, g) THEN 1 ELSE 2
      BY <2>2, <2>3, <2>4, <3>2 DEF InitAt, Makes, RouteAt, Creating, Numbered, Advanced,
         Saved, WritesInode, WritesSuper, At
    <3>6. k = "bump_inode" => g.n = 2
      BY <2>2, <2>3, <2>4 DEF InitAt, Makes, RouteAt, Creating, Numbered, Advanced,
         Saved, WritesInode, WritesSuper
    <3>7. Blockless(k, g) => Blockless(pc[t], f) /\ ~At(t, "bump_block")
      BY <2>2, <2>3, <2>4 DEF InitAt, Makes, RouteAt, Creating, Blockless, Numbered, Advanced,
         Saved, WritesInode, WritesSuper, At
    <3>8. Blockless(k, g) => superblock'.s_free_block = 1
      BY <2>2, <3>2, <3>7 DEF InitAt
    <3>9. Saved(k, g) => Saved(pc[t], f) \/ At(t, "write_superblock")
      BY <2>2, <2>3, <2>4 DEF InitAt, Makes, RouteAt, Creating, Numbered, Advanced,
         Saved, WritesInode, WritesSuper, At
    <3>10. Saved(k, g) => HasSuper(meta'.view) /\ Counter(meta'.view) = 2
      BY <2>2, <3>3, <3>9 DEF InitAt, Numbered, WritesInode, At
    <3>11. ~Blockless(k, g) => g.node.i_block # 0
      <4>1. CASE At(t, "dir_iblock")
        <5>1. superblock.s_free_block = 1
          BY <2>2, <4>1 DEF InitAt, Blockless, At
        <5> QED
          BY <2>3, <2>4, <4>1, <5>1 DEF Makes, At, Inode
      <4>2. CASE ~At(t, "dir_iblock")
        <5>1. ~Blockless(k, g) => ~Blockless(pc[t], f)
          BY <2>2, <2>3, <2>4, <4>2 DEF InitAt, Makes, RouteAt, Creating, Blockless, Numbered,
             Advanced, Saved, WritesInode, WritesSuper, At
        <5>2. g.node = f.node
          BY <2>4, <4>2 DEF Makes, At
        <5> QED
          BY <2>2, <5>1, <5>2 DEF InitAt
      <4> QED
        BY <4>1, <4>2
    <3>12. Ending(k, g) =>
             \/ Ending(pc[t], f) /\ ~At(t, "write_inode")
             \/ At(t, "write_inode") /\ ~Blockless(pc[t], f)
      BY <2>2, <2>3, <2>4 DEF InitAt, Makes, RouteAt, Creating, Blockless, Ending, Numbered,
         Advanced, Saved, WritesInode, WritesSuper, At
    <3>13. Ending(k, g) => Rooted(meta'.view)
      BY <2>2, <3>3, <3>12 DEF InitAt
    <3>14. k = "dir_free" \/ (k = "write_superblock" /\ g.ra = "dir_free") =>
             \/ /\ At(t, "update_superblock")
                /\ Saved(pc[t], f) /\ Ending(pc[t], f)
             \/ At(t, "write_superblock") /\ f.ra = "dir_free"
      BY <2>2, <2>3, <2>4 DEF InitAt, Makes, RouteAt, Creating, Ending, Numbered, Advanced,
         Saved, WritesInode, WritesSuper, At
    <3>15. k = "dir_free" \/ (k = "write_superblock" /\ g.ra = "dir_free") =>
             Ready(meta'.disk)
      BY <2>2, <3>3, <3>14 DEF InitAt, Ready, At
    <3> QED
      BY <3>1, <3>4, <3>5, <3>6, <3>8, <3>10, <3>11, <3>13, <3>15 DEF InitAt
  <2> QED
    BY <2>2, <2>4, <2>5, <2>6, SerialThread DEF Context
<1> QED
  BY <1>1, <1>2

\* The process that formatted the file: the counter is ahead of every entry, and
\* that of the file one allocation behind at most.
LEMMA StepLive ==
  ASSUME Serial, Context, NEW t \in Thread, Step(t)
  PROVE  LiveInv'
<1> DEFINE f == frame[t]
           no == f.node.i_inode_no
           p == InodePos(no)
           S == superblock
<1>0. f.node \in Inode /\ S \in Super /\ RouteAt(pc[t], f) /\ pc[t] \in Labels /\ no \in Nat
  BY ThreadFrame DEF Context, Frame, TypeOK, PlacedInv, Inode
<1>1. CASE Die
  BY <1>1 DEF Die, Down, LiveInv, Live, ZeroInode
<1>2. ASSUME ~Die, At(t, "dir_free"), up = "init", up' = "mounted"
      PROVE  LiveInv'
  <2>1. InitAt(pc[t], f, meta, S) /\ f.op = "init"
    BY <1>2 DEF Context, NumbersInv, InitInv, PhaseInv
  <2>2. UNCHANGED <<S, meta>>
    BY <1>0, <1>2, StepGlobals DEF Context, StepSuper, StepMeta, At
  <2>3. AllNumbers = {}
    BY <1>2 DEF Context, NumbersInv, EmptyInv
  <2>4. AllNumbers' = {}
    BY <1>2, <2>3, StepNumbers DEF Context, At
  <2>5. S.s_log_block_size # 0
    BY <1>2 DEF Context, NumbersInv, InitInv
  <2>6. S.s_free_inode = 2 /\ Ready(meta.view) /\ Ready(meta.disk) /\ Counter(meta.view) = 2
    BY <1>2, <2>1 DEF InitAt, Numbered, WritesInode, Saved, Ending, Ready, At
  <2>7. Goto(t, "idle", Idle)
    <3>1. Creating(pc[t], f)
      BY <2>1 DEF InitAt
    <3>2. ASSUME NEW k, NEW g, Makes(pc[t], f, k, g) PROVE FALSE
      BY <1>2, <2>1, <3>2 DEF Makes, At
    <3> QED
      BY <1>2, <3>1, <3>2, StepMoves DEF Context
  <2>8. LiveAt("idle", Idle, meta, S, {})
    <3>1. Idle.node.i_inode_no = 0
      BY DEF Idle, ZeroInode
    <3> QED
      BY <2>6, <3>1 DEF LiveAt, Creating, Numbered, Advanced, Saved, WritesInode, WritesSuper
  <2> QED
    BY <2>2, <2>4, <2>5, <2>6, <2>7, <2>8, SerialThread DEF Context, LiveInv
<1>3. ASSUME ~Die, Live, UNCHANGED <<up, root>>
      PROVE  LiveInv'
  <2>1. /\ S.s_log_block_size # 0 /\ S.s_free_inode >= 2
        /\ Ready(meta.view) /\ Ready(meta.disk)
        /\ \A n \in AllNumbers : 1 <= n /\ n < S.s_free_inode
        /\ LiveAt(pc[t], f, meta, S, AllNumbers)
    BY <1>3 DEF Context, NumbersInv, LiveInv
  <2>2. /\ Counter(meta.view) \in Nat /\ Counter(meta.disk) \in Nat /\ S.s_free_inode \in Nat
        /\ AllNumbers \subseteq Nat
    <3>1. InPlace(meta.view) /\ InPlace(meta.disk) /\ TypeOK
      BY DEF Context, PlacedInv
    <3> QED
      BY <1>0, <2>1, <3>1, NumbersNat DEF Ready, HasSuper, Counter, InPlace, Super
  <2>3. /\ S'.s_log_block_size = S.s_log_block_size
        /\ S'.s_free_inode = IF At(t, "bump_inode") THEN f.n ELSE S.s_free_inode
    BY <1>0, <1>3, StepGlobals DEF Context, StepSuper, Super, At
  <2>4. At(t, "bump_inode") => f.n = no + 1 /\ no = S.s_free_inode
    BY <2>1 DEF LiveAt, Numbered, At
  <2>5. no = 1 => f.node.i_block # 0
    BY <2>1 DEF LiveAt
  <2>6. S'.s_free_inode \in Nat /\ S'.s_free_inode >= S.s_free_inode
    BY <1>0, <2>2, <2>3, <2>4
  \* The files.
  <2>7. /\ Ready(meta'.view) /\ Ready(meta'.disk)
        /\ meta'.disk \in {meta.disk, meta.view}
        /\ At(t, "update_superblock") => meta'.disk = meta.view
        /\ At(t, "write_superblock") => meta'.disk = meta.disk
        /\ Counter(meta'.view) = IF At(t, "write_superblock") THEN S.s_free_inode
                                 ELSE Counter(meta.view)
    <3>1. p # SuperPos /\ InodePos(1) # SuperPos
      BY <1>0 DEF InodePos, SuperPos
    <3>2. CASE At(t, "write_inode")
      <4>1. /\ meta'.disk = meta.disk
            /\ meta'.view = [x \in DOMAIN meta.view \cup {p} |->
                               IF x = p THEN f.node ELSE meta.view[x]]
        BY <1>3, <3>2, StepFile DEF Context
      <4>2. p = InodePos(1) => f.node.i_block # 0
        BY <1>0, <2>5 DEF InodePos
      <4> QED
        BY <2>1, <3>1, <3>2, <4>1, <4>2 DEF Ready, HasSuper, Rooted, Counter, At
    <3>3. CASE At(t, "write_superblock")
      <4>1. /\ meta'.disk = meta.disk
            /\ meta'.view = [x \in DOMAIN meta.view \cup {SuperPos} |->
                               IF x = SuperPos THEN S ELSE meta.view[x]]
        BY <1>3, <3>3, StepFile DEF Context
      <4> QED
        BY <2>1, <3>1, <3>3, <4>1 DEF Ready, HasSuper, Rooted, Counter, At
    <3>4. CASE ~At(t, "write_inode") /\ ~At(t, "write_superblock")
      BY <1>3, <2>1, <3>4, StepFile DEF Context
    <3> QED
      BY <3>2, <3>3, <3>4
  <2>8. At(t, "link") => Saved(pc[t], f)
    BY DEF At, Saved
  <2>9. ASSUME NEW n \in AllNumbers' PROVE 1 <= n /\ n < S'.s_free_inode
    <3>1. n \in AllNumbers \/ (At(t, "link") /\ n = no)
      BY StepNumbers DEF Context
    <3>2. CASE n \in AllNumbers
      BY <2>1, <2>2, <2>6, <3>2
    <3>3. CASE At(t, "link") /\ n = no
      <4>1. no >= 2 /\ no < S.s_free_inode
        BY <2>1, <2>8, <3>3 DEF LiveAt, Creating
      <4> QED
        BY <1>0, <2>2, <2>6, <3>3, <4>1
    <3> QED
      BY <3>1, <3>2, <3>3
  <2>10. ~At(t, "link") => AllNumbers' \subseteq AllNumbers
    BY StepNumbers DEF Context
  \* The thread.
  <2>11. ASSUME NEW k, NEW g, Looks(pc[t], f, k, g), Calm(pc[t], f), ~Creating(pc[t], f)
         PROVE  LiveAt(k, g, meta', S', AllNumbers')
    <3>1. Calm(k, g) /\ ~Creating(k, g) /\ k # "bump_inode" /\ ~Advanced(k, g)
      BY <2>11 DEF Looks, Calm, Creating, Numbered, Advanced, Saved, WritesInode, WritesSuper
    <3>2. ~At(t, "bump_inode") /\ ~At(t, "write_superblock") /\ ~Advanced(pc[t], f)
      BY <2>11 DEF Calm, Creating, WritesInode, At
    <3>3. Counter(meta'.view) = S'.s_free_inode
      BY <2>1, <2>3, <2>7, <3>2 DEF LiveAt
    <3>4. ASSUME g.node.i_inode_no = 1 PROVE g.node.i_block # 0
      <4>1. PICK i \in {f.node, root, ZeroInode} \cup Inodes(meta.view) : Alike(g.node, i)
        BY <2>11 DEF Looks
      <4>2. i.i_inode_no = 1
        BY <3>4, <4>1 DEF Alike
      <4>3. i \in Inodes(meta.view) => i = meta.view[InodePos(1)]
        <5>1. InPlace(meta.view)
          BY DEF Context, PlacedInv
        <5> QED
          BY <4>2, <5>1 DEF InPlace, Inodes
      <4>4. i.i_block # 0
        BY <1>3, <2>1, <2>5, <4>1, <4>2, <4>3 DEF ZeroInode, Live, Ready, Rooted
      <4> QED
        BY <4>1, <4>4 DEF Alike
    <3> QED
      BY <3>1, <3>3, <3>4 DEF LiveAt, Creating
  <2>12. ASSUME NEW k, NEW g, Starts(pc[t], f, k, g)
         PROVE  LiveAt(k, g, meta', S', AllNumbers')
    <3>1. /\ At(t, "named") /\ k = "update_inode" /\ g.ra = "inode_written"
          /\ g.node.i_inode_no = S.s_free_inode
      BY <2>12 DEF Starts, NewInode, At
    <3>2. ~Advanced(pc[t], f) /\ ~Advanced(k, g) /\ ~Saved(k, g)
      BY <3>1 DEF At, Advanced, Saved, WritesSuper, WritesInode
    <3>3. Counter(meta'.view) = S'.s_free_inode /\ S'.s_free_inode = S.s_free_inode
      BY <2>1, <2>3, <2>7, <3>1, <3>2 DEF LiveAt, At
    <3>4. \A n \in AllNumbers' : n < S.s_free_inode
      BY <2>1, <2>10, <3>1 DEF At
    <3>5. S.s_free_inode # 1
      BY <2>1, <2>2
    <3> QED
      BY <2>1, <3>1, <3>2, <3>3, <3>4, <3>5 DEF LiveAt
  <2>13. ASSUME NEW k, NEW g, Makes(pc[t], f, k, g), Creating(pc[t], f)
         PROVE  LiveAt(k, g, meta', S', AllNumbers')
    <3>1. g.node.i_inode_no = no
      BY <1>0, <2>13 DEF Makes, Inode
    <3>2. no >= 2 /\ no # 1 /\ \A n \in AllNumbers : n < no
      <4>1. no >= 2 /\ \A n \in AllNumbers : n < no
        BY <2>1, <2>13 DEF LiveAt
      <4> QED
        BY <1>0, <4>1
    <3>3. /\ Creating(k, g) => ~At(t, "link")
          /\ Numbered(k, g) => Numbered(pc[t], f) /\ ~At(t, "bump_inode")
          /\ k = "bump_inode" => At(t, "inode_written") /\ Numbered(pc[t], f)
          /\ Advanced(k, g) => \/ At(t, "bump_inode") /\ k = "update_superblock"
                               \/ At(t, "update_superblock") /\ Advanced(pc[t], f)
          /\ ~Advanced(k, g) => \/ At(t, "write_superblock")
                                \/ ~Advanced(pc[t], f) /\ ~At(t, "bump_inode")
          /\ Saved(k, g) => \/ At(t, "write_superblock") /\ Advanced(pc[t], f)
                            \/ Saved(pc[t], f)
      BY <1>0, <2>13 DEF Makes, RouteAt, Creating, Numbered, Advanced, Saved,
         WritesInode, WritesSuper, At
    <3>4. ~(Saved(pc[t], f) /\ (Advanced(pc[t], f) \/ At(t, "bump_inode")))
      BY DEF Advanced, Saved, WritesInode, WritesSuper, At
    <3>5. k = "bump_inode" => g.n = no + 1
      BY <2>1, <2>13, <3>3 DEF LiveAt, Makes, At
    <3>6. Numbered(k, g) => no = S'.s_free_inode
      BY <2>1, <2>3, <3>3 DEF LiveAt
    <3>7. Advanced(k, g) => /\ S'.s_free_inode = no + 1 /\ Counter(meta'.view) = no
                            /\ k = "write_superblock" => Counter(meta'.disk) = no
      <4>1. CASE At(t, "bump_inode") /\ k = "update_superblock"
        <5>1. ~Advanced(pc[t], f)
          BY <4>1 DEF Advanced, WritesSuper, At
        <5> QED
          BY <2>1, <2>3, <2>4, <2>7, <4>1, <5>1 DEF LiveAt, At
      <4>2. CASE At(t, "update_superblock") /\ Advanced(pc[t], f)
        BY <2>1, <2>3, <2>7, <4>2 DEF LiveAt, At
      <4> QED
        BY <3>3, <4>1, <4>2
    <3>8. ~Advanced(k, g) => Counter(meta'.view) = S'.s_free_inode
      BY <2>1, <2>3, <2>7, <3>3 DEF LiveAt, At
    <3>9. Saved(k, g) => no < S'.s_free_inode /\ no <= Counter(meta'.disk)
      <4>1. CASE At(t, "write_superblock") /\ Advanced(pc[t], f)
        <5>1. S.s_free_inode = no + 1 /\ Counter(meta.disk) = no
          BY <2>1, <4>1 DEF LiveAt, At
        <5> QED
          BY <1>0, <2>3, <2>7, <4>1, <5>1 DEF At
      <4>2. CASE Saved(pc[t], f)
        <5>1. /\ no < S.s_free_inode /\ no <= Counter(meta.disk)
              /\ Counter(meta.view) = S.s_free_inode
          BY <2>1, <3>4, <4>2 DEF LiveAt
        <5>2. S'.s_free_inode = S.s_free_inode
          BY <2>3, <3>4, <4>2
        <5>3. no <= Counter(meta.view)
          BY <1>0, <2>2, <5>1
        <5> QED
          BY <2>7, <5>1, <5>2, <5>3
      <4> QED
        BY <3>3, <4>1, <4>2
    <3>10. Creating(k, g) => \A n \in AllNumbers' : n < no
      BY <2>10, <3>2, <3>3
    <3> QED
      BY <3>1, <3>2, <3>5, <3>6, <3>7, <3>8, <3>9, <3>10 DEF LiveAt
  <2>14. \E k, g : Goto(t, k, g) /\ LiveAt(k, g, meta', S', AllNumbers')
    <3>1. ~(At(t, "dir_free") /\ f.op = "init")
      <4>1. up = "mounted"
        BY <1>3 DEF Live, Context, NumbersInv, PhaseInv, ZeroInode
      <4> QED
        BY <4>1 DEF Context, NumbersInv, PhaseInv
    <3> QED
      BY <1>3, <2>11, <2>12, <2>13, <3>1, StepMoves DEF Context
  <2>15. \A u \in Thread : LiveAt(pc'[u], frame'[u], meta', S', AllNumbers')
    BY <2>14, SerialThread DEF Context
  <2>16. S'.s_log_block_size # 0 /\ S'.s_free_inode >= 2
    BY <2>1, <2>2, <2>3, <2>6
  <2> QED
    BY <2>7, <2>9, <2>15, <2>16 DEF LiveInv
<1> QED
  <2> SUFFICES ASSUME ~Die, Live' PROVE LiveInv'
    BY <1>1 DEF LiveInv
  <2>1. CASE UNCHANGED <<up, root>>
    <3>1. CASE Live
      BY <1>3, <2>1, <3>1
    <3>2. CASE ~Live
      <4>1. root.i_block # 0 /\ ~mapping.open /\ mapping'.open
        BY <2>1, <3>2 DEF Live
      <4>2. pc[t] \in {"dir_put", "link"}
        BY <2>1, <4>1, SamePhase
      <4>3. up = "mounted"
        BY <4>1 DEF Context, NumbersInv, PhaseInv, ZeroInode
      <4>4. FrozenAt(pc[t], f)
        BY <4>1, <4>3 DEF Context, NumbersInv, FrozenInv, Frozen
      <4> QED
        BY <4>2, <4>4 DEF FrozenAt, WritesInode
    <3> QED
      BY <3>1, <3>2
  <2>2. CASE At(t, "dir_free") /\ up = "init" /\ up' = "mounted"
    BY <1>2, <2>2
  <2> QED
    BY <2>1, <2>2, SamePhase

\* A process without a block for the root finds nothing and has no slot.
LEMMA StepRootless ==
  ASSUME Serial, Context, NEW t \in Thread, Step(t)
  PROVE  RootlessInv'
<1> DEFINE f == frame[t]
<1>1. CASE Die
  BY <1>1 DEF Die, Down, RootlessInv, Rootless
<1>2. CASE ~Die
  <2> SUFFICES ASSUME Rootless'
               PROVE  \A u \in Thread : RootlessAt(pc'[u], frame'[u])
    BY DEF RootlessInv
  <2>1. Rootless /\ UNCHANGED <<up, root>>
    BY <1>2, SamePhase DEF Rootless
  <2>2. RootlessAt(pc[t], f) /\ root.i_block = 0 /\ up = "mounted" /\ f.op # "init"
    BY <2>1 DEF Context, NumbersInv, RootlessInv, PhaseInv, Rootless
  <2>3. f.node \in Inode /\ RouteAt(pc[t], f) /\ pc[t] \in Labels /\ f \in Frame
    BY ThreadFrame DEF Context, Frame, PlacedInv
  <2>4. ASSUME NEW k, NEW g, Looks(pc[t], f, k, g)
        PROVE  RootlessAt(k, g)
    <3>1. ZeroInode.i_block = 0
      BY DEF ZeroInode
    <3>2. g.slot = 0
      BY <2>2, <2>4 DEF Looks, RootlessAt
    <3>3. g.base.i_block = 0
      BY <2>2, <2>4, <3>1 DEF Looks, RootlessAt
    <3>4. k \notin {"get_inode", "read_inode"}
      BY <2>2, <2>4 DEF Looks, RootlessAt, Base
    <3>5. k \in Seeking => g.node.i_block = 0
      BY <2>2, <2>4, <3>1 DEF Looks, RootlessAt, Seeking, Alike
    <3> QED
      BY <3>2, <3>3, <3>4, <3>5 DEF RootlessAt, Seeking
  <2>5. ASSUME NEW k, NEW g, Starts(pc[t], f, k, g)
        PROVE  RootlessAt(k, g)
    BY <2>2, <2>5 DEF Starts, RootlessAt, Carries
  <2>6. ASSUME NEW k, NEW g, Makes(pc[t], f, k, g), Creating(pc[t], f)
        PROVE  RootlessAt(k, g)
    <3>1. g.base = f.base /\ g.slot = 0
      <4>1. CASE At(t, "slot")
        BY <2>2, <2>6, <4>1 DEF Makes, RootlessAt, At
      <4>2. CASE ~At(t, "slot")
        BY <2>2, <2>6, <4>2 DEF Makes, RootlessAt, At
      <4> QED
        BY <4>1, <4>2
    <3>2. k \notin {"get_inode", "read_inode"} \cup Seeking
      BY <2>3, <2>6 DEF Makes, RouteAt, Creating, Numbered, Advanced, Saved, WritesInode,
         WritesSuper, Seeking
    <3> QED
      BY <2>2, <3>1, <3>2 DEF RootlessAt, Seeking
  <2> QED
    BY <1>2, <2>2, <2>4, <2>5, <2>6, StepMoves, SerialThread DEF Context
<1> QED
  BY <1>1, <1>2

\* A process that has loaded a file with entries has no mapping file open: it
\* answers from the root, or dies.
LEMMA StepFrozen ==
  ASSUME Serial, Context, NEW t \in Thread, Step(t)
  PROVE  FrozenInv'
<1> DEFINE f == frame[t]
<1>1. CASE Die
  BY <1>1 DEF Die, Down, FrozenInv, Frozen
<1>2. ASSUME ~Die, At(t, "dir_free"), f.op = "init"
      PROVE  FrozenInv'
  <2>1. Creating(pc[t], f)
    BY <1>2 DEF Creating, Saved, At
  <2>2. ASSUME NEW k, NEW g, Makes(pc[t], f, k, g) PROVE FALSE
    BY <1>2, <2>2 DEF Makes, At
  <2>3. Goto(t, "idle", Idle)
    BY <1>2, <2>1, <2>2, MakeFrame DEF Context
  <2> QED
    BY <2>3, SerialThread DEF FrozenInv, FrozenAt, Context
<1>3. ASSUME ~Die, Frozen, UNCHANGED <<up, root>>
      PROVE  FrozenInv'
  <2>1. FrozenAt(pc[t], f) /\ root.i_block # 0 /\ ~mapping.open
    BY <1>3 DEF Context, NumbersInv, FrozenInv, Frozen
  <2>2. f \in Frame /\ f.node \in Inode /\ pc[t] # "idle"
    BY StepUp, ThreadFrame DEF Context, Frame
  <2>3. ASSUME NEW b, NEW data, Downloaded(b, data) PROVE FALSE
    BY <2>1, <2>3 DEF Downloaded
  <2>4. ASSUME NEW k, NEW g, Goto(t, k, g), FrozenAt(k, g)
        PROVE  FrozenInv'
    <3>1. \A u \in Thread : pc'[u] = k /\ frame'[u] = g
      BY <2>4, SerialThread DEF Context
    <3>2. root' = root
      BY <1>3
    <3> QED
      BY <2>4, <3>1, <3>2 DEF FrozenInv, FrozenAt, Base
  <2>5. CASE find_inode(t)
    <3> DEFINE path == Target(f)
               g == [f EXCEPT !.node = root, !.found = TRUE]
               h == [f EXCEPT !.node = root, !.comp = Head(path), !.ra = "walk"]
    <3>1. g.node = root /\ h.node = root /\ h.ra = "walk"
      BY <2>2 DEF Frame
    <3>2. Goto(t, "resolved", g) \/ Goto(t, "lookup", h)
      BY <2>5 DEF find_inode
    <3> HIDE DEF g, h
    <3> QED
      BY <2>4, <3>1, <3>2 DEF FrozenAt, Base
  <2>6. CASE lookup(t)
    <3>1. At(t, "lookup") /\ Base(f) = root
      BY <2>1, <2>6 DEF lookup, At, FrozenAt, WritesInode
    <3> QED
      BY <1>3, <2>1, <2>3, <2>6, <3>1 DEF lookup
  <2>7. CASE list(t)
    <3>1. f.node = root
      BY <2>1, <2>7 DEF list, At, FrozenAt, WritesInode
    <3> QED
      BY <1>3, <2>1, <2>3, <2>7, <3>1 DEF list
  <2>8. CASE resolved(t)
    <3> DEFINE u == [f EXCEPT !.node.i_atime = "set", !.ra = "done", !.ret = "ok"]
               m == [f EXCEPT !.base = f.node, !.comp = Last(f.path), !.ra = "named"]
               a(ret) == [f EXCEPT !.ret = ret]
    <3>1. f.node = root
      BY <2>1, <2>8 DEF resolved, At, FrozenAt, WritesInode
    <3>2. u.ra = "done" /\ u.node.i_block = root.i_block
      BY <2>2, <3>1 DEF Frame, Inode
    <3>3. m.ra = "named" /\ m.base = root
      BY <2>2, <3>1 DEF Frame
    <3>4. \/ \E ret : Goto(t, "done", a(ret))
          \/ Goto(t, "list", f) \/ Goto(t, "update_inode", u) \/ Goto(t, "lookup", m)
      BY <2>8 DEF resolved, Answer
    <3> HIDE DEF u, m, a
    <3> QED
      BY <2>1, <2>4, <3>1, <3>2, <3>3, <3>4 DEF FrozenAt, Base, WritesInode
  <2>9. CASE update_inode(t) \/ write_inode(t)
    <3>1. f.ra = "done" /\ f.node.i_block # 0
      BY <2>1, <2>9 DEF update_inode, write_inode, At, FrozenAt
    <3>2. Goto(t, "write_inode", f) \/ Goto(t, "done", f)
      BY <2>9, <3>1 DEF update_inode, write_inode
    <3> QED
      BY <2>4, <3>1, <3>2 DEF FrozenAt, WritesInode
  <2>10. CASE done(t)
    BY <1>3, <2>4, <2>10 DEF done, FrozenAt
  <2>11. pc[t] \in {"find", "done", "update_inode", "write_inode", "resolved", "list", "lookup"}
    BY <2>1, <2>2 DEF FrozenAt, WritesInode
  <2> QED
    BY <2>5, <2>6, <2>7, <2>8, <2>9, <2>10, <2>11 DEF Step, At, get_inode, read_inode, walk,
       named, update_superblock, write_superblock, inode_written, bump_inode, dir_block,
       dir_put, dir_iblock, dir_written, bump_block, dir_free, slot, link
<1> QED
  <2> SUFFICES ASSUME ~Die, Frozen' PROVE FrozenInv'
    BY <1>1 DEF FrozenInv
  <2>1. CASE UNCHANGED <<up, root>>
    <3>1. Frozen
      BY <2>1, SamePhase DEF Frozen
    <3> QED
      BY <1>3, <2>1, <3>1
  <2> QED
    BY <1>2, <2>1, SamePhase

(***************************************************************************)
(* The other steps                                                         *)
(***************************************************************************)
\* The process ends: what is on the server and on disk stays.
LEMMA DownInv ==
  ASSUME NEW file \in {meta.view, meta.disk}, Down(Opened(file)), ~mapping'.open,
         AllNumbers' \subseteq AllNumbers, NumbersInv
  PROVE  NumbersInv'
<1>1. PhaseInv'
  BY DiePhase
<1>2. up' = "unmounted" /\ root' = ZeroInode /\ meta'.view = file /\ meta'.disk = file
  BY DEF Down, Opened
<1>3. CoveredInv'
  BY <1>2 DEF NumbersInv, CoveredInv, Covers
<1>4. ~Live'
  BY DEF Live
<1> QED
  BY <1>1, <1>2, <1>3, <1>4 DEF NumbersInv, EmptyInv, InitInv, LiveInv, RootlessInv, FrozenInv,
     Rootless, Frozen

LEMMA DieInv ==
  ASSUME NumbersInv, Die
  PROVE  NumbersInv'
<1>1. Down(Opened(meta.disk)) /\ ~mapping'.open
  BY DEF Die, Dropped
<1> QED
  BY <1>1, DieNumbers, DownInv

LEMMA StopInv ==
  ASSUME NumbersInv, Unmount \/ Crash
  PROVE  NumbersInv'
<1>1. CASE Die
  BY <1>1, DieInv
<1>2. CASE Down(Closed(meta)) /\ mapping' = [open |-> FALSE, unsaved |-> {}] /\ UNCHANGED store
  <2>1. Down(Opened(meta.view)) /\ ~mapping'.open
    BY <1>2 DEF Closed
  <2>2. AllNumbers' \subseteq AllNumbers
    BY <1>2, DownNumbers
  <2> QED
    BY <2>1, <2>2, DownInv
<1> QED
  BY <1>1, <1>2 DEF Unmount, Crash

LEMMA CallInv ==
  ASSUME Serial, Context, NEW t \in Thread, NEW c \in Calls, Call(t, c)
  PROVE  NumbersInv'
<1>1. CASE Die
  BY <1>1, DieInv DEF Context
<1>2. CASE ~Die
  <2> DEFINE f == [Idle EXCEPT !.op = c.op, !.path = c.path]
             g == [f EXCEPT !.ret = "ok"]
  <2>1. /\ f.op = c.op /\ f.data = ZeroBlock /\ f.slot = 0 /\ f.node = ZeroInode
        /\ f.base = ZeroInode
        /\ g.op = c.op /\ g.data = ZeroBlock /\ g.slot = 0 /\ g.node = ZeroInode
        /\ g.base = ZeroInode
    BY DEF Idle
  <2>2. c.op # "init"
    BY CallsAssumption DEF Mutators, Readers
  <2>3. Goto(t, "find", f) \/ Goto(t, "done", g)
    BY <1>2 DEF Call
  <2>4. UNCHANGED <<up, superblock, root, meta, block, store, mapping>> /\ up = "mounted"
    BY <1>2 DEF Call, remote
  <2> HIDE DEF f, g
  <2>5. PICK k \in {"find", "done"}, h \in {f, g} : Goto(t, k, h)
    BY <2>3
  <2>6. /\ h.op # "init" /\ h.data = ZeroBlock /\ h.slot = 0 /\ h.node = ZeroInode
        /\ h.base = ZeroInode
    BY <2>1, <2>2
  <2>7. \A u \in Thread : pc'[u] = k /\ frame'[u] = h
    BY <2>5, SerialThread DEF Context
  <2>8. AllNumbers' \subseteq AllNumbers
    <3>1. /\ Numbers(h.data) \subseteq AllNumbers /\ Numbers(block'.data) \subseteq AllNumbers
          /\ \A x \in DOMAIN store' : Numbers(store'[x]) \subseteq AllNumbers
      BY <2>4, <2>6, BlockNumbers DEF AllNumbers
    <3> QED
      BY <2>5, <3>1, SerialNumbers DEF Context
  <2>9. PhaseInv'
    BY <2>4, <2>6, <2>7 DEF PhaseInv, Context, NumbersInv
  <2>10. EmptyInv' /\ CoveredInv' /\ InitInv' /\ FrozenInv'
    BY <2>4, <2>7, <2>8 DEF Context, NumbersInv, EmptyInv, CoveredInv, InitInv, FrozenInv,
       FrozenAt, Rootless
  <2>11. RootlessInv'
    <3>1. ZeroInode.i_block = 0
      BY DEF ZeroInode
    <3> QED
      BY <2>5, <2>6, <2>7, <3>1 DEF RootlessInv, RootlessAt
  <2>12. LiveInv'
    <3> SUFFICES ASSUME Live' PROVE LiveInv'
      BY DEF LiveInv
    <3>1. Live
      BY <2>4 DEF Live
    <3>2. Counter(meta.view) = superblock.s_free_inode
      BY <3>1 DEF Call, At, Context, NumbersInv, LiveInv, LiveAt, Advanced, WritesSuper
    <3>3. ~Creating(k, h) /\ ~Numbered(k, h) /\ ~Saved(k, h) /\ ~Advanced(k, h)
          /\ k # "bump_inode"
      BY DEF Creating, Numbered, Advanced, Saved, WritesInode, WritesSuper
    <3>4. LiveAt(k, h, meta, superblock, AllNumbers')
      BY <2>6, <3>2, <3>3 DEF LiveAt, ZeroInode
    <3> QED
      BY <2>4, <2>7, <2>8, <3>1, <3>4 DEF Context, NumbersInv, LiveInv
  <2> QED
    BY <2>9, <2>10, <2>11, <2>12 DEF NumbersInv
<1> QED
  BY <1>1, <1>2

LEMMA MountInv ==
  ASSUME Serial, Context, NEW t \in Thread, Mount(t)
  PROVE  NumbersInv'
<1>1. /\ up = "unmounted" /\ ~mapping.open /\ meta.view = meta.disk /\ root = ZeroInode
      /\ \A u \in Thread : pc[u] = "idle" /\ frame[u] = Idle
  BY DEF Mount, Context, NumbersInv, PhaseInv, Resting
<1>2. UNCHANGED <<block, store, mapping>> /\ ~Live'
  BY <1>1 DEF Mount, remote, Live
<1>3. ZeroInode.i_block = 0 /\ Idle.op # "init" /\ Idle.base = ZeroInode /\ Idle.slot = 0
      /\ Idle.node = ZeroInode /\ Idle.data = ZeroBlock
  BY DEF Idle, ZeroInode
<1>4. CASE meta.disk = Empty
  <2> DEFINE i == NewInode(Fresh.s_free_inode, "init")
             g == [Idle EXCEPT !.op = "init", !.ra = "inode_written", !.node = i]
  <2>1. /\ up' = "init" /\ superblock' = Fresh /\ UNCHANGED <<root, meta>>
        /\ Goto(t, "update_inode", g)
    BY <1>4 DEF Mount
  <2>2. g.op = "init" /\ g.ra = "inode_written" /\ g.node = i /\ g.data = ZeroBlock
    BY <1>3 DEF Idle
  <2>3. i.i_inode_no = 1 /\ i.i_block = 0 /\ Fresh.s_free_inode = 1 /\ Fresh.s_free_block = 1
        /\ Fresh.s_log_block_size # 0
    BY DEF NewInode, Fresh
  <2> HIDE DEF g, i
  <2>4. \A u \in Thread : pc'[u] = "update_inode" /\ frame'[u] = g
    BY <2>1, SerialThread DEF Context
  <2>5. AllNumbers = {}
    BY <1>4 DEF Context, NumbersInv, CoveredInv, Covers, Ready, HasSuper, Empty
  <2>6. AllNumbers' = {}
    <3>1. /\ Numbers(g.data) \subseteq {} /\ Numbers(block'.data) \subseteq {}
          /\ \A x \in DOMAIN store' : Numbers(store'[x]) \subseteq {}
      BY <1>2, <2>2, <2>5, BlockNumbers DEF AllNumbers
    <3> QED
      BY <2>1, <3>1, SerialNumbers DEF Context
  <2>7. InitAt("update_inode", g, meta, Fresh)
    BY <2>2, <2>3 DEF InitAt, Creating, Numbered, Advanced, Saved, Blockless, Ending,
       WritesInode, WritesSuper
  <2>8. PhaseInv'
    BY <1>1, <2>1, <2>2, <2>4 DEF PhaseInv
  <2>9. InitInv'
    BY <2>1, <2>3, <2>4, <2>7 DEF InitInv
  <2> QED
    BY <1>2, <2>1, <2>6, <2>8, <2>9 DEF NumbersInv, EmptyInv, CoveredInv, LiveInv, RootlessInv,
       FrozenInv, Rootless, Frozen
<1>5. CASE meta.disk # Empty
  <2> DEFINE s == Seek(meta, InodePos(1))
  <2>1. /\ up' = "mounted" /\ root' \in InodesRead(s, ZeroInode) /\ meta' = AfterRead(s)
        /\ UNCHANGED <<pc, frame>>
    BY <1>5 DEF Mount
  <2>2. meta'.view = meta.view /\ meta'.disk = meta.view
    BY <2>1 DEF AfterRead, Seek
  <2>3. AllNumbers' = AllNumbers
    BY <1>2, <2>1 DEF AllNumbers, Numbers
  <2>4. PhaseInv'
    BY <1>1, <1>3, <2>1 DEF PhaseInv
  <2>5. CoveredInv'
    BY <1>1, <2>2, <2>3 DEF Context, NumbersInv, CoveredInv
  <2>6. EmptyInv'
    <3> SUFFICES ASSUME root'.i_block = 0, NEW n \in AllNumbers PROVE FALSE
      BY <2>1, <2>3 DEF EmptyInv, Rootless
    <3>1. Rooted(meta.view)
      BY DEF Context, NumbersInv, CoveredInv, Covers, Ready
    <3>2. s.view = meta.view /\ s.pos = InodePos(1) /\ ~s.mid
      BY DEF Seek
    <3>3. ~AtEnd(s) /\ InodePos(1) # SuperPos /\ InodePos(1) \in DOMAIN meta.view
      BY <3>1, <3>2 DEF AtEnd, Rooted, InodePos, SuperPos
    <3>4. meta.view[InodePos(1)] \in Inode
      BY <3>3 DEF Context, PlacedInv, InPlace
    <3>5. InodesRead(s, ZeroInode) = {meta.view[InodePos(1)]}
      BY <3>2, <3>3, <3>4 DEF InodesRead
    <3> QED
      BY <2>1, <3>1, <3>5 DEF Rooted
  <2>7. RootlessInv' /\ FrozenInv'
    BY <1>1, <1>3, <2>1 DEF RootlessInv, RootlessAt, FrozenInv, FrozenAt
  <2> QED
    BY <1>2, <2>1, <2>4, <2>5, <2>6, <2>7 DEF NumbersInv, InitInv, LiveInv
<1> QED
  BY <1>4, <1>5

LEMMA SameNumbers ==
  ASSUME NumbersInv, UNCHANGED vars
  PROVE  NumbersInv'
<1>1. AllNumbers' = AllNumbers
  BY DEF vars, AllNumbers, Numbers
<1>2. PhaseInv' /\ EmptyInv' /\ CoveredInv'
  BY <1>1 DEF vars, NumbersInv, PhaseInv, EmptyInv, CoveredInv, Rootless
<1>3. InitInv' /\ RootlessInv' /\ FrozenInv'
  BY DEF vars, NumbersInv, InitInv, RootlessInv, FrozenInv, FrozenAt, Base, Rootless, Frozen
<1>4. LiveInv'
  BY <1>1 DEF vars, NumbersInv, LiveInv, Live
<1> QED
  BY <1>2, <1>3, <1>4 DEF NumbersInv

LEMMA NextNumbers ==
  ASSUME Serial, Context, [Next]_vars
  PROVE  NumbersInv'
<1>1. ASSUME NEW t \in Thread, Step(t)
      PROVE  NumbersInv'
  BY <1>1, StepPhase, StepEmpty, StepCovered, StepInit, StepLive, StepRootless, StepFrozen
     DEF NumbersInv
<1>2. CASE UNCHANGED vars
  BY <1>2, SameNumbers DEF Context
<1> QED
  BY <1>1, <1>2, CallInv, MountInv, StopInv DEF Next, Context

LEMMA InitNumbers == Init => NumbersInv
<1> SUFFICES ASSUME Init PROVE NumbersInv
  OBVIOUS
<1>1. AllNumbers = {}
  BY BlockNumbers DEF Init, AllNumbers, Idle
<1>2. Idle.op # "init" /\ up = "unmounted" /\ ~mapping.open /\ root = ZeroInode
      /\ meta.view = meta.disk /\ \A t \in Thread : frame[t] = Idle
  BY DEF Init, Opened, Idle
<1> QED
  BY <1>1, <1>2 DEF NumbersInv, PhaseInv, EmptyInv, CoveredInv, InitInv, LiveInv, RootlessInv,
     FrozenInv, Live, Rootless, Frozen

LEMMA InitContext == Init => Context
  BY InitType, InitPlaced, InitNumbers DEF Context

LEMMA NextContext == Serial /\ Context /\ [Next]_vars => Context'
<1> SUFFICES ASSUME Serial, Context, [Next]_vars PROVE Context'
  OBVIOUS
<1>1. TypeOK' /\ ControlOK' /\ Resting' /\ PlacedInv'
  BY NextType, NextControl, NextResting, NextPlaced DEF Context
<1> QED
  BY <1>1, NextNumbers DEF Context

\* The number of an entry is one of AllNumbers.
LEMMA LinkNumbers == \A l \in Links : Link(l).inode \in AllNumbers
<1> SUFFICES ASSUME NEW l \in Links PROVE Link(l).inode \in AllNumbers
  OBVIOUS
<1>1. /\ l[1] \in DOMAIN store /\ l[2] \in Slot /\ Link(l) = store[l[1]][l[2]]
      /\ Link(l).name \in Name /\ Link(l).inode # Far
  BY DEF Links, Link
<1>2. Link(l).inode \in Numbers(store[l[1]])
  BY <1>1 DEF Numbers
<1> QED
  BY <1>1, <1>2 DEF AllNumbers

(***************************************************************************)
(* The theorems                                                            *)
(***************************************************************************)
\* next_inode_no: with one thread, while the process that formatted the file
\* system runs, the number it will hand out next is above that of every entry,
\* whatever transfers have failed.
THEOREM SerialFresh == Serial /\ Spec => []NumbersFresh
<1> SUFFICES ASSUME Serial PROVE Spec => []NumbersFresh
  OBVIOUS
<1>1. Context /\ [Next]_vars => Context'
  BY NextContext
<1>2. Context => NumbersFresh
  BY LinkNumbers DEF Context, NumbersInv, LiveInv, Live, NumbersFresh
<1> QED
  BY <1>1, <1>2, InitContext, PTL DEF Spec

\* new_inode: with one thread, and wherever the process dies, the counter in the
\* metadata file is at most one allocation behind the entries on the server.
THEOREM SerialCounterLags == Serial /\ Spec => []CounterLagsByOne
<1> SUFFICES ASSUME Serial PROVE Spec => []CounterLagsByOne
  OBVIOUS
<1>1. Context /\ [Next]_vars => Context'
  BY NextContext
<1>2. Context => CounterLagsByOne
  BY LinkNumbers DEF Context, NumbersInv, CoveredInv, Covers, Counter, CounterLagsByOne
<1> QED
  BY <1>1, <1>2, InitContext, PTL DEF Spec
=============================================================================
