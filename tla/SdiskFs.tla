------------------------------ MODULE SdiskFs ------------------------------
(***************************************************************************)
(* The file system of sdisk.c: the FUSE operations over the metadata file  *)
(* (MetaStream) and the remote directory blocks, with the life of the      *)
(* process around them: init, a crash at any step, unmount, remount.       *)
(*                                                                         *)
(* One step is one access to something the threads share: a seek, a record *)
(* read or written, a block transferred, a call of strtok, a load or store *)
(* of a superblock counter, a use of the global block buffer.  A function  *)
(* called from several places keeps its return address in frame[t].ra.     *)
(*                                                                         *)
(* The driver is an environment here: a transfer succeeds, or it fails,    *)
(* and a get that fails leaves the caller's buffer as malloc returned it   *)
(* or zeroed and filled with what had arrived.                             *)
(***************************************************************************)
EXTENDS Integers, Sequences, FiniteSets, MetaStream

CONSTANTS
  Thread,     \* threads of the FUSE loop
  Name,       \* names of files and directories
  Rest,       \* Rest[n]: the name n without its first character
  Prefixes,   \* Prefixes[n]: the names that are beginnings of the name n
  Calls,      \* the calls the kernel may send: records [op, path]
  NSlots,     \* entries that fit in a directory block
  MaxInode,   \* bound: no call that allocates is sent beyond this number
  MaxFault,   \* bound: transfers that fail although the server has the block
  MayCrash    \* whether the process may be killed at any step

Mutators == {"mkdir", "rmdir", "create", "unlink"}    \* change the parent
Readers  == {"getattr", "readdir", "utimens", "open", "read", "write"}

\* "." and ".." are no names, and no path goes through a regular file.
ASSUME NameAssumption == /\ Name \cap {".", "..", ""} = {}
                         /\ Rest \in [Name -> Name \cup {""}]
                         /\ Prefixes \in [Name -> SUBSET Name]
ASSUME BoundAssumption == /\ NSlots \in Nat /\ NSlots >= 3
                          /\ MaxInode \in Nat /\ MaxFault \in Nat
                          /\ MayCrash \in BOOLEAN
ASSUME CallsAssumption ==
    /\ Calls \subseteq [op : Mutators \cup Readers, path : Seq(Name)]
    /\ \A c \in Calls : c.op \in Mutators => c.path # <<>>
    /\ \A c, d \in Calls :
         /\ c.op = "create"
         /\ Len(d.path) > Len(c.path)
         => SubSeq(d.path, 1, Len(c.path)) # c.path

VARIABLES
  up,          \* the process: "unmounted", "init" or "mounted"
  superblock,  \* struct sdisk_super_block superblock
  root,        \* struct sdisk_inode root: read or made once, in init
  meta,        \* FILE *meta
  store,       \* block number -> directory block, as get_block can reach it
  mapping,     \* the driver's mapping file: open or not, records not flushed
  strtok,      \* the hidden state of strtok: what is left, and whose buffer
  block,       \* char *block, the global block buffer
  pc,          \* pc[t]: where thread t is
  frame,       \* frame[t]: the locals of the call thread t serves
  faults       \* transfers that have failed

vars == <<up, superblock, root, meta, store, mapping, strtok, block, pc,
          frame, faults>>
remote == <<store, mapping, faults>>

(***************************************************************************)
(* Directory blocks                                                        *)
(***************************************************************************)
Slot  == 1..NSlots
Entry == [inode : Nat, name : Name \cup {".", "..", ""}]
Block == [Slot -> Entry]

NoEntry   == [inode |-> 0, name |-> ""]
ZeroBlock == [i \in Slot |-> NoEntry]

\* new_empty_dir, lines 208-221
EmptyDir(self, parent) ==
    [i \in Slot |-> CASE i = 1 -> [inode |-> self, name |-> "."]
                      [] i = 2 -> [inode |-> parent, name |-> ".."]
                      [] OTHER -> NoEntry]

\* What has arrived of an entry.  A number that is cut has no name after it,
\* and no call asks for a name that is empty or no member of Name.
Beginnings(e) ==
    {NoEntry, e}
    \cup {[e EXCEPT !.name = n] :
             n \in {""} \cup CASE e.name \in Name -> Prefixes[e.name]
                               [] e.name = ".."   -> {"."}
                               [] OTHER           -> {}}

\* What wt_callback has made of a buffer when the transfer of a block ends,
\* early or not: the bytes that arrived, then zeros.
Partial(data) ==
    UNION {{[i \in Slot |-> IF i < k THEN data[i] ELSE IF i = k THEN e ELSE NoEntry] :
               e \in Beginnings(data[k])} : k \in Slot}

Buffers == {ZeroBlock} \cup UNION {Partial(store[b]) : b \in DOMAIN store}

\* What malloc may return: zeros, or a block downloaded or built before.
HeapBlocks == IF faults = 0 THEN {ZeroBlock} \cup {store[b] : b \in DOMAIN store}
              ELSE Buffers

\* Mutated: the scan ends one entry early; a slot in use is taken for free.
Matches_short(data, name) == {i \in Slot : data[i].name = name /\ i < NSlots}
FreeSlots_used(data) == Slot \ {1, 2}

Matches(data, name) == {i \in Slot : data[i].name = name}
FreeSlots(data)     == {i \in Slot : data[i].inode = 0}
First(slots, i)     == i \in slots /\ \A j \in slots : i <= j

(***************************************************************************)
(* Calls                                                                   *)
(***************************************************************************)
Front(s) == SubSeq(s, 1, Len(s) - 1)
Last(s)  == s[Len(s)]

\* The path find_inode is given: find_parent_inode cuts the last component.
Target(call) == IF call.op \in Mutators THEN Front(call.path) ELSE call.path

NoName == ""
Idle == [op |-> "none", path |-> <<>>, node |-> ZeroInode, base |-> ZeroInode,
         comp |-> NoName, found |-> FALSE, ra |-> "idle", n |-> 0, blk |-> 0,
         slot |-> 0, data |-> ZeroBlock, ret |-> "none"]

\* Goto(t, l, f): thread t goes on at l with the locals f.
Goto(t, l, f) == /\ pc' = [pc EXCEPT ![t] = l]
                 /\ frame' = [frame EXCEPT ![t] = f]
At(t, l) == pc[t] = l

\* The locals and the globals are gone; what reached the files is not.
Down(stream) ==
    /\ up' = "unmounted"
    /\ superblock' = ZeroSuper
    /\ root' = ZeroInode
    /\ meta' = stream
    /\ strtok' = [rest |-> <<>>, owner |-> {}]
    /\ block' = [data |-> ZeroBlock, freed |-> FALSE]
    /\ pc' = [t \in Thread |-> "idle"]
    /\ frame' = [t \in Thread |-> Idle]
    /\ UNCHANGED faults

Die == /\ Down(Dropped(meta))
       /\ store' = [b \in DOMAIN store \ mapping.unsaved |-> store[b]]
       /\ mapping' = [open |-> FALSE, unsaved |-> {}]

(***************************************************************************)
(* The driver, as its callers see it.  get_block and put_block seek in the *)
(* mapping file, which flushes the record the last put wrote there; the    *)
(* file is opened by the first put whose request the server refuses for    *)
(* its token, and get_block before that dereferences NULL.                 *)
(***************************************************************************)
Remote(b) == b \in DOMAIN store /\ superblock.s_log_block_size # 0

Downloaded(b, data) ==
    /\ mapping.open
    /\ \/ Remote(b) /\ data = store[b] /\ UNCHANGED faults
       \/ ~Remote(b) /\ data \in HeapBlocks /\ UNCHANGED faults
       \/ /\ Remote(b) /\ faults < MaxFault /\ faults' = faults + 1
          /\ data \in HeapBlocks \cup Partial(store[b])
    /\ mapping' = [mapping EXCEPT !.unsaved = {}]
    /\ UNCHANGED store

Stored(b, data) == [x \in DOMAIN store \cup {b} |-> IF x = b THEN data ELSE store[x]]

\* put_block answers "ok" or an error that is no error number of the kernel.
PutOk(b, data) ==
    /\ store' = Stored(b, data)
    /\ mapping' = [open |-> TRUE,
                   unsaved |-> IF b \in DOMAIN store THEN {} ELSE {b}]
    /\ UNCHANGED faults

\* The request was lost, or only its answer was: a file the server already
\* has under this block's identifier may have been replaced.
PutFailed(b, data) ==
    /\ faults < MaxFault /\ faults' = faults + 1
    /\ \/ UNCHANGED store
       \/ b \in DOMAIN store /\ store' = Stored(b, data)
    /\ \E open \in {mapping.open, TRUE} :
         mapping' = [mapping EXCEPT !.open = open]

Uploaded(b, data, ret) ==
    \/ PutOk(b, data) /\ ret = "ok"
    \/ PutFailed(b, data) /\ ret = "driver"

(***************************************************************************)
(* find_inode and find_direct_relative_inode                               *)
(***************************************************************************)
\* strtok(path_buf, "/") on this thread's stack
find_inode(t) ==
    LET path == Target(frame[t])
    IN  /\ At(t, "find")
        /\ IF path = <<>>
           THEN /\ strtok' = [rest |-> <<>>, owner |-> {}]
                /\ Goto(t, "resolved", [frame[t] EXCEPT !.node = root, !.found = TRUE])
           ELSE /\ strtok' = [rest |-> Tail(path), owner |-> {t}]
                /\ Goto(t, "lookup", [frame[t] EXCEPT !.node = root, !.comp = Head(path),
                                                      !.ra = "walk"])
        /\ UNCHANGED <<up, superblock, root, meta, block, remote>>

\* Mutated: every component is searched for in the root.
Base_root(f) == IF f.ra = "walk" THEN root ELSE f.base

\* The directory searched: the inode reached so far, or the parent found.
Base(f) == IF f.ra = "walk" THEN f.node ELSE f.base

lookup(t) ==
    LET f == frame[t]
    IN  /\ At(t, "lookup")
        /\ \/ /\ Base(f).i_block = 0
              /\ Goto(t, f.ra, [f EXCEPT !.found = FALSE])
              /\ UNCHANGED <<up, superblock, root, meta, strtok, block, remote>>
           \/ /\ Base(f).i_block # 0 /\ ~mapping.open
              /\ Die
           \/ /\ Base(f).i_block # 0
              /\ \E data \in Buffers :
                   /\ Downloaded(Base(f).i_block, data)
                   /\ \/ /\ Matches(data, f.comp) = {}
                         /\ Goto(t, f.ra, [f EXCEPT !.found = FALSE])
                      \/ \E i \in Slot :
                           /\ First(Matches(data, f.comp), i)
                           /\ Goto(t, "get_inode", [f EXCEPT !.n = data[i].inode])
              /\ UNCHANGED <<up, superblock, root, meta, strtok, block>>

\* fseek
get_inode(t) ==
    /\ At(t, "get_inode")
    /\ meta' = Seek(meta, InodePos(frame[t].n))
    /\ Goto(t, "read_inode", frame[t])
    /\ UNCHANGED <<up, superblock, root, strtok, block, remote>>

\* fread
read_inode(t) ==
    /\ At(t, "read_inode")
    /\ meta' = AfterRead(meta)
    /\ \E inode \in InodesRead(meta, frame[t].node) :
         Goto(t, frame[t].ra, [frame[t] EXCEPT !.node = inode, !.found = TRUE, !.n = 0])
    /\ UNCHANGED <<up, superblock, root, strtok, block, remote>>

\* What strtok(NULL, "/") goes on with: a path buffer whose function has
\* returned may have been overwritten.
Pending == IF strtok.owner # {} THEN {strtok.rest}
           ELSE {strtok.rest, <<>>} \cup {<<n>> : n \in Name}

walk(t) ==
    /\ At(t, "walk")
    /\ \E rest \in Pending :
         \/ /\ rest # <<>> /\ frame[t].found
            /\ strtok' = [strtok EXCEPT !.rest = Tail(rest)]
            /\ Goto(t, "lookup", [frame[t] EXCEPT !.comp = Head(rest)])
         \/ /\ rest = <<>> \/ ~frame[t].found
            /\ strtok' = [rest  |-> IF rest = <<>> THEN <<>> ELSE Tail(rest),
                          owner |-> strtok.owner \ {t}]
            /\ Goto(t, "resolved", [frame[t] EXCEPT !.found = @ /\ rest = <<>>,
                                                    !.comp = NoName, !.ra = "idle"])
    /\ UNCHANGED <<up, superblock, root, meta, block, remote>>

(***************************************************************************)
(* The operations, once their path is resolved                             *)
(***************************************************************************)
\* Mutated: a path that is not there is looked up again.
Answer_again(t, ret) ==
    IF ret = "ENOENT" THEN Goto(t, "find", [frame[t] EXCEPT !.ra = "idle"])
    ELSE Goto(t, "done", [frame[t] EXCEPT !.ret = ret])

Answer(t, ret) == Goto(t, "done", [frame[t] EXCEPT !.ret = ret])

resolved(t) ==
    LET f == frame[t]
    IN  /\ At(t, "resolved")
        /\ \/ ~f.found /\ Answer(t, "ENOENT")
           \/ f.found /\ f.op \in {"getattr", "open"} /\ Answer(t, "ok")
           \/ f.found /\ f.op \in {"readdir", "read"} /\ Goto(t, "list", f)
           \/ /\ f.found /\ f.op = "utimens"
              /\ Goto(t, "update_inode",
                      [f EXCEPT !.node.i_atime = "set", !.ra = "done", !.ret = "ok"])
           \/ /\ f.found /\ f.op \in Mutators
              /\ Goto(t, "lookup", [f EXCEPT !.base = f.node, !.comp = Last(f.path),
                                             !.ra = "named"])
        /\ UNCHANGED <<up, superblock, root, meta, strtok, block, remote>>

\* readdir, and read: an inode with no block yields nothing.
list(t) ==
    LET f == frame[t]
    IN  /\ At(t, "list")
        /\ \/ /\ f.node.i_block = 0
              /\ Answer(t, "ok")
              /\ UNCHANGED <<up, superblock, root, meta, strtok, block, remote>>
           \/ /\ f.node.i_block # 0 /\ ~mapping.open
              /\ Die
           \/ /\ f.node.i_block # 0
              /\ \E data \in Buffers :
                   /\ Downloaded(f.node.i_block, data)
                   /\ Goto(t, "done", [f EXCEPT !.data = data, !.ret = "ok"])
              /\ UNCHANGED <<up, superblock, root, meta, strtok, block>>

\* The inode new_inode fills in.
NewInode(no, op) == [i_inode_no |-> no, i_block |-> 0, i_atime |-> "created",
                     i_mode |-> IF op = "create" THEN "file" ELSE "dir"]

\* mkdir, rmdir, create: the name was looked up in its parent.
named(t) ==
    LET f == frame[t]
    IN  /\ At(t, "named")
        /\ \/ f.found /\ f.op \in {"mkdir", "create"} /\ Answer(t, "EEXIST")
           \/ ~f.found /\ f.op = "rmdir" /\ Answer(t, "ENOENT")
           \/ /\ f.found <=> f.op = "rmdir"
              /\ Goto(t, "update_inode",
                      [f EXCEPT !.node = NewInode(superblock.s_free_inode, f.op),
                                !.ra = "inode_written"])
        /\ UNCHANGED <<up, superblock, root, meta, strtok, block, remote>>

(***************************************************************************)
(* update_inode and update_superblock: fseek, then fwrite                  *)
(***************************************************************************)
update_inode(t) ==
    /\ At(t, "update_inode")
    /\ meta' = Seek(meta, InodePos(frame[t].node.i_inode_no))
    /\ Goto(t, "write_inode", frame[t])
    /\ UNCHANGED <<up, superblock, root, strtok, block, remote>>

write_inode(t) ==
    /\ At(t, "write_inode")
    /\ meta' = Write(meta, frame[t].node)
    /\ Goto(t, frame[t].ra, frame[t])
    /\ UNCHANGED <<up, superblock, root, strtok, block, remote>>

update_superblock(t) ==
    /\ At(t, "update_superblock")
    /\ meta' = Seek(meta, SuperPos)
    /\ Goto(t, "write_superblock", frame[t])
    /\ UNCHANGED <<up, superblock, root, strtok, block, remote>>

write_superblock(t) ==
    /\ At(t, "write_superblock")
    /\ meta' = Write(meta, superblock)
    /\ Goto(t, frame[t].ra, frame[t])
    /\ UNCHANGED <<up, superblock, root, strtok, block, remote>>

(***************************************************************************)
(* new_inode and new_empty_dir: the inode is written, then the counter     *)
(***************************************************************************)
\* Mutated: the counter is not advanced, or counts down.
next_inode_no_same      == superblock.s_free_inode
next_inode_no_down      == superblock.s_free_inode - 1
next_data_block_no_same == superblock.s_free_block

next_inode_no      == superblock.s_free_inode + 1
next_data_block_no == superblock.s_free_block + 1

inode_written(t) ==
    /\ At(t, "inode_written")
    /\ Goto(t, "bump_inode", [frame[t] EXCEPT !.n = next_inode_no])
    /\ UNCHANGED <<up, superblock, root, meta, strtok, block, remote>>

\* Mutated: the superblock is not written after its counter was advanced.
bump_inode_unsaved(t) ==
    /\ At(t, "bump_inode")
    /\ superblock' = [superblock EXCEPT !.s_free_inode = frame[t].n]
    /\ Goto(t, IF frame[t].op = "create" THEN "slot" ELSE "dir_block",
            [frame[t] EXCEPT !.n = 0])
    /\ UNCHANGED <<up, root, meta, strtok, block, remote>>

bump_inode(t) ==
    /\ At(t, "bump_inode")
    /\ superblock' = [superblock EXCEPT !.s_free_inode = frame[t].n]
    /\ Goto(t, "update_superblock",
            [frame[t] EXCEPT !.n = 0,
               !.ra = IF frame[t].op = "create" THEN "slot" ELSE "dir_block"])
    /\ UNCHANGED <<up, root, meta, strtok, block, remote>>

\* The argument blk_no is read; the global buffer is allocated and filled.
\* With a block size of 1 the two entries overrun it.
dir_block(t) ==
    LET f == frame[t]
        parent == IF f.op = "init" THEN f.node ELSE f.base
    IN  /\ At(t, "dir_block")
        /\ \E data \in IF superblock.s_log_block_size = 0 THEN HeapBlocks
                       ELSE {EmptyDir(f.node.i_inode_no, parent.i_inode_no)} :
             block' = [data |-> data, freed |-> FALSE]
        /\ Goto(t, "dir_put", [f EXCEPT !.blk = superblock.s_free_block])
        /\ UNCHANGED <<up, superblock, root, meta, strtok, remote>>

\* The code of put_block is overwritten by the one of update_inode.
dir_put(t) ==
    /\ At(t, "dir_put")
    /\ \E ret \in {"ok", "driver"} : Uploaded(frame[t].blk, block.data, ret)
    /\ Goto(t, "dir_iblock", [frame[t] EXCEPT !.blk = 0])
    /\ UNCHANGED <<up, superblock, root, meta, strtok, block>>

\* inode->i_block[0] = superblock.s_free_block: the counter is read again.
dir_iblock(t) ==
    /\ At(t, "dir_iblock")
    /\ Goto(t, "update_inode",
            [frame[t] EXCEPT !.node.i_block = superblock.s_free_block,
                             !.ra = "dir_written"])
    /\ UNCHANGED <<up, superblock, root, meta, strtok, block, remote>>

dir_written(t) ==
    /\ At(t, "dir_written")
    /\ Goto(t, "bump_block", [frame[t] EXCEPT !.n = next_data_block_no])
    /\ UNCHANGED <<up, superblock, root, meta, strtok, block, remote>>

bump_block(t) ==
    /\ At(t, "bump_block")
    /\ superblock' = [superblock EXCEPT !.s_free_block = frame[t].n]
    /\ Goto(t, "update_superblock", [frame[t] EXCEPT !.n = 0, !.ra = "dir_free"])
    /\ UNCHANGED <<up, root, meta, strtok, block, remote>>

\* free(block): of a buffer another thread freed, it may abort.
dir_free(t) ==
    /\ At(t, "dir_free")
    /\ \/ block.freed /\ Die
       \/ /\ frame[t].op # "init"
          /\ block' = [block EXCEPT !.freed = TRUE]
          /\ Goto(t, "slot", frame[t])
          /\ UNCHANGED <<up, superblock, root, meta, strtok, remote>>
       \/ /\ frame[t].op = "init"       \* main allocates the buffer again
          /\ up' = "mounted"
          /\ root' = frame[t].node
          /\ block' = [data |-> ZeroBlock, freed |-> FALSE]
          /\ Goto(t, "idle", Idle)
          /\ UNCHANGED <<superblock, meta, strtok, remote>>

(***************************************************************************)
(* Linking the new inode: empty_dir_slot, then the block is put back       *)
(***************************************************************************)
slot(t) ==
    LET f == frame[t]
    IN  /\ At(t, "slot")
        /\ \/ /\ f.base.i_block = 0
              /\ \E data \in HeapBlocks : Goto(t, "link", [f EXCEPT !.data = data])
              /\ UNCHANGED <<up, superblock, root, meta, strtok, block, remote>>
           \/ /\ f.base.i_block # 0 /\ ~mapping.open
              /\ Die
           \/ /\ f.base.i_block # 0
              /\ \E data \in Buffers :
                   /\ Downloaded(f.base.i_block, data)
                   /\ \/ /\ FreeSlots(data) = {}
                         /\ Goto(t, "link", [f EXCEPT !.data = data])
                      \/ \E i \in Slot :
                           /\ First(FreeSlots(data), i)
                           /\ Goto(t, "link", [f EXCEPT !.data = data, !.slot = i,
                                                        !.blk = f.base.i_block])
              /\ UNCHANGED <<up, superblock, root, meta, strtok, block>>

\* The number an overrun leaves, far beyond those in use.
Far == MaxInode

\* With no free slot the entry goes to data - 1, one byte early: the number of
\* the first entry ends far off, and its name is the new one without its first
\* character.
Linked(f) ==
    IF f.slot # 0
    THEN [f.data EXCEPT ![f.slot] = [inode |-> f.node.i_inode_no, name |-> Last(f.path)]]
    ELSE [f.data EXCEPT ![1] = [inode |-> Far, name |-> Rest[Last(f.path)]]]

link(t) ==
    /\ At(t, "link")
    /\ \E ret \in {"ok", "driver"} : Uploaded(frame[t].blk, Linked(frame[t]), ret) /\ Answer(t, ret)
    /\ UNCHANGED <<up, superblock, root, meta, strtok, block>>

\* The entry was written in front of the buffer.
Overran(f) == f.op \in Mutators /\ f.ret \in {"ok", "driver"} /\ f.slot = 0

\* What the kernel is told: sdisk_create returns 0, whatever its return_code.
Returned(f) == IF f.op = "create" THEN "ok" ELSE f.ret

\* free(data) and the return; free finds its header overwritten by an overrun.
done(t) ==
    /\ At(t, "done")
    /\ \/ /\ Goto(t, "idle", Idle)
          /\ UNCHANGED <<up, superblock, root, meta, strtok, block, remote>>
       \/ Overran(frame[t]) /\ Die

(***************************************************************************)
(* The kernel.  It holds the lock of the parent directory during a call    *)
(* that changes it, and of the file during utimens.                        *)
(***************************************************************************)
Locked(c) == IF c.op \in Mutators THEN {Front(c.path)}
             ELSE IF c.op = "utimens" THEN {c.path} ELSE {}

Room(c) == c.op \in Mutators =>
             superblock.s_free_inode
               + Cardinality({u \in Thread : frame[u].op \in Mutators}) < MaxInode

Call(t, c) ==
    /\ At(t, "idle")
    /\ up = "mounted"
    /\ \A u \in Thread : ~At(u, "idle") => Locked(c) \cap Locked(frame[u]) = {}
    /\ Room(c)
    /\ LET f == [Idle EXCEPT !.op = c.op, !.path = c.path]
       IN  \/ /\ c.op \notin {"write", "unlink"}
              /\ Goto(t, "find", f)
              /\ UNCHANGED <<up, superblock, root, meta, strtok, block, remote>>
           \/ /\ c.op = "write"                     \* nothing is written
              /\ Goto(t, "done", [f EXCEPT !.ret = "ok"])
              /\ UNCHANGED <<up, superblock, root, meta, strtok, block, remote>>
           \/ /\ c.op = "unlink"                    \* fprintf to a string literal
              /\ Die

(***************************************************************************)
(* The process                                                             *)
(***************************************************************************)
Fresh == [s_free_inode |-> 1, s_free_block |-> 1, s_log_block_size |-> 10]

\* init: an empty metadata file is formatted, any other is loaded.
Mount(t) ==
    /\ up = "unmounted"
    /\ IF meta.disk = Empty
       THEN /\ up' = "init"
            /\ superblock' = Fresh
            /\ Goto(t, "update_inode",
                    [Idle EXCEPT !.op = "init", !.ra = "inode_written",
                                 !.node = NewInode(Fresh.s_free_inode, "init")])
            /\ UNCHANGED <<root, meta>>
       ELSE /\ up' = "mounted"
            /\ superblock' \in SupersRead(meta.disk)
            /\ root' \in InodesRead(Seek(meta, InodePos(1)), ZeroInode)
            /\ meta' = AfterRead(Seek(meta, InodePos(1)))
            /\ UNCHANGED <<pc, frame>>
    /\ UNCHANGED <<strtok, block, remote>>

\* main returns from fuse_main and frees the block buffer, which every mkdir
\* has left freed.
Unmount ==
    /\ up = "mounted"
    /\ \A t \in Thread : At(t, "idle")
    /\ \/ /\ Down(Closed(meta))
          /\ mapping' = [open |-> FALSE, unsaved |-> {}]
          /\ UNCHANGED store
       \/ block.freed /\ Die

Crash == MayCrash /\ up # "unmounted" /\ Die

Init ==
    /\ up = "unmounted"
    /\ superblock = ZeroSuper
    /\ root = ZeroInode
    /\ meta = Opened(Empty)
    /\ store = [b \in {} |-> ZeroBlock]
    /\ mapping = [open |-> FALSE, unsaved |-> {}]
    /\ strtok = [rest |-> <<>>, owner |-> {}]
    /\ block = [data |-> ZeroBlock, freed |-> FALSE]
    /\ pc = [t \in Thread |-> "idle"]
    /\ frame = [t \in Thread |-> Idle]
    /\ faults = 0

\* What a thread does on its own once a call is under way.
Step(t) ==
    \/ find_inode(t) \/ lookup(t) \/ get_inode(t) \/ read_inode(t) \/ walk(t)
    \/ resolved(t) \/ list(t) \/ named(t)
    \/ update_inode(t) \/ write_inode(t)
    \/ update_superblock(t) \/ write_superblock(t)
    \/ inode_written(t) \/ bump_inode(t)
    \/ dir_block(t) \/ dir_put(t) \/ dir_iblock(t) \/ dir_written(t)
    \/ bump_block(t) \/ dir_free(t)
    \/ slot(t) \/ link(t) \/ done(t)

Next == \/ \E t \in Thread : \/ Step(t)
                             \/ Mount(t)
                             \/ \E c \in Calls : Call(t, c)
        \/ Unmount
        \/ Crash

Spec == Init /\ [][Next]_vars
FairSpec == Spec /\ \A t \in Thread : WF_vars(Step(t))
=============================================================================
