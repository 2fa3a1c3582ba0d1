-------------------------- MODULE SdiskFsProperties --------------------------
(***************************************************************************)
(* What the file system of sdisk.c should guarantee.                       *)
(***************************************************************************)
EXTENDS SdiskFs

Labels == {"idle", "find", "lookup", "get_inode", "read_inode", "walk", "resolved",
           "list", "named", "update_inode", "write_inode", "update_superblock",
           "write_superblock", "inode_written", "bump_inode", "dir_block",
           "dir_put", "dir_iblock", "dir_written", "bump_block", "dir_free",
           "slot", "link", "done"}

Frame == [op : Mutators \cup Readers \cup {"init", "none"}, path : Seq(Name),
          node : Inode, base : Inode, comp : Name \cup {NoName}, found : BOOLEAN,
          ra : Labels, n : Nat, blk : Nat, slot : 0..NSlots, data : Block,
          ret : {"none", "ok", "ENOENT", "EEXIST", "driver"}]

\* Every variable has the type its declaration in the C code gives it.
TypeOK ==
    /\ up \in {"unmounted", "init", "mounted"}
    /\ superblock \in Super
    /\ root \in Inode
    /\ IsStream(meta)
    /\ DOMAIN store \subseteq Nat /\ store \in [DOMAIN store -> Block]
    /\ mapping \in [open : BOOLEAN, unsaved : SUBSET Nat]
    /\ strtok \in [rest : Seq(Name), owner : SUBSET Thread]
    /\ block \in [data : Block, freed : BOOLEAN]
    /\ pc \in [Thread -> Labels]
    /\ frame \in [Thread -> Frame]
    /\ \A t \in Thread : frame[t].op \in Mutators => frame[t].path # <<>>
    /\ faults \in Nat

\* Who is where: only a call that changes a directory links, and only such a
\* call or init allocates.
Making == {"inode_written", "bump_inode", "update_superblock", "write_superblock",
           "dir_block", "dir_put", "dir_iblock", "dir_written", "bump_block", "dir_free"}
Places(t) == {pc[t], frame[t].ra}

ControlOK ==
    \A t \in Thread :
        /\ Places(t) \cap {"named", "slot", "link"} # {} => frame[t].op \in Mutators
        /\ Places(t) \cap Making # {} => frame[t].op \in Mutators \cup {"init"}

(***************************************************************************)
(* The tree the blocks and the inodes describe                             *)
(***************************************************************************)
\* The entries of the directories, as <<block, slot>>.  Block 0 is no block of
\* a directory: a full one, and one without a block, send their copy there.
\* What an overrun left in such a copy is no entry, wherever it gets from there.
Link(l) == store[l[1]][l[2]]
Links   == {l \in (DOMAIN store \ {0}) \X Slot :
              Link(l).name \in Name /\ Link(l).inode # Far}

InodeOf(n) == IF InodePos(n) \in DOMAIN meta.view /\ meta.view[InodePos(n)] # Torn
              THEN meta.view[InodePos(n)] ELSE ZeroInode

\* The numbers a name has in directory n: one, that of its first entry, or none.
\* A directory whose inode has no block (i_block is 0) has no entries.
Child(n, name) ==
    {Link(l).inode :
       l \in {k \in ({InodeOf(n).i_block} \cap (DOMAIN store \ {0})) \X Slot :
                First(Matches(store[k[1]], name), k[2])}}

\* The numbers a path leads to from the root: one or none.
Resolve(path) ==
    LET at[i \in 0..Len(path)] ==
          IF i = 0 THEN {1} ELSE UNION {Child(n, path[i]) : n \in at[i - 1]}
    IN  at[Len(path)]

(***************************************************************************)
(* Safety with one thread (the -s option of FUSE), whatever transfers fail *)
(* and wherever the process dies                                           *)
(***************************************************************************)
\* next_inode_no: a number that a directory entry holds is not handed out
\* again.  It holds on the mount that formatted the file system, whose
\* superblock is the one in memory.
NumbersFresh ==
    (mapping.open /\ root.i_block # 0) =>
        \A l \in Links : Link(l).inode < superblock.s_free_inode

\* mkdir, create: the inode an entry names is in the metadata file, past any
\* buffer, before put_block sends the entry: no crash leaves a name whose inode
\* is missing.
LinkedInodeDurable ==
    \A l \in Links : InodePos(Link(l).inode) \in DOMAIN meta.disk

\* The metadata file has the superblock init makes.  Without it (a crash before
\* init was through) every block is one byte long and entries overrun them.
Formatted == SuperPos \in DOMAIN meta.disk /\ meta.disk[SuperPos].s_log_block_size # 0

\* new_inode: the counter in the metadata file is at most one allocation
\* behind the entries on the server, wherever the process dies.
CounterLagsByOne ==
    Formatted => \A l \in Links : Link(l).inode <= meta.disk[SuperPos].s_free_inode

\* update_inode: an inode is written to the slot of its own number, and no
\* record of the metadata file is torn by the write of another.
InodesInPlace ==
    \A p \in DOMAIN meta.view :
        IF p = SuperPos THEN meta.view[p] \in Super
        ELSE meta.view[p] \in Inode /\ InodePos(meta.view[p].i_inode_no) = p

(***************************************************************************)
(* Safety with one thread while no transfer fails                          *)
(***************************************************************************)
\* new_inode: two entries never name the same inode.
NumbersUnique ==
    \A l, m \in Links : l # m => Link(l).inode # Link(m).inode

\* empty_dir_slot and the put_block after it: an entry stays where it is, with
\* its inode.  No operation rewrites a directory from a copy that lacks it, and
\* no crash drops the mapping of a block with entries.
EntryKept ==
    [][faults' = 0 /\ root.i_block # 0 =>
         \A l \in Links : /\ l[1] \in DOMAIN store'
                          /\ store'[l[1]][l[2]] = Link(l)]_vars

\* find_inode: the answer is the number the path leads to in the blocks on the
\* server and the inodes in the metadata file.
FindInodeCorrect ==
    \A t \in Thread :
        At(t, "resolved") =>
            Resolve(Target(frame[t])) =
              IF frame[t].found THEN {frame[t].node.i_inode_no} ELSE {}

\* find_inode, whatever other threads do: an inode it answers is one its path
\* leads to.
FoundIsThere ==
    \A t \in Thread :
        At(t, "resolved") /\ frame[t].found =>
            Resolve(Target(frame[t])) = {frame[t].node.i_inode_no}

\* new_empty_dir: the directory an entry names has a block of its own, not the
\* one the entry is in, that leads to itself by "." and to the directory of the entry by "..".
DirsOwnBlocks ==
    faults = 0 => \A l \in Links :
        LET inode == InodeOf(Link(l).inode)
            b     == inode.i_block
        IN  inode.i_mode = "dir" =>
              /\ b \in DOMAIN store /\ b # l[1]
              /\ store[b][1] = [inode |-> Link(l).inode, name |-> "."]
              /\ store[b][2].name = ".."
              /\ InodeOf(store[b][2].inode).i_block = l[1]

(***************************************************************************)
(* What comments say and the code does not do                              *)
(***************************************************************************)
\* "Remove directory": a name that rmdir has removed leads nowhere.
RemovedIsGone ==
    \A t \in Thread :
        At(t, "done") /\ frame[t].op = "rmdir" /\ frame[t].ret = "ok" =>
            Resolve(frame[t].path) = {}

\* "Create new file": a create the kernel is told has succeeded leaves a path
\* that leads somewhere.
CreatedIsThere ==
    \A t \in Thread :
        At(t, "done") /\ frame[t].op = "create" /\ Returned(frame[t]) = "ok" =>
            Resolve(frame[t].path) # {}

\* "Next free inode number": when the process has ended, the counter in the
\* metadata file is a number no entry holds.
NextFreeIsFree ==
    up = "unmounted" =>
        \A l \in Links : /\ SuperPos \in DOMAIN meta.disk
                         /\ Link(l).inode < meta.disk[SuperPos].s_free_inode

(***************************************************************************)
(* The abstract tree                                                       *)
(***************************************************************************)
Paths == {<<>>} \cup {c.path : c \in Calls}

\* Each path the calls speak of that leads somewhere, with what is there.
Nodes ==
    LET ends == UNION {{p} \X Resolve(p) : p \in Paths \ {<<>>}}
    IN  [p \in {<<>>} \cup {e[1] : e \in ends} |->
           IF p = <<>> THEN "dir"
           ELSE InodeOf((CHOOSE e \in ends : e[1] = p)[2]).i_mode]

\* What a thread has answered, once it has.
Told(t) ==
    LET f == frame[t]
    IN  IF ~At(t, "done") THEN [ret |-> "none", kind |-> "none", names |-> {}]
        ELSE [ret   |-> Returned(f),
              kind  |-> IF f.op \notin Mutators /\ f.ret = "ok" THEN f.node.i_mode ELSE "none",
              names |-> IF f.op = "readdir"
                        THEN {f.data[i].name : i \in {j \in Slot : f.data[j].inode # 0}} \cap Name
                        ELSE {}]

Tree == INSTANCE DirTree WITH
          tree   <- Nodes,
          call   <- [t \in Thread |-> IF frame[t].op \in {"none", "init"}
                                     THEN [op |-> "none", path |-> <<>>]
                                     ELSE [op |-> frame[t].op, path |-> frame[t].path]],
          answer <- [t \in Thread |-> Told(t)]

\* mkdir, create, getattr, readdir, open, read and utimens do what DirTree says,
\* each at one moment between its request and its answer; the tree outlives the
\* process.
ImplementsDirTree == Tree!Spec

\* Every operation: a call comes to its end, unless the process does.
CallsReturn == \A t \in Thread : ~At(t, "idle") ~> At(t, "idle")
=============================================================================
