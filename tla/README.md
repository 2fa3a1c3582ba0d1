# SDisk: a verification project

SDisk (`src/`) is a FUSE file system whose blocks live on a web storage service.
The program keeps inodes and a superblock in a local file (`.meta`), the
identifiers of the remote blocks in a second one (`configure/vdisk.map`), and
the contents of directories on the server. "This project is still under
developing", says its README: `write` and `unlink` are stubs, `rmdir` is a copy
of `mkdir`. What the code does is modelled as it is.

The interesting questions are about order. One operation (`mkdir`) touches three
stores that fail and survive separately: the remote blocks, the buffered stream
of `.meta`, and the globals of the process. No lock protects any of them, FUSE
calls from several threads, and the process can die between any two steps.

## 1. The components

| Component | State | Operations | Status |
|---|---|---|---|
| File operations (`sdisk.c`, `fs/sdisk_fs.h`) | `superblock`, `root`, `block`, the hidden state of `strtok`, the directory blocks | the ten FUSE operations, `find_inode`, `new_inode`, `new_empty_dir`, `empty_dir_slot`, `init`, the end of `main` | modelled |
| Metadata file (`.meta`, `FILE *meta`) | one file position, one buffered write, the records on disk | `get_inode`, `update_inode`, `update_superblock` (each a seek and a transfer) | modelled |
| VDisk driver (`driver/vdisk_driver.c`) | `mapping`, `vdisk_errno`, the response buffer of a call | `get_block`, `put_block`, `parse_json_string`, `map_blk_to_fid` | modelled |
| Authentication, `keep_alive` (`driver/vdisk_driver.c`) | `token`, the alarm | `authenticate`, the handler of `SIGALRM` | modelled |
| HTTP poster (`misc/poster.c`) | none | `get`, `post`, `multipart_post`, the callbacks of the driver | modelled as the network of the driver |
| String utilities (`misc/utils.c`) | none | `replace`, `trim`, `lsbPos`, `unquote` | modelled |
| Configuration (`sdisk.c`, `conf/configure.h`) | `globalSettings`, `cloudConfs` | `configure`, `configureDisk` | modelled |
| HMAC-SHA256 (`hmac/`) | the contexts: buffered bytes, lengths, chaining value | `init`, `reinit`, `update`, `final` of four functions | partly: the rounds are left free |
| strmap (`hashtable/strmap.c`) | buckets of pairs, live allocations | `sm_new` ... `sm_enum` | modelled; the Makefile does not compile it |
| uthash and its siblings (`hashtable/uthash-1.9.6`) | | | not modelled: vendored, and no file includes them |
| FUSE and the kernel | | calls, threads, the lock of a directory | external, see 3.5 |

**File operations.** Every operation resolves its path with `find_inode`, which
goes through the path with `strtok` and through the directories with `get_block`
and `get_inode`. `mkdir`, `rmdir` and `create` then look up the name in its
parent, take a number from the superblock, write the inode, advance the counter,
for a directory upload its block and write the inode again, and last link the
name into the parent's block. Correct would be: the tree changes as the
calls say, in one moment; no number or block is given out twice; no entry
is lost; the answer of a lookup is what the tree holds; a crash leaves
no name without its inode. Hard: threads that share every global, a call that
dies half way, a transfer that fails while its caller does not look, a
full directory.

**Metadata file.** Correct would be: a record goes to its own place; what is
read is the record asked for; after a crash the file lags behind by a known
amount. Hard: seek and transfer are two calls on one position; the last write
stays in the buffer until the next seek.

**VDisk driver and authentication.** A block is stored as a remote file;
`put_block` records the identifier the server returns at the block's place in the
mapping file. Correct would be: a get after a put returns what was put; a retry
asks again; a refreshed token is the one used; the timer runs while the token is
good. Hard: `vdisk_errno` is never cleared, `get_block` parses one answer three
times, the handler of `SIGALRM` posts in the middle of a transfer, `mapping`
is `NULL` until a refused request opens it.

**Utilities and configuration.** Pure or run once at the start. Correct would be:
`trim`, `unquote`, `replace` are what their names say on every string; the block
size is the power of two the configuration file asks for. Hard: three of them
read and write one buffer, unknown keys have the index of a known one, and the
layout of records depends on the size of `long`.

**HMAC and strmap.** Correct would be: the MAC of the standard in whatever pieces
the message comes; a dictionary that a failed allocation leaves as it was. Hard:
the last bytes of a block, a context used again, memory that a shorter value keeps,
three allocations of which any may fail.

**How they interact.** The kernel calls the file operations on the threads of FUSE.
They call the driver synchronously and use the metadata stream directly. The
driver calls the poster with two callbacks and, when an answer says the token is
not valid, authenticates in the middle of parsing. The alarm interrupts any of
this. Globals (`superblock`, `root`, `block`, `meta`; `token`, `mapping`,
`vdisk_errno`) carry all shared state.

`PROJECT.json` lists every hazard at its line, with the properties that speak of it.

## 2. The modules

```
 MetaStream        the stream of .meta: records, seek, read, write, disk
   SdiskFs         the file operations over it, the process, the failures
     SdiskFsProperties   invariants, action and liveness properties
       |  Tree == INSTANCE DirTree     the abstract tree, and the mapping to it
       MCSdiskFs         small instances for TLC
       SdiskFsWrites     proofs: types and control, records in place, inodes durable
                         before names
         SdiskFsNumbers    proofs: the counter of inodes is ahead of every entry
           SdiskFsEntries    proofs: one inode to an entry, entries that stay, a block to
                             a directory, find_inode answers where the path leads
             SdiskFsTree       proofs: the file operations implement DirTree

 VdiskDriver       the driver: calls, retries, token, handler, mapping file
   VdiskProperties     invariants and liveness
     |  Store == INSTANCE BlockStore   the abstract store SdiskFs relies on
     MCVdiskDriver
     VdiskProofs         proofs: types, records, the tries of a put, and that the
                         driver implements BlockStore

 MappingFile         the mapping file under several threads, and its properties
   MCMappingFile
   MappingProofs         proofs: the right identifier, records that stay

 Strings, Numbers, Configure     the sequential algorithms
   Algorithms            their inputs, and what they are checked against
     MCAlgorithms

 Sha2                the hash functions' contexts
   HmacSha2              HMAC over them, and the standards
     MCHmacSha2
     HmacProofs            proofs: the MAC is the standard's and no byte is lost, for all
                           sizes and pieces

 StrMap              the hash map;  Dict == INSTANCE Dictionary
   MCStrMap
   StrMapProofs          proofs: sound buckets, no leak, nothing freed twice, a dictionary
```

### 2.1 MetaStream

A stream is a record `[pos, mid, view, disk]`. `view` is what the process reads
back, `disk` what a restart finds; the two differ by what is in the stdio buffer.
`Seek` (`fseek`) flushes; `Write` (`fwrite`) goes to `view` alone; `AfterRead`
and `InodesRead` (`fread`) give the new stream and the inodes that may come out.
Position 0 is the superblock, position n + 1 the inode n, as
`512 + 64 * n` says in the code. A write of the wrong kind at a position, or with
the position inside a record (`mid`), tears records (`Torn`). At the end of the
file `fread` leaves the variable as it was, and so does `InodesRead`. `Closed` is
`exit`, which writes the buffer out; `Dropped` is an abort or a kill.

### 2.2 SdiskFs

One step is one access to something shared: a seek, a transfer of a record or a
block, a call of `strtok`, a load or a store of a counter, a use of the global
`block`. Steps have the names of the functions or of what they do there:

| Action | Code |
|---|---|
| `find_inode`, `walk` | `find_inode`: the first `strtok`, the loop with the next ones |
| `lookup` | `find_direct_relative_inode`: `get_block` and the scan |
| `get_inode`, `read_inode` | `get_inode`: `fseek`, `fread` |
| `resolved`, `named` | the operation after its path, and after the name in the parent |
| `list` | `readdir` and `read`: `get_block` of the inode's block |
| `update_inode`, `write_inode` | `update_inode`: `fseek`, `fwrite` |
| `update_superblock`, `write_superblock` | `update_superblock`: `fseek`, `fwrite` |
| `inode_written`, `bump_inode` | `new_inode`: load and store of `s_free_inode` |
| `dir_block` ... `dir_free` | `new_empty_dir`: allocation and fill of `block`, `put_block`, `i_block[0]`, load and store of `s_free_block`, `free` |
| `slot`, `link`, `done` | `empty_dir_slot`, the `put_block` of the parent's block, `free(data)` and the return |
| `Returned` | the answer of a call; that of `create` is 0, whatever its `return_code` |
| `Call` | the kernel sends an operation; `write` returns at once, `unlink` prints to a string literal and dies |
| `Mount` | `init`: format an empty file, load any other |
| `Unmount` | `main` after `fuse_main`: `free(block)`, then `exit` |
| `Crash` | the process is killed |

`frame[t]` holds the locals of the call on thread t; `ra` in it is where a
function called from several places returns to.

Undefined behaviour is a choice. What `malloc` returns is zeros or any block
that has been built (`HeapBlocks`); a path buffer whose function has returned may
hold anything (`Pending`); a second `free` may abort or not. When a directory has
no free slot, `offset` is -1 and the entry goes one byte before the buffer: the
number of the first entry becomes one far outside (`Far`), its name the new name
without its first character (`Rest`), and `free(data)` may abort.

The driver is an environment: a transfer succeeds or fails. A get that fails before anything
has arrived leaves the buffer as `malloc` gave it; one that fails later has cleared it and
filled a part (`wt_callback`), so that some entries are there, perhaps one that is cut
in its name, and zeros after it (`Partial`, `Beginnings`; the constant `Prefixes` says which
names a cut name may be). Such a buffer may come back from `malloc` afterwards (`HeapBlocks`). A
failed put may have replaced the file all the same.
The mapping file buffers the record of a new block until the next seek in it, and a
crash before that loses the way to the block (`mapping.unsaved`). The module
`VdiskDriver` shows that the driver does no worse (2.4). The mapping file is
opened by the first put, which the server refuses for its empty token; a get
before that dereferences `NULL`. A remount therefore dies in its first lookup
of a component. The model has this: after a remount only calls that transfer
nothing return.

### 2.3 DirTree

The promise of a file system to the kernel: one tree, and each call takes effect
at one moment between request and answer (`Make`, `RefuseTwice`, `RefuseOrphan`,
`NotThere`, `Look`); the process may stop at any moment and the tree stays.
`SdiskFsProperties!Tree` maps to it: the tree is what the blocks on the
server and the inodes in the metadata stream describe (`Nodes`, by `Resolve` from
inode 1), the answer is fixed when the thread reaches `done`. What a refused `create` is
told is left open (`Refused`): a tree that answered EEXIST and ENOENT is not what this code
implements, since `sdisk_create` ends with `return 0` (`src/sdisk.c:589`); what follows from
that is in the run `create`. A `mkdir` must
take effect in the one step that uploads the parent's block, and a lookup, which
reads many blocks, must agree with the tree of one moment.

### 2.4 VdiskDriver

One call of `get_block` or `put_block` at a time (`SdiskFs` has the threads; with
several, `token` and `mapping` are shared as its globals are: for `mapping` see
`MappingFile` below),
and the handler of `SIGALRM`, which may come between any two steps of the call and
posts itself while the call stands still. `frame["call"]` and `frame["alarm"]`
hold the locals of the two.

| Action | Code |
|---|---|
| `get_block`, `put_block` | up to the loop; `map_blk_to_fid` with its flush |
| `try` | a round of the loop of `put_block`: the token is read anew |
| `post` | `post`, `multipart_post`: the server acts and answers, or one of the two is lost |
| `parse` | `parse_json_string` and the parser it is given |
| `authenticate`, `get_token`, `unquote`, `timer` | `authenticate`: opening of the mapping file; request and answer; the token in its place, with its quotes and without; the alarm |
| `parsed` | the condition of the two loops: `get_block` parses the same answer again, `put_block` tries again |
| `download` | `get` |
| `record` | `fseek` and `fwrite` of the identifier |
| `keep_alive`, `kept` | the handler, up to its post and after its parse |
| `Expire`, `Exit`, `Die` | the server forgets the token; the process ends |

A lost answer leaves the response buffer as it was, empty at first and then with the answer
of an earlier try, which is parsed once more. Of an empty text the JSON library
makes no object; whether the program survives that depends on its version, so
both are possible. `token` is "quoted" between the two steps of
`get_token_from_json`, and a handler that comes there posts it so.

`MappingFile` takes the driver's second file apart, call by call of the C library, for any
number of threads: `seek` (twice, `map_blk_to_fid`), `fread`, `place`, `fwrite`, and the
opening, where `authenticate` tests `mapping`, `access` looks for the file and `fopen` opens
or makes it. A stream holds a position and the writes in its buffer; a second opening leaves
the first stream behind, which `exit` writes out as well. Posts are served or refused at
will, and a put is tried again at will. `VdiskDriver` has all of this in one step (`Flushed`,
`record`), which is right for one thread. `FidCorrect` and `RecordsKept` are what one thread
may rely on, `OwnFid` and `NeverEmptied` what is left to ask of several.

### 2.5 BlockStore

What the driver promises its caller: a put answered "ok" is there for the
gets after it; one that fails has left the store alone or has replaced a block that
was there; a new block may be lost with the process until the next get or the next good
put, nothing else ever. `SdiskFs` is written against exactly this (`Downloaded`,
`PutOk`, `PutFailed`, `mapping.unsaved`), so `ImplementsBlockStore` is what
justifies its environment. The store maps to the server's files that have an
identifier in the mapping file.

### 2.6 Strings, Numbers, Configure, Algorithms

Pure functions as operators. A string function works on a buffer, a function on
positions, in which it reads and writes as the code does; a write past the
terminator enlarges or changes what is behind it, and the properties look there. `wt_callback` and
`rd_callback` move one piece each. In `Numbers`, `Word` is the size of `long`, which
`misc/types.h` calls `u32`. In `Configure` a line is a pair of a key and a value as
`trim` and `strtok` leave it, and a value that is a list of disks has a first name
(`FirstName`). `getDiskConf` is called by nothing in the code; `SettingsKept` asks it
where a setting belongs. `Algorithms` has a state machine that
writes an input one item at a time, so that TLC goes through all of them, and the
reference definitions.

### 2.7 Sha2, HmacSha2

The code spells four hash functions and four HMACs out in full; they differ in
sizes and initial values, so `Sha2` has one operator per function and a record per variant. The
compression function is free (the chaining value is the list of the blocks that
went into it), which makes two hashes equal only if the same blocks were hashed in the same order.
`hmac_final` may be asked for more bytes than a digest has, as `authenticate` does; what
is beyond is of the stack. Lengths are unsigned ints and wrap at `Uint`, in the code 2^32: of
these the length in bits, `len_b`, is the first to do so, at 2^29 bytes.

### 2.8 StrMap, Dictionary

`StrMap` has the buckets, the sizes of the memory behind the values and the live
allocations, each named for what it was made for. One step is one allocation, or the frees of
one exit: `sm_new` and `new_buckets`; in `sm_put` `new_key`, `new_value`, `first_pair` and
`more_pairs`, each of which may fail and then frees what its own lines free; in
`sm_delete` the pairs one by one, the pairs of a bucket, the map. `Dictionary` is the
promise of `strmap.h`: an operation is done and answered 1, or refused without effect.

## 3. The runs

| Run | Instance | Properties | Result |
|---|---|---|---|
| `serial` | 1 thread, three mkdir and one create on two levels, all readers, 2 entries to a directory | `InodesInPlace`, `NumbersUnique`, `FindInodeCorrect`, `ImplementsDirTree`, `CallsReturn` | hold |
| `crash` | 1 thread, 1 entry to a directory, 1 failed transfer, crash at any step, remounts | `TypeOK`, `NumbersFresh`, `LinkedInodeDurable`, `CounterLagsByOne`, `DirsOwnBlocks`, `EntryKept` | hold |
| `threads_numbers` | 2 threads, three mkdir | `NumbersUnique` | violated |
| `create` | 1 thread, 1 failed transfer, one create | `CreatedIsThere` | violated |
| `unmount` | 1 thread | `NextFreeIsFree` | violated |
| `driver` | 2 blocks, 2 contents, 1 lost or refused transfer, 2 expired tokens, handler and restart at any step | `TypeOK`, `RecordedStored`, `PutSurvivesExpiry`, `ImplementsBlockStore`, `CallsEnd` | hold |
| `driver_alarm` | the same, no fault, 1 expired token | `TimerRuns` | violated |
| `driver_errno` | the same, 1 fault, no expired token | `ServedSucceeds` | violated |
| `mapping` | 1 thread, 4 blocks, restarts at any step | `FidCorrect`, `RecordsKept` | hold |
| `algorithms` | texts of 5 characters out of 5, numbers of 10 bits, 5 pieces, 3 lines; `Word` 4 | 11, one for each algorithm or table | hold |
| `hmac` | blocks of 4 and 5 bytes, messages up to 12, keys up to a byte more than a block, `Uint` 128 | `MacCorrect`, `NothingLost` | hold |
| `strmap` | 3 keys in 2 buckets, 2 values of different length, any allocation failing | `WellFormed`, `NoLeak`, `FreedOnce`, `ImplementsDictionary` | hold |

### 3.1 What the passing runs show

`serial`. With one thread and no failure the code implements the tree, on
directories that do not fill up, but for what it tells a `create` it refuses: 0, like one
it has served. `NumbersUnique`: two entries never name one inode.
`FindInodeCorrect`: `find_inode` answers the number the path leads to.
`InodesInPlace`: every record is at its own position. `CallsReturn`: every
call comes to its end.

`crash`. Directories here are full after one entry, so overruns happen; one
transfer fails, of a get with any part of the block arrived; the process dies anywhere and is mounted again. Still:

- `LinkedInodeDurable`: an entry on the server names an inode that is on disk.
  The reason is in the order of the code, not in a flush it asks for: the seek of
  the next `update_*` flushes the inode before `put_block` sends the name.
- `CounterLagsByOne`: the counter on disk is at most one allocation behind the entries.
- `NumbersFresh`: on the mount that formatted, the counter in memory is beyond
  every entry.
- `DirsOwnBlocks` (no failed transfer): an entry of a directory leads to a block
  that is its own, with "." and ".." as they should be.
- `EntryKept` (no failed transfer): no step moves, rewrites or drops an entry; no crash
  loses the mapping of a block with entries, since the lookup in the directory
  flushed it.

`driver`. `RecordedStored`: an identifier in the mapping file is that of a file the
server has. `PutSurvivesExpiry`: the three tries are enough for a token that
expires once, at any moment, with the handler authenticating in between.
`ImplementsBlockStore`, `CallsEnd`: the promise of 2.5, and an end to every call.

`mapping`. With one thread a get sends exactly what is recorded for its block
(`FidCorrect`), in whichever process that was, and what has reached the disk stays
(`RecordsKept`): the file is emptied only when it was not there.

`algorithms`. The string functions agree with their definitions and touch nothing
behind the terminator; `UnquoteCorrect` is about texts with quotes at their ends only, as those
of JSON the driver takes apart (for others see 3.4). `ReadEnds` is about files of two
blocks: with a third the loop of `read` may go round for ever, which follows from
`blockoffset` (3.4). No code gives a file a block, so no run of the program comes there.
`ConfigureKnown` and `BlockSizeKept` say what is safe although `getSysConf` answers
the index of DISKS for every key it does not know: the settings of the system, and the
block size in any file. Those of a disk are not (3.4).

`hmac`. Every length of the last block is met: no room for the length, exactly room,
one byte more; and every division of a message into updates, over contexts used again. With
`Uint` 128 the messages reach one byte further than the properties speak of (`InRange`).

`strmap`. A put that fails, at whichever of its allocations, has changed nothing and lost no
memory, nothing is freed twice or read after it was freed, `sm_delete` leaves nothing;
enumeration and count agree with the gets.

### 3.2 Where a property is limited, and why

- `ImplementsDirTree` does not see a full directory: `mkdir` answers success there and
  links nothing.
- `EntryKept` and `DirsOwnBlocks` end with the first failed transfer:
  `empty_dir_slot` and `find_direct_relative_inode` do not look at the code of
  `get_block`, and the directory is then overwritten with what `malloc` returned.
  The other properties of the run hold through it.
- `EntryKept` and `NumbersFresh` speak of a root that has its block. A crash in
  the middle of the first `init` leaves a root without one, and directories
  made after that all send their entries to block 0.
- `NumbersFresh` speaks of the mount that formatted (`mapping.open`); for later
  mounts `CounterLagsByOne` says how far the counter may be off.
- `CounterLagsByOne` needs a superblock on disk (`Formatted`). Without it the next
  mount reads zeros, never looks at `s_magic` and runs with blocks of one byte.
- `PutSurvivesExpiry` is about one expiry without a fault; with a second one, or with a
  lost answer, three tries may not do.
- `CallsEnd` counts the death of the process as an end.
- `InodesInPlace`, `FindInodeCorrect`, `FidCorrect` and `RecordsKept` hold for one thread, and
  for no more (3.4).
- `RecordsApart` is checked with longs of 4 bytes. The sources do not say how long a
  long is: `src/misc/types.h:17` calls `u32` "32-bit data type" and makes it an `unsigned
  long`, and the programs kept beside the sources (`src/sdisk`, `src/driver/au`) are of 32
  bits. `SdiskFs` models directories that entries fill exactly, which is that build; for the
  other see 3.4.
- `MacCorrect` and `NothingLost` speak of lengths in `InRange`, whose bits, with the padded
  key, an unsigned int counts.
- `ConfigureKnown` is about files of known keys and the disk that has a
  configuration file; for others the program may exit or read through `NULL`.
- `MacCorrect` with a free compression function does not look at the rounds.
- The copy an overrun wrote is no directory, and the entry it made (`Far`) is not
  counted as one, nor is block 0 (`Links`).

### 3.3 The findings

- `threads_numbers`: `new_inode` reads the counter, writes the inode, then
  advances the counter, with no lock. Two `mkdir` in different directories hand
  out one number (`src/sdisk.c:198`).
- `unmount`: after a `mkdir`, `main` frees the global buffer that
  `new_empty_dir` has freed. When the C library aborts there, the counter still in the
  stream's buffer is lost, and the number on disk is one an entry holds
  (`src/sdisk.c:708`). The model's next mount does not come to hand it out: it dies in its
  first lookup (2.2).
- `driver_alarm`: a refused `keep_alive` gets a new token and sets the alarm while it
  parses, then looks at its own code, which is still the refusal, and cancels
  the alarm (`src/driver/vdisk_driver.c:260`). The token is good and will expire.
- `create`: `sdisk_create` computes a code and returns 0 (`src/sdisk.c:589`). The run lets
  the put of the parent's block fail: the kernel is told the file was made, and its
  path leads nowhere. The parent is the root, so the kernel has nothing to check before.
- `driver_errno`: one malformed answer sets `vdisk_errno`, nothing clears it, and
  every later call answers it, though the server serves it (`src/driver/vdisk_driver.c:21`).

### 3.4 What else the code does not keep

The modules state more of what comments say and the code does not do. No `.cfg` of the project
checks these formulas at the values given here (`serial` checks `InodesInPlace` with one thread); put
in place of the properties of the named one, TLC refutes each.

| Formula | Where to put it | What TLC shows |
|---|---|---|
| `InodesInPlace` | `threads_numbers.cfg` | a seek of another thread between `fseek` and `fwrite` sends an inode to a record that is not its own (`src/sdisk.c:119`) |
| `FoundIsThere` | `threads_numbers.cfg`, with `LookCalls` | `strtok` keeps its place in one variable of the process (`src/sdisk.c:314`): with a lookup of "/" in between, a lookup of "/a/b" ends after "a" and answers its inode |
| `RemovedIsGone` | `serial.cfg`, with `AllCalls` | `rmdir` answers 0 and has added a second entry of the name (`src/sdisk.c:489`) |
| `OwnFid` | `mapping.cfg`, with two threads | a get reads where another thread has sought and is sent another block's identifier (`src/driver/vdisk_driver.c:120`) |
| `NeverEmptied` | `mapping.cfg`, with two threads, as a `PROPERTY` | two threads see no file; the second opens it with "wb+" and empties what the first has recorded (`src/driver/vdisk_driver.c:271`) |
| `UnquoteEnds` | `algorithms.cfg` | `unquote` takes away every quote (`src/misc/utils.c:85`), where `src/misc/utils.h:24` says those at the ends; identifiers, URLs and tokens have none inside |
| `OffsetSplit` | `algorithms.cfg` | `blockoffset` clears one bit where the low ones are to be kept (`src/sdisk.c:29`): right below two blocks and wrong from there on |
| `SettingsKept` | `algorithms.cfg` | `configureDisk` asks `getSysConf` for the place of a disk's key (`src/sdisk.c:789`): every setting lands in the first place, over the one before |
| `SlotFits` | `algorithms.cfg`, with `Word` 8 | an entry takes 72 bytes; the fifteenth begins 16 bytes before the end of a block of 1024 and `empty_dir_slot` takes it for free (`src/sdisk.c:157`) |
| `MacOfAnyLength` | `hmac.cfg` | the bit length is an unsigned int (`src/hmac/sha2.c:401` and its copies): from 2^29 bytes on, here from 128 bits on, it has wrapped. The driver signs requests of a few hundred bytes |

### 3.5 Bounds, the environment and fairness

- `Thread`: one for what the code gets right (the `-s` option of FUSE), two for
  the races. `make run` gives no `-s`.
- `Calls`: mkdir of two names in the root and of one below the first, create of a
  file next to that, and the readers on the root, the nested directory and the
  file. Two levels suffice to tell the parent from the root, one name in two parents
  to tell entries apart, and two names of different length give the overrun a shorter name
  that exists (`RestOf`). `crash` leaves out getattr, open and read: their steps are those
  of readdir and utimens.
- `NSlots` counts "." and "..". 3 makes a directory full after one entry, 4 leaves
  two: with the calls above no directory fills up then.
- `MaxInode`: no call that allocates is sent beyond it (`Room`), so the
  counters are finite; 5 is the root and three more, 6 four more. It also is the number
  `Far`, which no allocation reaches.
- `MaxFault`: 1. One failed transfer can hit any get or put of a history.
- `Prefixes`: of the two names one is the beginning of the other, so a name that is cut may be
  one that is asked for.
- The kernel holds the lock of the parent directory during mkdir, rmdir, create, unlink,
  and of the inode during utimens (`Locked`). The model lets lookups run
  beside them, which no violation found here needs.
- A path does not go through a regular file (`CallsAssumption`), as the kernel
  checks the type of each component; "." and ".." never reach the program.
- Fairness is weak fairness of each thread's `Step`, in `FairSpec` and only for
  `CallsReturn`: the operating system runs every thread of the process, and a transfer
  ends, with success or not. Nothing obliges anybody to mount, call,
  unmount or crash.
- `driver`: two blocks tell a block that is there from one that is new, two contents an
  old from a new one. `MaxFault` 1 and `MaxExpiry` 2: one fault can hit any post or
  download; two expiries make a put fail three times. More do not add a new
  order of steps to a call, which has three tries.
- `driver` assumes strong fairness of the steps of the call and weak fairness of those of the
  handler (`FairSpec`, only for `CallsEnd`): the process runs, transfers end, and the handler sets
  its alarm ten minutes ahead, so that the call gets on between two signals. Weak
  fairness of the call would allow a handler that always runs when it is looked at.
- `mapping`: blocks 1, 2, 3 lie next to each other, so that a position that is one off meets
  a neighbour, and 5 leaves a hole. Nothing else is bounded: the machine is finite.
- `algorithms`: five characters hold the patterns of `replace` twice over, white space at both
  ends and quotes anywhere; ten bits are the numbers below 1024, far beyond the second block
  of four bytes, where `blockoffset` turns wrong; `LsbCorrect` adds the powers of two up to 2^20.
- `hmac`: the sizes are constants of `Sha2`, related as the real ones are
  (a digest is not longer than a block, the length takes part of it, an unsigned int counts
  the bits of two blocks). `MaxMessage`, `MaxPiece` and `MaxLonger` bound messages, pieces and
  what a key has beyond a block; the theorems about this module hold for any values of them.
- `strmap`: two keys collide and one does not; one value is longer than the other.
- Deadlock is checked in every run: a system that is not mounted can be mounted, and
  the other machines always have a next call or input.

Each property has a mutant in `PROJECT.json`, a plausible slip in one definition
(a counter that stays, a seek that does not flush, a scan one entry
short) that the property then rejects; operators for it stand before the definition
they vary, after "Mutated:".

## 4. The proofs

For every value of the constants, from the named assumptions, which the runs evaluate on
their instances: `NameAssumption`, `BoundAssumption` and `CallsAssumption` of `SdiskFs`;
`DriverAssumption` of `VdiskDriver`; `MapAssumption` of `StrMap` (keys are strings that fit
in memory, so there are finitely many); `SizeAssumption` and `UintAssumption` of `Sha2` and
`BoundAssumption` of `HmacSha2` (a MAC has at least a byte). `MappingFile` assumes nothing.

| Theorem | Module | Statement |
|---|---|---|
| `TypeCorrect` | `SdiskFsWrites` | `Spec => []TypeOK`, with any number of threads |
| `SerialInPlace` | `SdiskFsWrites` | `Serial /\ Spec => []InodesInPlace` |
| `SerialDurable` | `SdiskFsWrites` | `Serial /\ Spec => []LinkedInodeDurable` |
| `SerialFresh` | `SdiskFsNumbers` | `Serial /\ Spec => []NumbersFresh` |
| `SerialCounterLags` | `SdiskFsNumbers` | `Serial /\ Spec => []CounterLagsByOne` |
| `SerialUnique` | `SdiskFsEntries` | `Serial /\ Spec => [](faults = 0 => NumbersUnique)` |
| `SerialEntryKept` | `SdiskFsEntries` | `Serial /\ Spec => EntryKept` |
| `SerialDirsOwn` | `SdiskFsEntries` | `Serial /\ Spec => []DirsOwnBlocks` |
| `SerialFind` | `SdiskFsEntries` | `Serial /\ Spec => [](faults = 0 /\ root.i_block # 0 => FindInodeCorrect)` |
| `SerialTree` | `SdiskFsTree` | `Serial /\ Ordinary /\ Spec => ImplementsDirTree` |
| `DriverTypeCorrect` | `VdiskProofs` | `Spec => []TypeOK`, the driver's |
| `RecordedCorrect` | `VdiskProofs` | `Spec => []RecordedStored` |
| `PutSurvives` | `VdiskProofs` | `Spec => []PutSurvivesExpiry` |
| `DriverImplements` | `VdiskProofs` | `Spec => ImplementsBlockStore` |
| `SerialFid` | `MappingProofs` | `Serial /\ Spec => []FidCorrect` |
| `SerialRecords` | `MappingProofs` | `Serial /\ Spec => RecordsKept` |
| `MacOfStandard` | `HmacProofs` | `Spec => []MacCorrect` |
| `MacLosesNothing` | `HmacProofs` | `Spec => []NothingLost` |
| `MapWellFormed` | `StrMapProofs` | `Spec => []WellFormed` |
| `MapLosesNothing` | `StrMapProofs` | `Spec => []NoLeak` |
| `MapFreesOnce` | `StrMapProofs` | `Spec => []FreedOnce` |
| `MapImplements` | `StrMapProofs` | `Spec => ImplementsDictionary` |

`Serial` says that there is at most one thread; the run `threads_numbers` and the formulas of 3.4
show that it is needed. Failures, crashes, remounts, full directories and every operation are in
`Spec`. Two things are excluded: what `Ordinary` names, in `SerialTree`, and what follows a
failed transfer, by `faults = 0` in `SerialUnique`, `SerialFind`, `EntryKept` and
`DirsOwnBlocks`: after a failed transfer a directory may be overwritten with another one's entries (3.2).
`SerialFind` also asks for a root with a block: a process that finds no root inode in the
file after a crash has none in memory, and a lookup in it finds nothing. The run `serial` has
no faults and no crash, so the two theorems say of it what `NumbersUnique` and
`FindInodeCorrect` say.

`Ordinary`, of `SerialTree`, says that no transfer fails and no signal kills the process
(`MaxFault = 0`, `~MayCrash`), that the names are finitely many and a block has slots for all
of them beside "." and "..", and that no call is `rmdir` or `write`. Each is needed, because
the code is no tree without it: a transfer that fails lets a directory be
overwritten and a full directory answers success and links nothing (3.2); after a crash in the first
`init` the root has no block, and `mkdir` answers success for entries nobody finds; `rmdir` is
`mkdir` over again; `write` answers for a path it does not look up. What stays in are mounts
and unmounts, `unlink`, and the process dying of it, of a buffer freed twice or of a mapping
file that is not open. The instance of `serial` satisfies `Ordinary` (two names, four
slots, `TreeCalls`), so the theorem speaks of what TLC checks there, for
any number of names, slots, inodes and calls, and paths of any length.

**TypeCorrect.** `TypeOK` alone is not inductive: `link` takes the last component of
`frame[t].path`, which only a call that changes a directory is known to have. The
inductive invariant is `TypeOK /\ ControlOK`; `ControlOK` says which operations
may be at which label, or return to it. `IsStream` of each
stream operation is a lemma of its own, the actions follow one by one.

**SerialInPlace.** The invariant adds
- `RouteAt`: where a function called from several places will return to,
  which bounds what the next step may be;
- `PositionedAt`: at `write_inode` the stream is at the position of the
  inode about to be written, at `write_superblock` at 0, and never inside a record;
- `InPlace` of the view and of the disk (the disk becomes visible again after a crash);
- `Resting`: no thread is in a call while nothing is mounted, so that `init` starts alone.

One thread makes `PositionedAt` inductive: the step after a seek is the write.

**SerialDurable.** The invariant further adds that every place an entry can come
from is clean: the blocks on the server, the buffers of the thread, the global
buffer, since any of them may be uploaded or come back from `malloc`. An entry is
clean when its inode is in `meta.disk`. A part of a clean block is clean (`BeginningEntries`,
`PartialEntries`): an entry that has come half names the inode it names, or none. `RecordedAt` carries the number a call is making from
`write_inode`, after which it is in the view, over the seek of `update_superblock`,
after which it is on disk, to `link`, which uploads it. `meta.disk` only grows.

**SerialFresh, SerialCounterLags.** The two say how far a counter is from the entries, and
neither is inductive: a process that loads an old superblock has a counter that lags.
`NumbersInv` follows the life of the file system.
- In `init` there are no entries (`EmptyInv`), and `InitAt` says how the root, its block and
  the first superblock get into the file.
- In the process that formatted (`Live`), the counter is beyond every number in any copy of
  a block (`LiveInv`), and `LiveAt` follows a call: the number it makes is new, the
  counter passes it in memory, in the buffer, on disk, all before the entry is uploaded.
- A later process finds the mapping file closed (`Frozen`) and dies in its first transfer,
  so it never comes to make an inode (`FrozenAt`).
- A process whose root has no block (`Rootless`) finds nothing and links nothing.
- `CoveredInv` is what outlives them all: each number in use is at most the counter in the
  view and the counter on disk.

`StepKinds` says which of these phases a step may end in; `Looks`, `Starts` and
`Makes` say what a step does to the locals, so that the phases are argued without the
labels of every action.

**SerialUnique, SerialEntryKept.** The counter of blocks does for blocks what that of
inodes does for numbers: `BlocksInv` says that every block with entries, and every block of an
inode in either copy of the file, is below it. So the put of a new directory replaces
nothing, and the copy that `link` puts back is the block it replaces, but for one slot that
was free. `UnsavedInv` is for crashes: what the mapping file has not flushed is the record of
a block without entries, since the get of `slot` comes before the put of `link` and seeks. With
`LiveAt` the new entry has a number that no other has.

**SerialDirsOwn.** `DirsOwnBlocks` reads the inode in the view, and a crash replaces the view
by the disk: `OwnInv` says the same of both copies, and that the way to the block is not in the
record of the mapping file that is not flushed yet. `MakingInv` follows a call in the process that
formatted. The inodes it has found agree with the file, times aside (`KnownAt`). The one it
makes is new, and gets its block late and for good (`MadeAt`); that block is the empty
directory made for it (`BlockAt`). View and disk agree on the inodes, and the mapping file is flushed,
before `link` uploads the entry (`FlushedAt`). No inode in the file has a number that will be
handed out (`CountedAt`). Of a later process `LoadedInv` says that it writes no inode but
with a new time.

**SerialFind.** `Resolve` is a recursive function along the path. `ReachedSteps` unfolds it
(there is such a function: `UptoExists`, by induction on how far it is defined), and
`ReachedNothing` says that a path that leads nowhere half way leads nowhere. The induction
theorems of the library take an operator, which the provers cannot be given; `Induction`
speaks of a set of numbers instead and follows from the least element of the numbers
not in it. `WalkAt` is the loop invariant of `find_inode`: at the i-th name, what is left in `strtok` is the
rest of the path (`Along`), and the node in hand has the number that the first i - 1 names
lead to. One thread changes nothing between two steps of its own walk. Each name is an
argument of its own (`LookupWalk`, `InodeWalk`, `WalkWalk`): the inode a lookup has come to is the
one in the file (`KnownAt`), its block is on the server (`BlocksInv`), its entries
lead to inodes in the file (`Clean`, and `FarInv`: no directory has what an overrun leaves). `RoomInv`
says that no call takes a number beyond the last, and `BareInv` that a file system that is
formatted once more has nothing on the server yet.

**SerialTree.** The tree is read off any file and any set of blocks: `End` is what a path leads
to, `TreeOf` the paths that lead somewhere with their kinds, and `Nodes`, the tree of the mapping,
is that of the stream and the server (`NodesTree`). Induction over paths (`PathInduction`) gives the
two facts that steps need. `EndSame`: paths lead where they led if the inodes in use keep
their block and mode and their blocks keep their entries. `EndLink`: a new entry with a new
number, in the one directory that has the block, adds the path of the entry and no other. For
the second, an entry must be reached by one path only. The invariant is `CoreInv`, which
is that of the theorems above, and `TreeInv`:
- `LifeInv`: a file system is formatted once, and has a root with a block from then on;
- `TidyInv`: blocks on the server hold nothing but names, after their first two entries;
- `SavedInv`: of the inodes in use the disk says what the stream says, so the end of a
  process takes nothing from the tree;
- `LinksInv`: every entry was made by a call, and the path of the call leads to it. As
  no two entries have one number (`SerialUnique`) and a directory's "." names it
  (`SerialDirsOwn`), entries form a tree;
- `ServedInv`, `PathInv`: what the thread has found is what its path leads to; from
  `resolved` to `link`, while the inode is made and the counters are saved, the parent is
  there and the name is free; and the slot found is a free one, which there is since a
  directory with a name left has room for it (`RoomLeft`, by counting).

Then each step is one of the abstract tree: `link` is `Make` (`LinkMapped`), the lookup of
the new name `RefuseTwice` (`NamedMapped`), the end of a lookup `RefuseOrphan`, `NotThere` or
`Look` (`ResolvedMapped`), that of `readdir` and `utimens` `Look` (`ListMapped`, `TimesMapped`), the
kernel's call `Request`, the step to "idle" `Answer`, and every end of the process `Stop`. All
else, a mount included, leaves the tree and the calls as they are.

**The driver.** The theorems of `VdiskProofs` have one inductive invariant, `IInv`,
for any number of lost messages and expiries and with `keep_alive` anywhere. None
of the properties is inductive alone:
- `CallOK` says which operation may be at which label, with how many tries left (so that
  none is counted below zero), and that a code "ok" comes from an answer "ok";
- `ServedOK` relates an answer "ok", which stays in the response buffer over the tries,
  to the server: the block of the call is there, and a put finds its content. Without it
  `record` might write down an identifier of nothing;
- `AlarmOK` says that the handler uploads nothing, so that what it posts in the middle of
  a call leaves `ServedOK` alone.

`StepOK` does the steps that change neither the files nor the identifiers, `GoneOK` the
ends of the process; `PostOK`, `ParseOK` and `RecordOK` are the ones with an argument.

**PutSurvives.** `TriesInv` counts: as long as nothing has failed and at most one token has
expired, a put at each label has a try left for the token it will post if that is not
good (`Cost`), one for an expiry that may still come, and one to succeed with. `Handles` says
that `keep_alive` authenticates only for a token that was refused, so it takes no good one away.

**DriverImplements.** Under `IInv` each step is one of the store or a stutter:
`get_block` and `put_block` are `Request`; a `post` that uploads over a block with an
identifier is `PutOver`, and is not seen when the block has none; `record` is `PutNew` or
`PutDone` (`ServedOK`: the server holds what was put); `download` is `GetOk` or `Fail`; the
end of the tries is `Fail`; `Exit` and every death are `Stop`, a death losing what is in
`mapping.view` and not on disk. All else, the handler included, is a stutter (`Stutters`):
it keeps files, identifiers and what the frame says of the call (`SameCall`).

**The mapping file.** With one thread, and no assumption on the blocks: `PlaceOK` says that
the position at `fread` and `fwrite` is that of the block of the call, and that the file is
opened with "wb+" only while it is not there; `StreamOK` that every identifier, on disk or
in the buffer, is at the place of its block, and that there is one stream at most. `NextOK`
shows at once that a step keeps these and what is on the disk.

**MacOfStandard.** For all sizes of block, digest and MAC, all keys and messages whose bits an
unsigned int counts (`InRange`; `MacOfAnyLength`, 3.4, shows that it is needed), and any
division of the message. A context that has taken in a message m `Holds` it: it has hashed
the first n blocks of m and has the rest, less than a block, at the front of its
buffer (`Rest`). `UpdateHolds` keeps that for the three ways through `sha_update`, which share a
message between the buffer and the hash differently; `FinalHash` shows that
`sha_final` pads what is left to the blocks of the standard, one or two of them. `MacInv` then says
that the two contexts kept for `hmac_reinit` hold the padded keys, and that the inner one
holds its key and the message so far. Products of a number and a block size stay
opaque (`Times`), since the arithmetic of the provers is linear.

**MacLosesNothing.** From the same invariant. `FlatCut` says that the blocks a message is cut
into are the message again when put one after the other: a smallest number of blocks for
which they were not would have a predecessor. The padded key is one block, so all of
it is hashed (`BlockWhole`), and what follows it is the message (`HoldsWhole`).

**StrMap.** The inductive invariant is `Sound`, of the buckets, and `Holds`, of the
allocations at each step of an operation: between operations they are those of the map
(`HeapOf`), in `sm_put` these and what the steps before have taken, in `sm_delete` what is
not yet freed. `Sound` gives `WellFormed`, `Holds` gives `NoLeak` and `FreedOnce`; each exit of
a failed allocation must give back just what `Holds` says was taken. For the
dictionary, the mapping from buckets is a function because a key has one pair
(`Distinct`), and each operation is looked up: a step that only allocates or frees is none of the
dictionary's, the exits of a put are a refused put, a shorter value in the old memory is a put
like any other, and the enumeration of places lists each association once.

**Not proved, and checked by TLC only:**
- `CallsReturn` and `CallsEnd`: liveness under fairness is beyond the prover.
- The run `algorithms`: `Strings`, `Numbers` and `Algorithms` compute with RECURSIVE operators.

## 5. Not modelled, and the plan

1. **Threads.** The race for the numbers has a run, those for the metadata stream, `strtok` and the
   mapping file a formula each (3.4). The global `block` under two threads is in `SdiskFs` and no property singles it
   out from the race for the numbers, which a run meets first. The static `token`, which
   two threads may write at once, is modelled for one thread and the handler.
2. **Proofs.** Every property of a passing run is a theorem, but for liveness and for the run
   `algorithms`; `SerialTree` closes the refinement of `DirTree`. The driver and the file
   operations are proved apart: `BlockStore` is what `DriverImplements` shows of the one, and the
   blocks of `SdiskFs`, which does not instantiate it, take its steps by construction.
3. **Failed transfers.** What a failed get does to the entries of a directory, in the code as it is,
   is modelled and no property is about it, since they do get lost.

Left out for good: the contents of files (no code writes any), modes, owners and
sizes, times beyond "set or not", the logging to `output`, the indirect blocks (no code
sets them), the URLs and forms of the requests, the options of curl, `strlower` (called by
nothing), the rounds of the hash functions (arithmetic on words with published test
vectors), uthash and its siblings (included by nothing), what a body that is an error
page does to a block, identifiers longer than the 16 bytes kept for them, and a function
given to `sm_enum` that changes the map.
