------------------------------ MODULE Numbers ------------------------------
(***************************************************************************)
(* The arithmetic of the file system: lsbPos, the places of bytes in       *)
(* blocks, the places of records and entries.  Word is the size of long,   *)
(* which types.h calls u32: 4 or 8 bytes.                                  *)
(***************************************************************************)
EXTENDS Integers, Sequences, FiniteSetsExt

CONSTANT Word

ASSUME WordAssumption == Word \in {4, 8}

(***************************************************************************)
(* lsbPos.  (2^k * 0x077CB531) mod 2^32 >> 27 is window k of five bits.    *)
(***************************************************************************)
DeBruijn == 125613361

MultiplyDeBruijnBitPosition ==
    << 0, 1, 28, 2, 29, 14, 24, 3, 30, 22, 20, 15, 25, 17, 4, 8,
       31, 27, 13, 23, 21, 19, 16, 7, 26, 12, 18, 6, 11, 5, 10, 9 >>

\* Mutated: the window is a bit too high.
Window28(k) == IF k <= 28 THEN (DeBruijn \div 2 ^ (28 - k)) % 32
               ELSE ((DeBruijn % 32) * 2 ^ (k - 28)) % 32

Window(k) == IF k <= 27 THEN (DeBruijn \div 2 ^ (27 - k)) % 32
             ELSE ((DeBruijn % 32) * 2 ^ (k - 27)) % 32

\* v & -v is 2^k; of 0 it is 0, and the window too.
lsbPos(v) ==
    IF v = 0 THEN MultiplyDeBruijnBitPosition[1]
    ELSE MultiplyDeBruijnBitPosition[Window(Max({k \in 0 .. 30 : v % 2 ^ k = 0})) + 1]

(***************************************************************************)
(* blocknumber, blockoffset and the loop of read, with blocks of 2^s.      *)
(***************************************************************************)
blocknumber(offset, s) == offset \div 2 ^ s

\* & ~(1 << s): bit s is cleared, and no other.
blockoffset(offset, s) ==
    IF (offset \div 2 ^ s) % 2 = 1 THEN offset - 2 ^ s ELSE offset

\* Mutated: the offset is added, not the rest of the block.
ReadStep_offset(byte_read, offset, s) == byte_read + blockoffset(offset + byte_read, s)

\* The values byte_read takes, for a file of n blocks.  byte_read is compared
\* as an unsigned number, so a negative one ends the loop too.
ReadStep(byte_read, offset, s) == byte_read + 2 ^ s - blockoffset(offset + byte_read, s)

RECURSIVE ReadLoop(_, _, _, _, _)
ReadLoop(seen, offset, size, n, s) ==
    LET byte_read == seen[Len(seen)]
    IN  IF \/ byte_read < 0 \/ byte_read >= size
           \/ blocknumber(offset + byte_read, s) >= n
        THEN [ends |-> TRUE, ret |-> byte_read]
        ELSE IF \E i \in 1 .. Len(seen) - 1 : seen[i] = byte_read
        THEN [ends |-> FALSE, ret |-> 0]
        ELSE ReadLoop(Append(seen, ReadStep(byte_read, offset, s)), offset, size, n, s)

sdisk_read(offset, size, n, s) == ReadLoop(<<0>>, offset, size, n, s)

(***************************************************************************)
(* The records: fs/sdisk_fs.h laid out by the compiler.                    *)
(***************************************************************************)
Padded(n) == ((n + Word - 1) \div Word) * Word

SUPERBLOCK_SIZE   == 512
SDISK_N_BLOCKS    == 9
SDISK_NAME_LEN    == 60
sdisk_super_block == Padded(9 * Word + 5 * 2)
sdisk_inode       == Padded(4 * 2 + 5 * Word + SDISK_N_BLOCKS * Word)
sdisk_dir_entry   == Padded(Word + SDISK_NAME_LEN)

\* Mutated: not behind the superblock.
InodeBytes_first(n) == sdisk_inode * n .. sdisk_inode * (n + 1) - 1

\* The bytes of the metadata file that hold inode n.
InodeBytes(n) ==
    SUPERBLOCK_SIZE + sdisk_inode * n .. SUPERBLOCK_SIZE + sdisk_inode * (n + 1) - 1

\* The offset of the first empty entry of a block of len bytes with used
\* entries, all in front.
empty_dir_slot(used, len) ==
    IF used * sdisk_dir_entry < len THEN used * sdisk_dir_entry ELSE -1
=============================================================================
