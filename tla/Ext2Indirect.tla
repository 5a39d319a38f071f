---------------------------- MODULE Ext2Indirect ----------------------------
(***************************************************************************)
(* get_indirect_blocks of fs/ext2.c: where in the tree of an inode the     *)
(* block with a given number in the file hangs.  The path is a mode (how   *)
(* many index blocks lie between inode and data block) and four indices:   *)
(* index[0] into i_block, index[1..mode] into the index blocks.            *)
(***************************************************************************)
EXTENDS Integers

CONSTANTS
  Direct,   \* direct entries of i_block, 12
  Links     \* block numbers per index block, g_ext2_blocksize / 4

ASSUME IndirectAssumption == Direct \in Nat \ {0} /\ Links \in Nat \ {0, 1}

SI_INDEX == Direct
DI_INDEX == Direct + 1
TI_INDEX == Direct + 2

(* The array limits: the first block number of a file that mode i cannot    *)
(* reach.                                                                   *)
limits(i) ==
  CASE i = 0 -> Direct
    [] i = 1 -> Direct + Links
    [] i = 2 -> Direct + Links + Links * Links
    [] i = 3 -> Direct + Links + Links * Links + Links * Links * Links

FileBlocks == 0 .. limits(3) - 1

(* Deviation: a limit taken as the last block of its mode.                  *)
M_mode_of(blk) == CHOOSE i \in 0 .. 3 : /\ blk <= limits(i)
                                        /\ \A k \in 0 .. i - 1 : blk > limits(k)

(* The first loop: the least mode whose limit lies above blk. *)
mode_of(blk) == CHOOSE i \in 0 .. 3 : /\ blk < limits(i)
                                      /\ \A k \in 0 .. i - 1 : blk >= limits(k)

(* blk counted from the first block of its mode. *)
rest_of(blk) == IF mode_of(blk) = 0 THEN blk ELSE blk - limits(mode_of(blk) - 1)

(* Data blocks below one entry of an index block k levels above the last.   *)
Span(k) == CASE k = 0 -> 1 [] k = 1 -> Links [] k = 2 -> Links * Links

(* The second loop: the base-Links digits, last index first. *)
index_at(blk, j) == (rest_of(blk) \div Span(mode_of(blk) - j)) % Links

(* index_arr. *)
index_of(blk) ==
  [j \in 0 .. 3 |->
     IF j = 0 THEN IF mode_of(blk) = 0 THEN blk ELSE Direct - 1 + mode_of(blk)
     ELSE IF j <= mode_of(blk) THEN index_at(blk, j) ELSE 0]

-----------------------------------------------------------------------------
(* What test_get_indirect_blocks computes back from the path: the digits    *)
(* read as a number, behind the blocks of the smaller modes.                *)
Digits(blk) ==
  LET x == index_of(blk)
  IN  CASE mode_of(blk) <= 1 -> x[1]
        [] mode_of(blk) = 2  -> x[1] * Links + x[2]
        [] mode_of(blk) = 3  -> (x[1] * Links + x[2]) * Links + x[3]

offset_synth(blk) ==
  Digits(blk) + IF mode_of(blk) = 0 THEN index_of(blk)[0] ELSE limits(mode_of(blk) - 1)

(* The path names an entry of i_block and entries of index blocks.          *)
PathInRange(blk) ==
  /\ index_of(blk)[0] \in 0 .. TI_INDEX
  /\ \A j \in 1 .. 3 : index_of(blk)[j] \in 0 .. Links - 1

(* test_get_indirect_blocks: offset_synth != offset_raw is reported; the    *)
(* path determines the block, so no two blocks of a file share a place.     *)
PathDeterminesBlock(blk) == offset_synth(blk) = blk

(* The mode is told by index[0] alone: blk_iterator_next compares the four  *)
(* indices and never the mode when it decides that nothing has changed.     *)
ModeFromIndex(blk) ==
  mode_of(blk) = IF index_of(blk)[0] < Direct THEN 0 ELSE index_of(blk)[0] - SI_INDEX + 1
=============================================================================
