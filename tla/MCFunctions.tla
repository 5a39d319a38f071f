---------------------------- MODULE MCFunctions -----------------------------
(***************************************************************************)
(* The functions of the program that keep no state, evaluated over small   *)
(* inputs: Ext2Geometry over every small volume (both first data blocks,   *)
(* every length of the last group, every position of the inode table),     *)
(* Ext2Indirect over every block of the largest file, ParseBuf over every  *)
(* short line.  The state is one input, "topic" says of which module; a    *)
(* step moves to the next block of the volume or file, or makes the line   *)
(* one character longer.                                                   *)
(***************************************************************************)
EXTENDS Ext2Geometry, Ext2Indirect, ParseBuf

CONSTANTS MaxBlocks, MaxPerGroup,   \* bounds on the volumes
          MaxLine                   \* bound on the lines

ASSUME LineAssumption == MaxLine \in Nat

VARIABLES topic, volume, tables, probe, line
inputs == <<topic, volume, tables, probe, line>>

Superblocks ==
  {s \in [s_blocks_count : 2 .. MaxBlocks, s_blocks_per_group : 3 .. MaxPerGroup,
          s_first_data_block : {0, 1}, s_table_blocks : {1}] : SuperblockOK(s)}

(* mke2fs writes a descriptor for every group that has blocks; the          *)
(* descriptor after the last one is the zero-filled rest of its block.      *)
DescribedGroups(s) ==
  {g \in GroupsOf(s) : blk_group_to_blk_num(s, g) < s.s_blocks_count}

InitVolume ==
  /\ topic = "volume" /\ line = <<>>
  /\ volume \in Superblocks
  /\ \E t \in 0 .. MaxPerGroup - 1 :
        tables = [g \in GroupsOf(volume) |->
                    IF g \in DescribedGroups(volume)
                    THEN blk_group_to_blk_num(volume, g) + t ELSE 0]
  /\ \A g \in DescribedGroups(volume) : GroupOK(volume, tables, g)
  /\ probe = volume.s_first_data_block

InputInit ==
  \/ InitVolume
  \/ topic \in {"file", "line"} /\ probe = 0 /\ line = <<>> /\ volume = <<>> /\ tables = <<>>

NextBlock ==
  /\ \/ topic = "volume" /\ probe + 1 < volume.s_blocks_count
     \/ topic = "file" /\ probe + 1 \in FileBlocks
  /\ probe' = probe + 1
  /\ UNCHANGED <<topic, volume, tables, line>>

NextCharacter ==
  /\ topic = "line" /\ Len(line) < MaxLine
  /\ \E c \in {Delim, Plain} : line' = Append(line, c)
  /\ UNCHANGED <<topic, volume, tables, probe>>

(* The last block, and the longest lines. *)
Done ==
  /\ \/ topic = "volume" /\ probe + 1 = volume.s_blocks_count
     \/ topic = "file" /\ probe + 1 \notin FileBlocks
     \/ topic = "line" /\ Len(line) = MaxLine
  /\ UNCHANGED inputs

InputNext == NextBlock \/ NextCharacter \/ Done
InputSpec == InputInit /\ [][InputNext]_inputs

-----------------------------------------------------------------------------
(* Freeing undoes allocating: a block's group and bit, computed as          *)
(* deallocate_block does, lead allocate_block's formula back to the block,  *)
(* and that group is one of the volume's.  Every block behind its group's   *)
(* inode table is in the range both allocate_block scans and                *)
(* deallocate_block asserts (lines 1264, 1265).                             *)
BitsMatchBlocks ==
  topic = "volume" =>
    LET g == blk_num_to_blk_group(volume, probe)
    IN  /\ g \in DescribedGroups(volume)
        /\ bit_to_blk(volume, tables, g, blk_to_bit(volume, probe)) = probe
        /\ probe >= get_first_data_block(volume, tables, g)
             => blk_to_bit(volume, probe) \in ScanRange(volume, tables, g)

(* The scan leaves the volume in one place only: with a first data block of *)
(* 1, last_bit of the last group is one too high.  That bit has no block,   *)
(* and only mke2fs's padding of the bitmap keeps it from being handed out.  *)
(* num_block_groups ignores the first data block, so it counts a group too  *)
(* many when the blocks fill their groups exactly; the zero descriptor of   *)
(* that group makes the first bit wrap, and the scan finds nothing there.   *)
ScanBounded ==
  topic = "volume" =>
    /\ \A g \in DescribedGroups(volume) :
          \A bit \in ScanRange(volume, tables, g) \ ExistingBits(volume, g) :
             /\ volume.s_first_data_block = 1
             /\ g = num_block_groups(volume) - 1
             /\ bit_to_blk(volume, tables, g, bit) = volume.s_blocks_count
    /\ \A g \in GroupsOf(volume) \ DescribedGroups(volume) : ScanRange(volume, tables, g) = {}

(* Every block of a file has a place in the tree, of its own: the one from  *)
(* which test_get_indirect_blocks computes the block back, and whose mode   *)
(* blk_iterator_next need not compare.                                      *)
PathSound ==
  topic = "file" => PathInRange(probe) /\ PathDeterminesBlock(probe) /\ ModeFromIndex(probe)

(* parse_buf finds the words of a line, whether it is given the length of   *)
(* the string, as by parse_path_ext2, or that of the buffer, as by main.    *)
WordsSplit ==
  topic = "line" => \A len \in {Len(line), MaxLine + 1} : SplitsWords(line, len)
=============================================================================
