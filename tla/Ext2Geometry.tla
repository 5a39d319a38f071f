---------------------------- MODULE Ext2Geometry ----------------------------
(***************************************************************************)
(* Block-group arithmetic of fs/ext2.c: which group a block is in, which   *)
(* bits of a group's block bitmap the allocator scans, and the conversions *)
(* bit -> block (allocate_block) and block -> bit (deallocate_block).      *)
(*                                                                         *)
(* As in the code every operator takes the superblock sb, a record with    *)
(* the fields the code reads, and table[g] stands for the bg_inode_table   *)
(* field of group g's descriptor.  The field s_table_blocks abbreviates    *)
(* s_inodes_per_group * sizeof(inode_ext2_t) / block size, the form it     *)
(* has in get_first_data_block_in_block_group.  Values are uint32_t.       *)
(***************************************************************************)
EXTENDS UInt32

num_block_groups(sb) ==
  (sb.s_blocks_count + (sb.s_blocks_per_group - 1)) \div sb.s_blocks_per_group

GroupsOf(sb) == 0 .. num_block_groups(sb) - 1

blk_num_to_blk_group(sb, blk) ==
  Sub32(blk, sb.s_first_data_block) \div sb.s_blocks_per_group

blk_group_to_blk_num(sb, g) ==
  g * sb.s_blocks_per_group + sb.s_first_data_block

get_first_data_block(sb, table, g) == table[g] + sb.s_table_blocks

first_bit(sb, table, g) ==
  Sub32(get_first_data_block(sb, table, g), blk_group_to_blk_num(sb, g))

(* Deviation: the last group is taken for a full one.                      *)
M_last_bit_full(sb, g) == sb.s_blocks_per_group - 1

last_bit(sb, g) ==
  IF g = num_block_groups(sb) - 1
  THEN sb.s_blocks_count - g * sb.s_blocks_per_group - 1
  ELSE sb.s_blocks_per_group - 1

(* The bits the allocation loop of allocate_block looks at, in order. *)
ScanRange(sb, table, g) == first_bit(sb, table, g) .. last_bit(sb, g)

(* allocated_blk_num, and bit_akt of deallocate_block. *)
bit_to_blk(sb, table, g, bit) ==
  Sub32(get_first_data_block(sb, table, g) + bit, first_bit(sb, table, g))

(* Deviation: a position relative to block 0, not to the group's start. *)
M_blk_to_bit(sb, blk) == blk % sb.s_blocks_per_group

blk_to_bit(sb, blk) ==
  Sub32(blk, blk_group_to_blk_num(sb, blk_num_to_blk_group(sb, blk)))

-----------------------------------------------------------------------------
(* The layout the format prescribes, against which the code is judged:      *)
(* group g holds the blocks from its start up to the next group's start or  *)
(* the end of the volume.                                                   *)
ExistingBits(sb, g) ==
  {bit \in 0 .. sb.s_blocks_per_group - 1 :
      blk_group_to_blk_num(sb, g) + bit < sb.s_blocks_count}

(* A superblock the tool can work with: a group is not empty, the first     *)
(* data block is 0 or 1 (block size above or equal to 1K), sums fit.        *)
SuperblockOK(sb) ==
  /\ sb.s_blocks_count \in Nat
  /\ sb.s_blocks_per_group \in Nat \ {0}
  /\ sb.s_first_data_block \in {0, 1}
  /\ sb.s_table_blocks \in Nat
  /\ sb.s_first_data_block < sb.s_blocks_count
  /\ sb.s_blocks_count + 2 * sb.s_blocks_per_group < U32

(* Group g exists and its inode table lies inside it. *)
GroupOK(sb, table, g) ==
  /\ blk_group_to_blk_num(sb, g) < sb.s_blocks_count
  /\ table[g] \in Nat
  /\ blk_group_to_blk_num(sb, g) <= table[g]
  /\ table[g] + sb.s_table_blocks
        <= blk_group_to_blk_num(sb, g) + sb.s_blocks_per_group
=============================================================================
