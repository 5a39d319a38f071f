---------------------------- MODULE MCBlockAlloc ----------------------------
(***************************************************************************)
(* A small volume for Ext2BlockAlloc: 1K blocks, so that block 1 is the    *)
(* first, and three groups of four blocks, of which the last is one block  *)
(* short, so that last_bit overshoots into the padding.  Each group begins *)
(* with two blocks of metadata; one of the root group's data blocks is the *)
(* root directory's and never freed.                                       *)
(***************************************************************************)
EXTENDS Ext2BlockAlloc

SmallSb == [s_blocks_count |-> 12, s_blocks_per_group |-> 4,
            s_first_data_block |-> 1, s_table_blocks |-> 1]

SmallTable == [g \in GroupsOf(SmallSb) |-> blk_group_to_blk_num(SmallSb, g) + 1]
SmallData  == [g \in GroupsOf(SmallSb) |-> {bit \in ExistingBits(SmallSb, g) :
                                               bit >= IF g = 0 THEN 3 ELSE 2}]
=============================================================================
