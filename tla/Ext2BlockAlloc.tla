--------------------------- MODULE Ext2BlockAlloc ---------------------------
(***************************************************************************)
(* The block allocator of fs/ext2.c: allocate_block, the chain of blocks   *)
(* allocate_new_data_block takes from it, and deallocate_block.            *)
(*                                                                         *)
(* The program is sequential but an operation is several device writes:    *)
(* the block bitmap, the group descriptor, the block and its index blocks, *)
(* the inode, the superblock.  A step is one of these writes, with the     *)
(* reads and the computation before it, so that the process may be killed  *)
(* (Crash) between any two.  A failed ASSERT prints and spins: the process *)
(* is "halted" until it is killed.                                         *)
(***************************************************************************)
EXTENDS Ext2Geometry, FiniteSets

CONSTANTS
  Sb,          \* the fields of the superblock that never change
  InodeTable,  \* bg_inode_table of every group
  Data,        \* for every group the bits of its data blocks (mke2fs marks all others)
  MaxChain,    \* most blocks one call takes: a data block and its index blocks (4)
  U16,         \* the number of uint16_t values, 2^16 in the program
  MaxCrashes   \* bound on the number of crashes

Groups    == GroupsOf(Sb)
Bits      == 0 .. Sb.s_blocks_per_group - 1
BlockNums == 0 .. Sb.s_blocks_count - 1

ASSUME LayoutAssumption ==
  /\ SuperblockOK(Sb)
  /\ \A g \in Groups : GroupOK(Sb, InodeTable, g)
  /\ Data \in [Groups -> SUBSET Bits]
  /\ \A g \in Groups : \A bit \in Data[g] :
        bit \in ExistingBits(Sb, g) /\ first_bit(Sb, InodeTable, g) <= bit
  /\ first_bit(Sb, InodeTable, 0) > 0   \* block 0 is not a data block
  /\ U16 \in Nat /\ Sb.s_blocks_per_group < U16
  /\ MaxChain \in Nat \ {0} /\ MaxChain < U32
  /\ MaxCrashes \in Nat

VARIABLES
  bmap,     \* disk: for every group the set bits of its block bitmap
  bgd,      \* disk: bg_free_blocks_count of every group
  dsb,      \* disk: s_free_blocks_count of the superblock
  sb,       \* memory: s_free_blocks_count of *gsb_ext2
  pc,       \* the write the program is about to do
  op,       \* the locals of the operation in progress
  held,     \* ghost: blocks the inodes on the disk list, of files that are whole
  halves,   \* ghost: files that lost blocks in a removal cut short, and kept their name
  stranded, \* ghost: blocks left behind by the cut removal of a file without a name
  starved,  \* ghost: allocate_block has failed behind the free-count gate
  crashes   \* ghost: crashes so far

vars == <<bmap, bgd, dsb, sb, pc, op, held, halves, stranded, starved, crashes>>
files == <<held, halves, stranded>>

(* got: the chain being built; file: the blocks of the file being removed,  *)
(* todo: those not freed yet, first: the one freed first (0: none yet),     *)
(* late: whether its name is wiped only after the removal.                  *)
NoOp == [goal |-> 0, grp |-> 0, need |-> 0, cnt |-> 0, indirect |-> FALSE,
         new_blk |-> 0, got |-> {}, file |-> {}, todo |-> {}, first |-> 0, late |-> FALSE]

OpType == [goal : Groups, grp : Groups, need : 0 .. MaxChain, cnt : 0 .. MaxChain,
           indirect : BOOLEAN, new_blk : BlockNums, got : SUBSET BlockNums,
           file : SUBSET BlockNums, todo : SUBSET BlockNums, first : BlockNums,
           late : BOOLEAN]

(* ruined: one of its blocks has been handed out again.                     *)
HalfType == [first : BlockNums, blocks : SUBSET BlockNums, ruined : BOOLEAN]

BlockOf(g, bit) == bit_to_blk(Sb, InodeTable, g, bit)
GroupOf(blk)    == blk_num_to_blk_group(Sb, blk)
BitOf(blk)      == blk_to_bit(Sb, blk)

(* Deviation: the decrement does not wrap.                                  *)
M_Dec16(n) == n - 1

(* --bg_free_blocks_count and ++bg_free_blocks_count on a uint16_t. *)
Dec16(n) == IF n = 0 THEN U16 - 1 ELSE n - 1
Inc16(n) == IF n = U16 - 1 THEN 0 ELSE n + 1

(* The data blocks whose bit is clear, as (group, bit) pairs. *)
ClearBits == {p \in Groups \X Bits : p[2] \in Data[p[1]] \ bmap[p[1]]}

(* A consistent image with any set of data blocks in use. *)
Init ==
  \E used \in [Groups -> SUBSET Bits] :
     /\ \A g \in Groups : used[g] \subseteq Data[g]
     /\ bmap = [g \in Groups |-> (Bits \ Data[g]) \cup used[g]]
     /\ held = UNION {{BlockOf(g, bit) : bit \in used[g]} : g \in Groups}
     /\ bgd  = [g \in Groups |-> Cardinality(Data[g] \ used[g])]
     /\ sb   = Cardinality(ClearBits)
     /\ dsb  = sb
     /\ pc = "idle" /\ op = NoOp
     /\ halves = {} /\ stranded = {}
     /\ starved = FALSE /\ crashes = 0

-----------------------------------------------------------------------------
(* allocate_new_data_block for an inode of group g: the gate on the free    *)
(* count, then n calls of allocate_block.  n > 1, or a data block under an  *)
(* existing index block, makes the call "indirect" (it->mode > 0).          *)
GrowStart(g, n, ind) ==
  /\ pc = "idle" /\ sb # 0
  /\ n > 1 => ind
  /\ pc' = "scan"
  /\ LET goal == GroupOf(blk_group_to_blk_num(Sb, g))
     IN  op' = [NoOp EXCEPT !.goal = goal, !.grp = goal, !.need = n, !.indirect = ind]
  /\ UNCHANGED <<bmap, bgd, dsb, sb, files, starved, crashes>>

(* The gate fails; write_file, the only caller, then reads block number 0   *)
(* from its iterator and ASSERT(blk_num != 0) stops the program.            *)
GrowRefused ==
  /\ pc = "idle" /\ sb = 0
  /\ pc' = "halted"
  /\ UNCHANGED <<bmap, bgd, dsb, sb, op, files, starved, crashes>>

(* The clear bits the loop of allocate_block can find in group g. *)
Candidates(g) == ScanRange(Sb, InodeTable, g) \ bmap[g]

(* Deviation: the wrap-around to group 0 forgotten, one group too far. *)
M_NextGroup(g) == IF g + 1 = num_block_groups(Sb) THEN num_block_groups(Sb) - 1 ELSE g + 1

NextGroup(g) == IF g + 1 = num_block_groups(Sb) THEN 0 ELSE g + 1

(* Deviation: the group after the last one is taken for the goal group. *)
M_Wrapped(g) == g + 1 = num_block_groups(Sb)

(* The scan has come back to the goal group. *)
Wrapped(g) == NextGroup(g) = op.goal

(* Deviation: the bit is taken without looking at the bitmap. *)
M_TakeBit(g, bit) == bit \in ScanRange(Sb, InodeTable, g)

(* The first clear bit. *)
TakeBit(g, bit) ==
  /\ bit \in Candidates(g)
  /\ \A b \in Candidates(g) : bit <= b

(* One pass of the do-while loop of allocate_block that finds a bit: the    *)
(* bitmap is written back with the bit set.                                 *)
ScanHit ==
  /\ pc = "scan"
  /\ \E bit \in Bits :
        /\ TakeBit(op.grp, bit)
        /\ bmap' = [bmap EXCEPT ![op.grp] = @ \cup {bit}]
        /\ op' = [op EXCEPT !.new_blk = BlockOf(op.grp, bit)]
        /\ halves' = {[x EXCEPT !.ruined = @ \/ BlockOf(op.grp, bit) \in x.blocks] :
                         x \in halves}
  /\ pc' = "bgd"
  /\ UNCHANGED <<bgd, dsb, sb, held, stranded, starved, crashes>>

(* A pass that finds none and moves to the next group. *)
ScanNext ==
  /\ pc = "scan" /\ Candidates(op.grp) = {} /\ ~Wrapped(op.grp)
  /\ op' = [op EXCEPT !.grp = NextGroup(@)]
  /\ UNCHANGED <<bmap, bgd, dsb, sb, pc, files, starved, crashes>>

(* The loop is over without a block.  allocate_block returns -1 and leaves  *)
(* *new_blk_num alone; its caller ignores that, counts the block as taken   *)
(* and goes on with the old value: 0 for a direct block (line 984), any     *)
(* value for the uninitialized new_blk of line 1006, the block below it in  *)
(* the chain after that, which so becomes its own index block.  The call is *)
(* followed to its end, where its counts go wrong; from then on a file is   *)
(* corrupt, and the volume is followed no further here (pc "lost"): what    *)
(* becomes of such a file is the subject of Ext2File.                       *)
ScanFail ==
  /\ pc = "scan" /\ Candidates(op.grp) = {} /\ Wrapped(op.grp)
  /\ \E blk \in IF op.indirect /\ op.cnt = 0 THEN BlockNums ELSE {op.new_blk} :
        /\ op' = [op EXCEPT !.new_blk = blk, !.need = @ - 1, !.cnt = @ + 1,
                            !.grp = op.goal]
  /\ starved' = TRUE
  /\ pc' = IF op.need = 1 THEN "link" ELSE "scan"
  /\ UNCHANGED <<bmap, bgd, dsb, sb, files, crashes>>

(* write_bgdesc_ext2 with the count decremented; the block is then zeroed   *)
(* and, for an index block, written with its one entry (contents are the    *)
(* subject of Ext2File).                                                    *)
AllocBgd ==
  /\ pc = "bgd"
  /\ bgd' = [bgd EXCEPT ![op.grp] = Dec16(@)]
  /\ op' = [op EXCEPT !.need = @ - 1, !.cnt = @ + 1, !.got = @ \cup {op.new_blk},
                      !.grp = op.goal]
  /\ pc' = IF op.need = 1 THEN "link" ELSE "scan"
  /\ UNCHANGED <<bmap, dsb, sb, files, starved, crashes>>

(* The write that makes the new blocks reachable: the index block that      *)
(* exists already (line 1035), or the inode (line 1067).                    *)
GrowLink ==
  /\ pc = "link"
  /\ held' = held \cup op.got
  /\ pc' = "super"
  /\ UNCHANGED <<bmap, bgd, dsb, sb, op, halves, stranded, starved, crashes>>

AtRest == IF starved THEN "lost" ELSE "idle"

(* Deviation: a call counts its data block and not its index blocks. *)
M_GrowCount(o) == 1

GrowCount(o) == o.cnt

(* write_superblock_ext2; with a block number of 0 write_file then stops in *)
(* its ASSERT.                                                              *)
GrowSuper ==
  /\ pc = "super"
  /\ sb' = Sub32(sb, GrowCount(op))
  /\ dsb' = sb'
  /\ pc' = IF op.new_blk = 0 THEN "halted" ELSE AtRest
  /\ op' = NoOp
  /\ UNCHANGED <<bmap, bgd, files, starved, crashes>>

-----------------------------------------------------------------------------
(* remove_file_ext2 on a file with the blocks F, all of which its inode     *)
(* lists.  unlink_file_ext2 has hidden the name already, unless the entry   *)
(* is the first of its block: then ("late") the name is wiped at the end.   *)
RemoveStart(F, late) ==
  /\ pc = "idle" /\ F # {}
  /\ op' = [NoOp EXCEPT !.file = F, !.todo = F, !.late = late]
  /\ pc' = "free"
  /\ UNCHANGED <<bmap, bgd, dsb, sb, files, starved, crashes>>

(* Deviation: the last position of a group taken for one past the end.      *)
M_FreeAsserts(g, bit) ==
  /\ bit \in ScanRange(Sb, InodeTable, g) \ {last_bit(Sb, g)}
  /\ bit \in bmap[g]

(* The three ASSERTs of deallocate_block. *)
FreeAsserts(g, bit) ==
  /\ bit \in ScanRange(Sb, InodeTable, g)
  /\ bit \in bmap[g]

(* Deviation: the position off by one when blocks are counted from 1. *)
M_FreedBit(blk) == (blk - blk_group_to_blk_num(Sb, GroupOf(blk))) + Sb.s_first_data_block

FreedBit(blk) == BitOf(blk)

(* deallocate_block on one of the file's blocks, up to the bitmap write.    *)
(* The inode on the disk goes on listing the block.                         *)
FreeBlock(blk) ==
  /\ pc = "free"
  /\ IF FreeAsserts(GroupOf(blk), FreedBit(blk))
     THEN /\ bmap' = [bmap EXCEPT ![GroupOf(blk)] = @ \ {FreedBit(blk)}]
          /\ op' = [op EXCEPT !.grp = GroupOf(blk), !.todo = @ \ {blk},
                              !.first = IF op.todo = op.file THEN blk ELSE @]
          /\ pc' = "free_bgd"
     ELSE /\ pc' = "halted"
          /\ UNCHANGED <<bmap, op>>
  /\ UNCHANGED <<bgd, dsb, sb, files, starved, crashes>>

FreeBgd ==
  /\ pc = "free_bgd"
  /\ bgd' = [bgd EXCEPT ![op.grp] = Inc16(@)]
  /\ pc' = "free_super"
  /\ UNCHANGED <<bmap, dsb, sb, op, files, starved, crashes>>

(* ++s_free_blocks_count on a uint32_t. *)
FreeSuper ==
  /\ pc = "free_super"
  /\ sb' = IF sb = U32 - 1 THEN 0 ELSE sb + 1
  /\ dsb' = sb'
  /\ pc' = "free"
  /\ op' = [op EXCEPT !.grp = 0]
  /\ UNCHANGED <<bmap, bgd, files, starved, crashes>>

(* write_inode_ext2 of the zeroed inode, when every block is free: only now *)
(* does no inode list them any more.                                        *)
RemoveEnd ==
  /\ pc = "free" /\ op.todo = {}
  /\ held' = held \ op.file
  /\ pc' = "idle" /\ op' = NoOp
  /\ UNCHANGED <<bmap, bgd, dsb, sb, halves, stranded, starved, crashes>>

(* A file half removed before a kill is removed again by its name: its      *)
(* inode still lists every block, so the block freed first is freed again,  *)
(* and an ASSERT of deallocate_block stops the program.  When that block,   *)
(* or an index block read on the way to it, has a new owner, it is his      *)
(* blocks that are freed, and the volume is followed no further.            *)
RemoveAgain(x) ==
  /\ pc = "idle" /\ x \in halves
  /\ pc' = IF ~x.ruined /\ ~FreeAsserts(GroupOf(x.first), FreedBit(x.first))
           THEN "halted" ELSE "lost"
  /\ op' = [NoOp EXCEPT !.first = x.first]
  /\ UNCHANGED <<bmap, bgd, dsb, sb, files, starved, crashes>>

(* A half removed file is grown: its index blocks may be anyone's by now,   *)
(* and the volume is followed no further.                                   *)
GrowHalf ==
  /\ pc = "idle" /\ sb # 0 /\ halves # {}
  /\ pc' = "lost"
  /\ UNCHANGED <<bmap, bgd, dsb, sb, op, files, starved, crashes>>

-----------------------------------------------------------------------------
(* The process is killed and started again: init_superblock reads the       *)
(* superblock from the disk.  Between operations that changes nothing       *)
(* (memory and disk agree), so only a crash inside one is counted.          *)
(* A file in its removal is whole as long as nothing is freed and its name  *)
(* is there.  With some blocks freed and its name there it is half removed; *)
(* without a name it is gone, and what was not freed yet is stranded.       *)
Begun == op.todo # op.file
Crash ==
  /\ pc \notin {"idle", "lost"} /\ crashes < MaxCrashes
  /\ crashes' = crashes + 1
  /\ sb' = dsb
  /\ held' = IF op.late /\ ~Begun THEN held ELSE held \ op.file
  /\ halves' = IF op.late /\ Begun
               THEN halves \cup {[first |-> op.first, blocks |-> op.file, ruined |-> FALSE]}
               ELSE halves
  /\ stranded' = IF op.late THEN stranded ELSE stranded \cup op.todo
  /\ pc' = AtRest /\ op' = NoOp
  /\ UNCHANGED <<bmap, bgd, dsb, starved>>

(* while (1) {} of a failed ASSERT, or a volume followed no further. *)
Stopped == pc \in {"halted", "lost"} /\ UNCHANGED vars

FreeBlocks == \E blk \in op.todo : FreeBlock(blk)

(* What the program does by itself once an operation has begun. *)
Step == \/ ScanHit \/ ScanNext \/ ScanFail \/ AllocBgd \/ GrowLink \/ GrowSuper
        \/ FreeBlocks \/ FreeBgd \/ FreeSuper \/ RemoveEnd

Next ==
  \/ \E g \in Groups, n \in 1 .. MaxChain, ind \in BOOLEAN : GrowStart(g, n, ind)
  \/ GrowRefused
  \/ \E F \in SUBSET held, late \in BOOLEAN : RemoveStart(F, late)
  \/ \E x \in halves : RemoveAgain(x)
  \/ GrowHalf
  \/ Step
  \/ Crash
  \/ Stopped

Spec     == Init /\ [][Next]_vars
FairSpec == Spec /\ WF_vars(Step)

-----------------------------------------------------------------------------
TypeOK ==
  /\ bmap \in [Groups -> SUBSET Bits]
  /\ bgd \in [Groups -> 0 .. U16 - 1]
  /\ dsb \in 0 .. U32 - 1
  /\ sb \in 0 .. U32 - 1
  /\ pc \in {"idle", "scan", "bgd", "link", "super", "free", "free_bgd", "free_super",
             "halted", "lost"}
  /\ op \in OpType
  /\ held \subseteq BlockNums
  /\ halves \subseteq HalfType
  /\ stranded \subseteq BlockNums
  /\ starved \in BOOLEAN
  /\ crashes \in 0 .. MaxCrashes

(* The bit of blk marks a data block of an existing group as taken. *)
IsData(blk) == GroupOf(blk) \in Groups /\ BitOf(blk) \in Data[GroupOf(blk)]
Marked(blk) == IsData(blk) /\ BitOf(blk) \in bmap[GroupOf(blk)]

(* Superblock copies, descriptors, bitmaps, inode tables and the bits past  *)
(* the end of the volume stay marked, whatever is freed and wherever the    *)
(* program is killed.                                                       *)
ReservedMarked == \A g \in Groups : Bits \ Data[g] \subseteq bmap[g]

(* A block that a file's inode lists is marked.  The exceptions are the     *)
(* blocks freed so far of a file in its removal, whose inode is written at  *)
(* the end; a kill in between makes them, when the name is still there, the *)
(* free blocks of a named file (halves, which held leaves out).             *)
HeldMarked == \A blk \in held \ (op.file \ op.todo) : Marked(blk)

(* Together: however often and wherever the program is killed, no block of  *)
(* a file is free in the bitmap, but those of a file whose removal is under *)
(* way or was cut short, and no metadata and no block past the end of the   *)
(* volume ever is; the bit deallocate_block clears is no other's.           *)
BitmapSound == ReservedMarked /\ HeldMarked

(* The only ways into an ASSERT, as long as allocate_block has not failed   *)
(* behind the gate: a write to a volume whose free count is zero, and the   *)
(* removal of a file an earlier, killed removal has freed blocks of.  The   *)
(* checks of deallocate_block (lines 1264-1267) hold for every other file.  *)
HaltsExplained ==
  ~starved /\ pc = "halted" => \/ sb = 0
                              \/ \E x \in halves : x.first = op.first /\ ~Marked(x.first)

(* When no operation is in progress the three records of free space agree,  *)
(* superblock, descriptors and bitmaps, and nothing leaks, but for what     *)
(* crashes cost: each leaves a descriptor count at most one off, the        *)
(* superblock off by at most one chain, and at most one chain leaked, or    *)
(* what a nameless file in its removal had left.  Off modulo the counters'  *)
(* width: a count left too low by a crash may be decremented below zero by  *)
(* a later chain.                                                           *)
Off(a, b, width) == IF (a - b) % width <= (b - a) % width
                    THEN (a - b) % width ELSE (b - a) % width
Owned  == held \cup stranded \cup (UNION {x.blocks : x \in halves})
Leaked == {p \in Groups \X Bits : /\ p[2] \in Data[p[1]] \cap bmap[p[1]]
                                  /\ BlockOf(p[1], p[2]) \notin Owned}
DriftBounded ==
  pc = "idle" /\ ~starved =>
    /\ dsb = sb
    /\ Off(sb, Cardinality(ClearBits), U32) <= MaxChain * crashes
    /\ Cardinality(Leaked) <= MaxChain * crashes
    /\ \A g \in Groups : Off(bgd[g], Cardinality(Data[g] \ bmap[g]), U16) <= crashes

(* A block that allocate_block hands out is a data block that belongs to    *)
(* nobody: no inode lists it, but one whose removal a kill cut short, and   *)
(* it is not in the chain being built.                                      *)
FreshBlock ==
  [][pc = "scan" /\ pc' = "bgd" =>
        IsData(op'.new_blk) /\ op'.new_blk \notin held \cup op.got]_vars

(* allocate_block fails only when there is no free block: its scan starts   *)
(* at the goal group, wraps around and leaves no group out.                 *)
FailsOnlyWhenFull ==
  [][~starved /\ starved' => \A g \in Groups : Data[g] \subseteq bmap[g]]_vars

(* The scan for a block ends. *)
ScanEnds == (pc = "scan") ~> (pc # "scan")
=============================================================================
