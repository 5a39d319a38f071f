------------------------ MODULE Ext2BlockAllocProofs ------------------------
(***************************************************************************)
(* For every volume: the block allocator keeps its types, hands out no     *)
(* block of a whole file, and fails an ASSERT of deallocate_block only on  *)
(* a file whose removal was cut short, wherever it is killed.              *)
(***************************************************************************)
EXTENDS Ext2BlockAlloc, FunctionsProofs, FiniteSetTheorems

(* The geometry facts for the volume at hand.                               *)
LEMMA VolumeFacts ==
  /\ num_block_groups(Sb) \in Nat \ {0}
  /\ Groups = 0 .. num_block_groups(Sb) - 1
  /\ 0 \in Groups
  /\ Sb.s_blocks_per_group \in Nat \ {0}
  /\ Sb.s_blocks_count \in Nat \ {0}
  /\ U16 \in Nat \ {0}
  /\ U32 \in Nat \ {0}
<1>1. SuperblockOK(Sb)
  BY LayoutAssumption
<1>2. num_block_groups(Sb) \in Nat \ {0}
  BY <1>1, GroupsNumber
<1>3. Groups = 0 .. num_block_groups(Sb) - 1
  BY DEF Groups, GroupsOf
<1>4. 0 \in Groups
  BY <1>2, <1>3, SMT
<1>5. U16 \in Nat /\ Sb.s_blocks_per_group < U16
  BY LayoutAssumption
<1> QED BY <1>1, <1>2, <1>3, <1>4, <1>5, U32Assumption, SMT DEF SuperblockOK

(* A scanned bit that is a data bit names an existing block other than 0,   *)
(* and leads back to itself.                                                *)
LEMMA DataBlock ==
  ASSUME NEW g \in Groups, NEW bit \in Data[g]
  PROVE  /\ BlockOf(g, bit) \in BlockNums
         /\ BlockOf(g, bit) # 0
         /\ GroupOf(BlockOf(g, bit)) = g
         /\ BitOf(BlockOf(g, bit)) = bit
<1>1. SuperblockOK(Sb) /\ GroupOK(Sb, InodeTable, g) /\ g \in GroupsOf(Sb)
  BY LayoutAssumption DEF Groups
<1>2. /\ bit \in 0 .. Sb.s_blocks_per_group - 1
      /\ bit \in ExistingBits(Sb, g)
      /\ first_bit(Sb, InodeTable, g) <= bit
  BY LayoutAssumption DEF Bits
<1>3. /\ BlockOf(g, bit) = blk_group_to_blk_num(Sb, g) + bit
      /\ GroupOf(BlockOf(g, bit)) = g
      /\ BitOf(BlockOf(g, bit)) = bit
  BY <1>1, <1>2, BlockBitRoundTrip DEF BlockOf, GroupOf, BitOf
<1>4. g \in Nat /\ bit \in Nat
  BY <1>2, VolumeFacts, SMT
<1>5. blk_group_to_blk_num(Sb, g) \in Nat /\ (g # 0 => blk_group_to_blk_num(Sb, g) # 0)
  <2>1. g * Sb.s_blocks_per_group \in Nat
    BY <1>4, VolumeFacts, SMT
  <2>2. g # 0 => g * Sb.s_blocks_per_group # 0
    BY <1>4, VolumeFacts, SMT
  <2>3. Sb.s_first_data_block \in Nat
    BY <1>1, SMT DEF SuperblockOK
  <2> QED BY <2>1, <2>2, <2>3, SMT DEF blk_group_to_blk_num
<1>6. BlockOf(g, bit) \in BlockNums
  BY <1>2, <1>3, <1>4, <1>5, VolumeFacts, SMT DEF ExistingBits, BlockNums
<1>7. bit # 0 \/ g # 0
  <2>1. first_bit(Sb, InodeTable, 0) > 0
    BY LayoutAssumption
  <2>2. first_bit(Sb, InodeTable, 0) \in Nat
    BY <1>1, VolumeFacts, LayoutAssumption, FirstBit DEF Groups
  <2> QED BY <1>2, <2>1, <2>2, SMT
<1>8. BlockOf(g, bit) # 0
  BY <1>3, <1>4, <1>5, <1>7, SMT
<1> QED BY <1>3, <1>6, <1>8

(* Looking at the group of a group's first block gives the group.           *)
LEMMA GoalGroup ==
  ASSUME NEW g \in Groups
  PROVE  GroupOf(blk_group_to_blk_num(Sb, g)) \in Groups
<1>1. SuperblockOK(Sb) /\ g \in Nat
  BY LayoutAssumption, VolumeFacts, SMT
<1>2. g * Sb.s_blocks_per_group \in Nat
  BY <1>1, SMT DEF SuperblockOK
<1>3. Sub32(blk_group_to_blk_num(Sb, g), Sb.s_first_data_block)
        = g * Sb.s_blocks_per_group + 0
  BY <1>1, <1>2, SMT DEF Sub32, blk_group_to_blk_num, SuperblockOK
<1>4. (g * Sb.s_blocks_per_group + 0) \div Sb.s_blocks_per_group = g
  BY <1>1, DivGroup, VolumeFacts, SMT
<1> QED BY <1>3, <1>4 DEF GroupOf, blk_num_to_blk_group

(* The bits of a group's bitmap the scan may choose, when the reserved bits *)
(* are marked, are data bits.                                               *)
LEMMA CandidatesAreData ==
  ASSUME NEW g \in Groups, Bits \ Data[g] \subseteq bmap[g],
         NEW bit \in Candidates(g)
  PROVE  bit \in Data[g] /\ bit \notin bmap[g]
<1>1. SuperblockOK(Sb) /\ GroupOK(Sb, InodeTable, g) /\ g \in GroupsOf(Sb)
  BY LayoutAssumption DEF Groups
<1>2. bit \in Bits
  BY <1>1, ScanInBitmap DEF Candidates, Bits
<1> QED BY <1>2 DEF Candidates

(* Conversely the scan overlooks no clear data bit.                         *)
LEMMA DataAreCandidates ==
  ASSUME NEW g \in Groups, NEW bit \in Data[g], bit \notin bmap[g]
  PROVE  bit \in Candidates(g)
<1>1. SuperblockOK(Sb) /\ GroupOK(Sb, InodeTable, g) /\ g \in GroupsOf(Sb)
  BY LayoutAssumption DEF Groups
<1>2. bit \in ExistingBits(Sb, g) /\ first_bit(Sb, InodeTable, g) <= bit
  BY LayoutAssumption
<1> QED BY <1>1, <1>2, ScanReachesAll DEF Candidates

-----------------------------------------------------------------------------
(* What holds of the chain being built: its blocks are marked, the one just *)
(* marked is nobody's, and a call that failed never gets back to "idle".    *)
ChainOK ==
  /\ \A blk \in op.got : Marked(blk)
  /\ pc = "bgd" => /\ Marked(op.new_blk)
                   /\ op.new_blk # 0
                   /\ op.new_blk \notin held \cup op.got
  /\ pc \in {"scan", "bgd"} => op.need # 0
  /\ op.need + op.cnt <= MaxChain
  /\ starved => pc \in {"scan", "bgd", "link", "super", "halted", "lost"}
  /\ pc \in {"link", "super"} /\ ~starved => op.new_blk # 0

(* What holds of the file being removed: what is freed of it is not marked. *)
Removing == {"free", "free_bgd", "free_super"}
RemovalOK ==
  /\ op.todo \subseteq op.file /\ op.file \subseteq held
  /\ \A blk \in op.file \ op.todo : ~Marked(blk)
  /\ op.file # {} => pc \in Removing /\ op.got = {}

IInv == TypeOK /\ ReservedMarked /\ HeldMarked /\ ChainOK /\ RemovalOK /\ HaltsExplained

(* An operation record with nothing in it is well formed.                   *)
LEMMA NoOpType ==
  /\ NoOp \in OpType
  /\ NoOp.got = {} /\ NoOp.need = 0 /\ NoOp.cnt = 0
  /\ NoOp.file = {} /\ NoOp.todo = {}
<1>1. 0 \in BlockNums /\ 0 \in 0 .. MaxChain
  BY VolumeFacts, LayoutAssumption, SMT DEF BlockNums
<1> QED BY <1>1, VolumeFacts DEF NoOp, OpType

(* The free blocks can be counted in the superblock's uint32_t: different   *)
(* clear bits are different blocks.                                         *)
LEMMA ClearBitsCount ==
  /\ IsFiniteSet(ClearBits)
  /\ Cardinality(ClearBits) \in 0 .. U32 - 1
<1> DEFINE f == [p \in ClearBits |-> BlockOf(p[1], p[2])]
<1>1. ASSUME NEW p \in ClearBits
      PROVE  /\ p = <<p[1], p[2]>> /\ p[1] \in Groups /\ p[2] \in Data[p[1]]
             /\ BlockOf(p[1], p[2]) \in BlockNums
             /\ GroupOf(BlockOf(p[1], p[2])) = p[1]
             /\ BitOf(BlockOf(p[1], p[2])) = p[2]
  <2>1. p = <<p[1], p[2]>> /\ p[1] \in Groups /\ p[2] \in Data[p[1]]
    BY <1>1 DEF ClearBits
  <2> QED BY <2>1, DataBlock
<1>2. f \in [ClearBits -> BlockNums]
  BY <1>1
<1>3. ASSUME NEW p \in ClearBits, NEW q \in ClearBits, f[p] = f[q]
      PROVE  p = q
  <2>1. BlockOf(p[1], p[2]) = BlockOf(q[1], q[2])
    BY <1>3
  <2>2. p[1] = q[1] /\ p[2] = q[2]
    BY <2>1, <1>1
  <2> QED BY <2>2, <1>1
<1>4. f \in Injection(ClearBits, BlockNums)
  BY <1>2, <1>3 DEF Injection, IsInjective
<1>5. IsFiniteSet(BlockNums) /\ Cardinality(BlockNums) = Sb.s_blocks_count
  <2>1. Sb.s_blocks_count - 1 \in Int /\ 0 \in Int
    BY VolumeFacts, SMT
  <2>2. /\ IsFiniteSet(BlockNums)
        /\ Cardinality(BlockNums) = IF 0 > Sb.s_blocks_count - 1 THEN 0
                                    ELSE (Sb.s_blocks_count - 1) - 0 + 1
    BY <2>1, FS_Interval DEF BlockNums
  <2> QED BY <2>2, VolumeFacts, SMT
<1>6. IsFiniteSet(ClearBits) /\ Cardinality(ClearBits) <= Cardinality(BlockNums)
  BY <1>4, <1>5, FS_Injection
<1>7. Cardinality(ClearBits) \in Nat
  BY <1>6, FS_CardinalityType
<1>8. SuperblockOK(Sb)
  BY LayoutAssumption
<1> QED BY <1>5, <1>6, <1>7, <1>8, VolumeFacts, SMT DEF SuperblockOK

(* The free blocks of a group can be counted in a uint16_t.                 *)
LEMMA GroupCount ==
  ASSUME NEW S \in SUBSET Bits
  PROVE  IsFiniteSet(S) /\ Cardinality(S) \in 0 .. U16 - 1
<1>1. Sb.s_blocks_per_group - 1 \in Int /\ 0 \in Int
  BY VolumeFacts, SMT
<1>2. /\ IsFiniteSet(Bits)
      /\ Cardinality(Bits) = IF 0 > Sb.s_blocks_per_group - 1 THEN 0
                             ELSE (Sb.s_blocks_per_group - 1) - 0 + 1
  BY <1>1, FS_Interval DEF Bits
<1>3. IsFiniteSet(S) /\ Cardinality(S) <= Cardinality(Bits)
  BY <1>2, FS_Subset
<1>4. Cardinality(S) \in Nat
  BY <1>3, FS_CardinalityType
<1>5. Sb.s_blocks_per_group < U16
  BY LayoutAssumption
<1> QED BY <1>2, <1>3, <1>4, <1>5, VolumeFacts, SMT

LEMMA InitIInv == Init => IInv
<1> SUFFICES ASSUME Init PROVE IInv
  OBVIOUS
<1>1. PICK used \in [Groups -> SUBSET Bits] :
         /\ \A g \in Groups : used[g] \subseteq Data[g]
         /\ bmap = [g \in Groups |-> (Bits \ Data[g]) \cup used[g]]
         /\ held = UNION {{BlockOf(g, bit) : bit \in used[g]} : g \in Groups}
         /\ bgd  = [g \in Groups |-> Cardinality(Data[g] \ used[g])]
         /\ sb   = Cardinality(ClearBits)
         /\ dsb  = sb
         /\ pc = "idle" /\ op = NoOp
         /\ halves = {} /\ stranded = {}
         /\ starved = FALSE /\ crashes = 0
  BY DEF Init
<1>2. bmap \in [Groups -> SUBSET Bits]
  BY <1>1
<1>3. ASSUME NEW blk \in held
      PROVE  blk \in BlockNums /\ Marked(blk)
  <2>1. PICK g \in Groups : \E bit \in used[g] : blk = BlockOf(g, bit)
    BY <1>1, <1>3
  <2>2. PICK bit \in used[g] : blk = BlockOf(g, bit)
    BY <2>1
  <2>3. bit \in Data[g] /\ bit \in bmap[g]
    BY <1>1
  <2> QED BY <2>2, <2>3, DataBlock DEF Marked, IsData
<1>4. bgd \in [Groups -> 0 .. U16 - 1]
  <2>1. \A g \in Groups : (Data[g] \ used[g]) \in SUBSET Bits
    BY LayoutAssumption
  <2> QED BY <1>1, <2>1, GroupCount
<1>5. sb \in 0 .. U32 - 1 /\ dsb \in 0 .. U32 - 1
  BY <1>1, ClearBitsCount
<1>6. crashes \in 0 .. MaxCrashes
  BY <1>1, LayoutAssumption, SMT
<1>7. TypeOK
  BY <1>1, <1>2, <1>3, <1>4, <1>5, <1>6, NoOpType DEF TypeOK
<1>8. ReservedMarked
  BY <1>1 DEF ReservedMarked
<1>9. HeldMarked
  BY <1>3 DEF HeldMarked
<1>10. ChainOK
  <2>1. MaxChain \in Nat
    BY LayoutAssumption
  <2> QED BY <1>1, <2>1, NoOpType, SMT DEF ChainOK
<1>11. HaltsExplained
  BY <1>1 DEF HaltsExplained
<1>12. RemovalOK
  BY <1>1, NoOpType DEF RemovalOK
<1> QED BY <1>7, <1>8, <1>9, <1>10, <1>11, <1>12 DEF IInv

-----------------------------------------------------------------------------
(* Marked is about the bitmaps only, and setting bits keeps it.             *)
LEMMA MarkedMonotone ==
  ASSUME \A g \in Groups : bmap[g] \subseteq bmap'[g], NEW blk, Marked(blk)
  PROVE  Marked(blk)'
BY DEF Marked, IsData, GroupOf, BitOf

(* Outside of a removal every block of a file is marked.                    *)
LEMMA AllMarked ==
  ASSUME IInv, pc \notin Removing
  PROVE  op.file = {} /\ op.todo = {} /\ \A blk \in held : Marked(blk)
<1>1. op.file = {} /\ op.todo = {}
  BY DEF IInv, RemovalOK
<1> QED BY <1>1 DEF IInv, HeldMarked

(* A step outside of a removal that begins none.                            *)
LEMMA NoRemoval ==
  ASSUME IInv, pc \notin Removing, \A g \in Groups : bmap[g] \subseteq bmap'[g],
         op'.file = {}, op'.todo = {}, held' \subseteq held
  PROVE  HeldMarked' /\ RemovalOK'
<1>1. \A blk \in held' : Marked(blk)'
  BY AllMarked, MarkedMonotone
<1>2. HeldMarked'
  BY <1>1 DEF HeldMarked
<1> QED BY <1>2 DEF RemovalOK

(* A step of a removal that frees nothing.                                  *)
LEMMA RemovalGoesOn ==
  ASSUME IInv, bmap' = bmap, held' = held, op'.file = op.file, op'.todo = op.todo,
         op'.got = op.got, op.file # {} => pc' \in Removing
  PROVE  HeldMarked' /\ RemovalOK'
<1>1. \A blk : Marked(blk)' <=> Marked(blk)
  BY DEF Marked, IsData, GroupOf, BitOf
<1>2. HeldMarked'
  BY <1>1 DEF IInv, HeldMarked
<1> QED BY <1>1, <1>2 DEF IInv, RemovalOK

LEMMA GrowStartIInv ==
  ASSUME IInv, NEW g \in Groups, NEW n \in 1 .. MaxChain, NEW ind \in BOOLEAN,
         GrowStart(g, n, ind)
  PROVE  IInv'
<1> DEFINE goal == GroupOf(blk_group_to_blk_num(Sb, g))
<1>1. /\ pc = "idle" /\ pc' = "scan"
      /\ op' = [NoOp EXCEPT !.goal = goal, !.grp = goal, !.need = n, !.indirect = ind]
      /\ UNCHANGED <<bmap, bgd, dsb, sb, held, halves, stranded, starved, crashes>>
  BY DEF GrowStart, files
<1>2. goal \in Groups
  BY GoalGroup
<1>3. MaxChain \in Nat /\ n \in 0 .. MaxChain /\ n # 0
  BY LayoutAssumption, SMT
<1> HIDE DEF goal
<1>4. /\ op' \in OpType
      /\ op'.got = {} /\ op'.need = n /\ op'.cnt = 0
      /\ op'.file = {} /\ op'.todo = {}
  <2>1. op' = [goal |-> goal, grp |-> goal, need |-> n, cnt |-> 0, indirect |-> ind,
               new_blk |-> 0, got |-> {}, file |-> {}, todo |-> {}, first |-> 0,
               late |-> FALSE]
    BY <1>1 DEF NoOp
  <2>2. 0 \in BlockNums /\ 0 \in 0 .. MaxChain
    BY <1>3, VolumeFacts, SMT DEF BlockNums
  <2> QED BY <2>1, <2>2, <1>2, <1>3 DEF OpType
<1>5. TypeOK'
  BY <1>1, <1>4 DEF IInv, TypeOK
<1>6. ReservedMarked'
  BY <1>1 DEF IInv, ReservedMarked
<1>7. ChainOK'
  BY <1>1, <1>3, <1>4, SMT DEF IInv, ChainOK
<1>8. HaltsExplained'
  BY <1>1 DEF HaltsExplained
<1>9. HeldMarked' /\ RemovalOK'
  BY <1>1, <1>4, NoRemoval DEF Removing
<1> QED BY <1>5, <1>6, <1>7, <1>8, <1>9 DEF IInv

LEMMA GrowRefusedIInv ==
  ASSUME IInv, GrowRefused
  PROVE  IInv'
<1>1. /\ pc = "idle" /\ sb = 0 /\ pc' = "halted"
      /\ UNCHANGED <<bmap, bgd, dsb, sb, op, held, halves, stranded, starved, crashes>>
  BY DEF GrowRefused, files
<1>2. TypeOK'
  BY <1>1 DEF IInv, TypeOK
<1>3. ReservedMarked'
  BY <1>1 DEF IInv, ReservedMarked
<1>6. HeldMarked' /\ RemovalOK'
  BY <1>1, AllMarked, NoRemoval DEF Removing
<1>4. ChainOK'
  BY <1>1, MarkedMonotone DEF IInv, ChainOK
<1>5. HaltsExplained'
  BY <1>1 DEF HaltsExplained
<1> QED BY <1>2, <1>3, <1>4, <1>5, <1>6 DEF IInv

(* The scan takes a clear data bit, so its block is nobody's.               *)
LEMMA ScanHitFresh ==
  ASSUME IInv, ScanHit
  PROVE  \E bit \in Data[op.grp] :
            /\ bit \notin bmap[op.grp]
            /\ bmap' = [bmap EXCEPT ![op.grp] = @ \cup {bit}]
            /\ op' = [op EXCEPT !.new_blk = BlockOf(op.grp, bit)]
            /\ BlockOf(op.grp, bit) \notin held \cup op.got
<1>1. PICK bit \in Bits :
         /\ TakeBit(op.grp, bit)
         /\ bmap' = [bmap EXCEPT ![op.grp] = @ \cup {bit}]
         /\ op' = [op EXCEPT !.new_blk = BlockOf(op.grp, bit)]
  BY DEF ScanHit
<1>2. op.grp \in Groups
  BY DEF IInv, TypeOK, OpType
<1>3. bit \in Data[op.grp] /\ bit \notin bmap[op.grp]
  BY <1>1, <1>2, CandidatesAreData DEF TakeBit, IInv, ReservedMarked
<1>4. ~Marked(BlockOf(op.grp, bit))
  BY <1>2, <1>3, DataBlock DEF Marked
<1>5. BlockOf(op.grp, bit) \notin held \cup op.got
  <2>1. pc \notin Removing
    BY DEF ScanHit, Removing
  <2> QED BY <1>4, <2>1, AllMarked DEF IInv, ChainOK
<1> QED BY <1>1, <1>3, <1>5

LEMMA ScanHitIInv ==
  ASSUME IInv, ScanHit
  PROVE  IInv'
<1>1. /\ pc = "scan" /\ pc' = "bgd"
      /\ UNCHANGED <<bgd, dsb, sb, held, stranded, starved, crashes>>
  BY DEF ScanHit
<1>2. op \in OpType /\ op.grp \in Groups /\ bmap \in [Groups -> SUBSET Bits]
  BY DEF IInv, TypeOK, OpType
<1>3. PICK bit \in Data[op.grp] :
         /\ bit \notin bmap[op.grp]
         /\ bmap' = [bmap EXCEPT ![op.grp] = @ \cup {bit}]
         /\ op' = [op EXCEPT !.new_blk = BlockOf(op.grp, bit)]
         /\ BlockOf(op.grp, bit) \notin held \cup op.got
  BY ScanHitFresh
<1>b. PICK blk : blk = BlockOf(op.grp, bit)
  OBVIOUS
<1>4. /\ blk \in BlockNums /\ blk # 0
      /\ GroupOf(blk) = op.grp /\ BitOf(blk) = bit
  BY <1>b, <1>2, DataBlock
<1>5. bit \in Bits
  BY <1>2, LayoutAssumption
<1>6. bmap' \in [Groups -> SUBSET Bits] /\ (\A g \in Groups : bmap[g] \subseteq bmap'[g])
  BY <1>2, <1>3, <1>5
<1>7. /\ op' \in OpType
      /\ op'.new_blk = blk
      /\ op'.got = op.got /\ op'.need = op.need /\ op'.cnt = op.cnt
      /\ op'.file = op.file /\ op'.todo = op.todo
  <2>1. op' = [op EXCEPT !.new_blk = blk]
    BY <1>b, <1>3
  <2> QED BY <1>2, <1>4, <2>1 DEF OpType
<1>8. Marked(blk)'
  BY <1>2, <1>3, <1>4 DEF Marked, IsData, GroupOf, BitOf
<1>9. TypeOK'
  <2>1. halves' \subseteq HalfType
    <3>1. PICK b \in Bits :
             halves' = {[x EXCEPT !.ruined = @ \/ BlockOf(op.grp, b) \in x.blocks] :
                          x \in halves}
      BY DEF ScanHit
    <3>2. halves \subseteq HalfType
      BY DEF IInv, TypeOK
    <3>3. ASSUME NEW x \in HalfType
          PROVE  [x EXCEPT !.ruined = @ \/ BlockOf(op.grp, b) \in x.blocks] \in HalfType
      BY Zenon DEF HalfType
    <3> QED BY <3>1, <3>2, <3>3
  <2> QED BY <1>1, <1>6, <1>7, <2>1 DEF IInv, TypeOK
<1>10. ReservedMarked'
  BY <1>6 DEF IInv, ReservedMarked
<1>13. HeldMarked' /\ RemovalOK'
  BY <1>1, <1>6, <1>7, AllMarked, NoRemoval DEF Removing
<1>11. ChainOK'
  <2>1. \A b \in op'.got : Marked(b)'
    BY <1>6, <1>7, MarkedMonotone DEF IInv, ChainOK
  <2>2. Marked(op.new_blk)' /\ op'.new_blk # 0 /\ op'.new_blk \notin held' \cup op'.got
    <3>1. blk \notin held \cup op.got
      BY <1>b, <1>3
    <3>2. Marked(op.new_blk)'
      BY <1>7, <1>8 DEF Marked, IsData, GroupOf, BitOf
    <3> QED BY <3>1, <3>2, <1>1, <1>4, <1>7
  <2>3. op.need # 0 /\ op.need + op.cnt <= MaxChain
    BY <1>1 DEF IInv, ChainOK
  <2> QED BY <2>1, <2>2, <2>3, <1>1, <1>7 DEF ChainOK
<1>12. HaltsExplained'
  BY <1>1 DEF HaltsExplained
<1> QED BY <1>9, <1>10, <1>11, <1>12, <1>13 DEF IInv

(* Moving on keeps the group index inside the volume.                       *)
LEMMA NextGroupType ==
  ASSUME NEW g \in Groups
  PROVE  NextGroup(g) \in Groups
BY VolumeFacts, SMT DEF NextGroup

LEMMA ScanNextIInv ==
  ASSUME IInv, ScanNext
  PROVE  IInv'
<1>1. /\ pc = "scan" /\ op' = [op EXCEPT !.grp = NextGroup(@)]
      /\ UNCHANGED <<bmap, bgd, dsb, sb, pc, held, halves, stranded, starved, crashes>>
  BY DEF ScanNext, files
<1>2. op \in OpType /\ NextGroup(op.grp) \in Groups
  BY NextGroupType DEF IInv, TypeOK, OpType
<1>3. /\ op' \in OpType /\ op'.new_blk = op.new_blk
      /\ op'.got = op.got /\ op'.need = op.need /\ op'.cnt = op.cnt
      /\ op'.file = op.file /\ op'.todo = op.todo
  BY <1>1, <1>2 DEF OpType
<1>4. TypeOK'
  BY <1>1, <1>3 DEF IInv, TypeOK
<1>5. ReservedMarked'
  BY <1>1 DEF IInv, ReservedMarked
<1>8. HeldMarked' /\ RemovalOK'
  BY <1>1, <1>3, AllMarked, NoRemoval DEF Removing
<1>6. ChainOK'
  BY <1>1, <1>3, MarkedMonotone DEF IInv, ChainOK
<1>7. HaltsExplained'
  BY <1>1 DEF HaltsExplained
<1> QED BY <1>4, <1>5, <1>6, <1>7, <1>8 DEF IInv

(* Counting one block of the chain off keeps both counters in range.        *)
LEMMA ChainCount ==
  ASSUME IInv, pc \in {"scan", "bgd"}
  PROVE  /\ op.need - 1 \in 0 .. MaxChain /\ op.cnt + 1 \in 0 .. MaxChain
         /\ (op.need - 1) + (op.cnt + 1) <= MaxChain
         /\ (op.need = 1 <=> op.need - 1 = 0)
<1>1. op.need \in 0 .. MaxChain /\ op.cnt \in 0 .. MaxChain
  BY DEF IInv, TypeOK, OpType
<1>2. op.need # 0 /\ op.need + op.cnt <= MaxChain /\ MaxChain \in Nat
  BY LayoutAssumption DEF IInv, ChainOK
<1> QED BY <1>1, <1>2, SMT

LEMMA ScanFailIInv ==
  ASSUME IInv, ScanFail
  PROVE  IInv'
<1>1. /\ pc = "scan" /\ starved' = TRUE
      /\ pc' = IF op.need = 1 THEN "link" ELSE "scan"
      /\ UNCHANGED <<bmap, bgd, dsb, sb, held, halves, stranded, crashes>>
  BY DEF ScanFail, files
<1>2. op \in OpType
  BY DEF IInv, TypeOK
<1>3. PICK blk \in BlockNums :
        op' = [op EXCEPT !.new_blk = blk, !.need = @ - 1, !.cnt = @ + 1, !.grp = op.goal]
  <2>1. op.new_blk \in BlockNums
    BY <1>2 DEF OpType
  <2>2. (IF op.indirect /\ op.cnt = 0 THEN BlockNums ELSE {op.new_blk}) \subseteq BlockNums
    BY <2>1
  <2>3. \E blk \in IF op.indirect /\ op.cnt = 0 THEN BlockNums ELSE {op.new_blk} :
           op' = [op EXCEPT !.new_blk = blk, !.need = @ - 1, !.cnt = @ + 1,
                            !.grp = op.goal]
    BY Zenon DEF ScanFail
  <2> QED BY <2>2, <2>3, Zenon
<1>4. /\ op' \in OpType
      /\ op'.got = op.got /\ op'.need = op.need - 1 /\ op'.cnt = op.cnt + 1
      /\ op'.file = op.file /\ op'.todo = op.todo
  BY <1>1, <1>2, <1>3, ChainCount DEF OpType
<1>5. TypeOK'
  BY <1>1, <1>4 DEF IInv, TypeOK
<1>6. ReservedMarked'
  BY <1>1 DEF IInv, ReservedMarked
<1>9. HeldMarked' /\ RemovalOK'
  BY <1>1, <1>4, AllMarked, NoRemoval DEF Removing
<1>7. ChainOK'
  <2>1. \A x \in op'.got : Marked(x)'
    BY <1>1, <1>4, MarkedMonotone DEF IInv, ChainOK
  <2>2. op'.need + op'.cnt <= MaxChain /\ (op'.need = 0 <=> pc' = "link")
    BY <1>1, <1>4, ChainCount
  <2> QED BY <2>1, <2>2, <1>1 DEF ChainOK
<1>8. HaltsExplained'
  BY <1>1 DEF HaltsExplained
<1> QED BY <1>5, <1>6, <1>7, <1>8, <1>9 DEF IInv

LEMMA AllocBgdIInv ==
  ASSUME IInv, AllocBgd
  PROVE  IInv'
<1>1. /\ pc = "bgd" /\ pc' = IF op.need = 1 THEN "link" ELSE "scan"
      /\ bgd' = [bgd EXCEPT ![op.grp] = Dec16(@)]
      /\ op' = [op EXCEPT !.need = @ - 1, !.cnt = @ + 1, !.got = @ \cup {op.new_blk},
                          !.grp = op.goal]
      /\ UNCHANGED <<bmap, dsb, sb, held, halves, stranded, starved, crashes>>
  BY DEF AllocBgd, files
<1>2. op \in OpType /\ bgd \in [Groups -> 0 .. U16 - 1]
  BY DEF IInv, TypeOK
<1>3. \A n \in 0 .. U16 - 1 : Dec16(n) \in 0 .. U16 - 1
  BY VolumeFacts, SMT DEF Dec16
<1>4. bgd' \in [Groups -> 0 .. U16 - 1]
  BY <1>1, <1>2, <1>3 DEF OpType
<1>5. /\ op' \in OpType /\ op'.new_blk = op.new_blk
      /\ op'.got = op.got \cup {op.new_blk}
      /\ op'.need = op.need - 1 /\ op'.cnt = op.cnt + 1
      /\ op'.file = op.file /\ op'.todo = op.todo
  BY <1>1, <1>2, ChainCount DEF OpType
<1>6. TypeOK'
  BY <1>1, <1>4, <1>5 DEF IInv, TypeOK
<1>7. ReservedMarked'
  BY <1>1 DEF IInv, ReservedMarked
<1>10. HeldMarked' /\ RemovalOK'
  BY <1>1, <1>5, AllMarked, NoRemoval DEF Removing
<1>8. ChainOK'
  <2>1. \A blk \in op'.got : Marked(blk)
    BY <1>1, <1>5 DEF IInv, ChainOK
  <2>2. \A blk \in op'.got : Marked(blk)'
    BY <1>1, <2>1, MarkedMonotone
  <2>3. op'.need + op'.cnt <= MaxChain /\ (op'.need = 0 <=> pc' = "link")
    BY <1>1, <1>5, ChainCount
  <2>4. op'.new_blk # 0
    BY <1>1, <1>5 DEF IInv, ChainOK
  <2> QED BY <2>2, <2>3, <2>4, <1>1 DEF ChainOK
<1>9. HaltsExplained'
  BY <1>1 DEF HaltsExplained
<1> QED BY <1>6, <1>7, <1>8, <1>9, <1>10 DEF IInv

LEMMA GrowLinkIInv ==
  ASSUME IInv, GrowLink
  PROVE  IInv'
<1>1. /\ pc = "link" /\ pc' = "super" /\ held' = held \cup op.got
      /\ UNCHANGED <<bmap, bgd, dsb, sb, op, halves, stranded, starved, crashes>>
  BY DEF GrowLink
<1>2. op.got \subseteq BlockNums
  BY DEF IInv, TypeOK, OpType
<1>3. TypeOK'
  BY <1>1, <1>2 DEF IInv, TypeOK
<1>4. ReservedMarked'
  BY <1>1 DEF IInv, ReservedMarked
<1>5. op.file = {} /\ op.todo = {} /\ \A blk \in held' : Marked(blk)
  BY <1>1, AllMarked DEF IInv, ChainOK, Removing
<1>6. HeldMarked' /\ RemovalOK'
  BY <1>1, <1>5, MarkedMonotone DEF HeldMarked, RemovalOK
<1>7. ChainOK'
  BY <1>1, MarkedMonotone DEF IInv, ChainOK
<1>8. HaltsExplained'
  BY <1>1 DEF HaltsExplained
<1> QED BY <1>3, <1>4, <1>6, <1>7, <1>8 DEF IInv

LEMMA GrowSuperIInv ==
  ASSUME IInv, GrowSuper
  PROVE  IInv'
<1>1. /\ pc = "super" /\ sb' = Sub32(sb, op.cnt) /\ dsb' = sb'
      /\ pc' = IF op.new_blk = 0 THEN "halted" ELSE AtRest
      /\ op' = NoOp
      /\ UNCHANGED <<bmap, bgd, held, halves, stranded, starved, crashes>>
  BY DEF GrowSuper, GrowCount, files
<1>2. sb' \in 0 .. U32 - 1
  <2>1. op.cnt \in Nat /\ op.cnt <= MaxChain /\ sb \in 0 .. U32 - 1
    BY LayoutAssumption, SMT DEF IInv, TypeOK, OpType
  <2>2. MaxChain < U32
    BY LayoutAssumption
  <2> QED BY <1>1, <2>1, <2>2, VolumeFacts, LayoutAssumption, SMTT(60) DEF Sub32
<1>3. TypeOK'
  BY <1>1, <1>2, NoOpType DEF IInv, TypeOK, AtRest
<1>4. ReservedMarked'
  BY <1>1 DEF IInv, ReservedMarked
<1>5. ChainOK'
  <2>1. op'.need + op'.cnt <= MaxChain /\ op'.got = {}
    BY <1>1, NoOpType, LayoutAssumption, SMT
  <2> QED BY <1>1, <2>1 DEF ChainOK, AtRest
<1>6. HaltsExplained'
  BY <1>1 DEF HaltsExplained, IInv, ChainOK, AtRest
<1>7. HeldMarked' /\ RemovalOK'
  BY <1>1, NoOpType, NoRemoval DEF Removing
<1> QED BY <1>3, <1>4, <1>5, <1>6, <1>7 DEF IInv

(* A marked block passes the three ASSERTs of deallocate_block.             *)
LEMMA MarkedPassesAsserts ==
  ASSUME NEW blk, Marked(blk)
  PROVE  FreeAsserts(GroupOf(blk), BitOf(blk))
<1> DEFINE g == GroupOf(blk)
           bit == BitOf(blk)
<1>1. g \in Groups /\ bit \in Data[g] /\ bit \in bmap[g]
  BY DEF Marked, IsData
<1> HIDE DEF g, bit
<1>2. SuperblockOK(Sb) /\ GroupOK(Sb, InodeTable, g) /\ g \in GroupsOf(Sb)
  BY <1>1, LayoutAssumption DEF Groups
<1>3. bit \in ExistingBits(Sb, g) /\ first_bit(Sb, InodeTable, g) <= bit
  BY <1>1, LayoutAssumption
<1>4. bit \in ScanRange(Sb, InodeTable, g)
  BY <1>2, <1>3, ScanReachesAll
<1>5. FreeAsserts(g, bit)
  BY <1>1, <1>4 DEF FreeAsserts
<1> QED BY <1>5 DEF g, bit

(* Two blocks with the same group and bit are the same block.               *)
LEMMA BlockDetermined ==
  ASSUME NEW a \in BlockNums, NEW b \in BlockNums, IsData(a),
         GroupOf(a) = GroupOf(b), BitOf(a) = BitOf(b)
  PROVE  a = b
<1> DEFINE start == blk_group_to_blk_num(Sb, GroupOf(a))
<1>1. SuperblockOK(Sb) /\ GroupOf(a) \in Groups
  BY LayoutAssumption DEF IsData
<1>2. GroupOK(Sb, InodeTable, GroupOf(a))
  BY <1>1, LayoutAssumption
<1>3. start \in Nat /\ start < Sb.s_blocks_count
  <2>1. GroupOf(a) \in Nat
    BY <1>1, VolumeFacts, SMT
  <2>2. GroupOf(a) * Sb.s_blocks_per_group \in Nat /\ Sb.s_first_data_block \in Nat
    BY <1>1, <2>1, VolumeFacts, SMT DEF SuperblockOK
  <2>3. start \in Nat
    BY <2>2, SMT DEF blk_group_to_blk_num
  <2> QED BY <2>3, <1>2 DEF GroupOK
<1>4. Sub32(a, start) = Sub32(b, start)
  BY DEF BitOf, GroupOf, blk_to_bit
<1>5. a \in Nat /\ b \in Nat /\ a < U32 /\ b < U32
  BY <1>1, VolumeFacts, SMTT(60) DEF BlockNums, SuperblockOK
<1>6. start < U32
  BY <1>1, <1>3, VolumeFacts, SMT DEF SuperblockOK
<1> HIDE DEF start
<1> QED BY <1>3, <1>4, <1>5, <1>6, VolumeFacts, SMT DEF Sub32

LEMMA RemoveStartIInv ==
  ASSUME IInv, NEW F \in SUBSET held, NEW late \in BOOLEAN, RemoveStart(F, late)
  PROVE  IInv'
<1>1. /\ pc = "idle" /\ pc' = "free" /\ F # {}
      /\ op' = [NoOp EXCEPT !.file = F, !.todo = F, !.late = late]
      /\ UNCHANGED <<bmap, bgd, dsb, sb, held, halves, stranded, starved, crashes>>
  BY DEF RemoveStart, files
<1>2. /\ op' \in OpType /\ op'.got = {} /\ op'.need = 0 /\ op'.cnt = 0
      /\ op'.file = F /\ op'.todo = F
  <2>1. op' = [goal |-> 0, grp |-> 0, need |-> 0, cnt |-> 0, indirect |-> FALSE,
               new_blk |-> 0, got |-> {}, file |-> F, todo |-> F, first |-> 0,
               late |-> late]
    BY <1>1 DEF NoOp
  <2>2. 0 \in BlockNums /\ 0 \in 0 .. MaxChain /\ F \subseteq BlockNums
    BY LayoutAssumption, VolumeFacts, SMT DEF BlockNums, IInv, TypeOK
  <2> QED BY <2>1, <2>2, VolumeFacts DEF OpType
<1>3. TypeOK'
  BY <1>1, <1>2 DEF IInv, TypeOK
<1>4. ReservedMarked'
  BY <1>1 DEF IInv, ReservedMarked
<1>5. HeldMarked' /\ RemovalOK'
  <2>1. \A blk \in held : Marked(blk)'
    BY <1>1, AllMarked, MarkedMonotone DEF Removing
  <2> QED BY <1>1, <1>2, <2>1 DEF HeldMarked, RemovalOK, Removing
<1>6. ChainOK'
  <2>1. op'.need + op'.cnt <= MaxChain
    BY <1>2, LayoutAssumption, SMT
  <2> QED BY <1>1, <1>2, <2>1 DEF IInv, ChainOK
<1>7. HaltsExplained'
  BY <1>1 DEF HaltsExplained
<1> QED BY <1>3, <1>4, <1>5, <1>6, <1>7 DEF IInv

(* A block of the file being removed that is not freed yet is marked, so    *)
(* the ASSERTs hold.                                                        *)
LEMMA FreeBlockPasses ==
  ASSUME IInv, NEW blk \in op.todo, FreeBlock(blk)
  PROVE  /\ Marked(blk) /\ blk \in BlockNums /\ pc = "free" /\ pc' = "free_bgd"
         /\ bmap' = [bmap EXCEPT ![GroupOf(blk)] = @ \ {BitOf(blk)}]
         /\ op' = [op EXCEPT !.grp = GroupOf(blk), !.todo = @ \ {blk},
                             !.first = IF op.todo = op.file THEN blk ELSE @]
         /\ op' \in OpType /\ op'.got = op.got /\ op'.need = op.need /\ op'.cnt = op.cnt
         /\ op'.file = op.file /\ op'.todo = op.todo \ {blk} /\ op'.grp = GroupOf(blk)
         /\ UNCHANGED <<bgd, dsb, sb, held, halves, stranded, starved, crashes>>
<1>1. pc = "free" /\ UNCHANGED <<bgd, dsb, sb, held, halves, stranded, starved, crashes>>
  BY DEF FreeBlock, files
<1>2. Marked(blk) /\ blk \in BlockNums
  <2>1. blk \in held \ (op.file \ op.todo)
    BY DEF IInv, RemovalOK
  <2> QED BY <2>1 DEF IInv, HeldMarked, TypeOK
<1>3. FreeAsserts(GroupOf(blk), BitOf(blk))
  BY <1>2, MarkedPassesAsserts
<1>4. /\ bmap' = [bmap EXCEPT ![GroupOf(blk)] = @ \ {BitOf(blk)}]
      /\ op' = [op EXCEPT !.grp = GroupOf(blk), !.todo = @ \ {blk},
                          !.first = IF op.todo = op.file THEN blk ELSE @]
      /\ pc' = "free_bgd"
  BY <1>3 DEF FreeBlock, FreedBit
<1>5. PICK g \in Groups : g = GroupOf(blk)
  BY <1>2 DEF Marked, IsData
<1>6. PICK first \in BlockNums : first = IF op.todo = op.file THEN blk ELSE op.first
  BY <1>2 DEF IInv, TypeOK, OpType
<1>7. op' = [op EXCEPT !.grp = g, !.todo = op.todo \ {blk}, !.first = first]
  BY <1>4, <1>5, <1>6
<1>8. op \in OpType
  BY DEF IInv, TypeOK
<1>9. op' \in OpType
  BY <1>7, <1>8 DEF OpType
<1>10. /\ op'.got = op.got /\ op'.need = op.need /\ op'.cnt = op.cnt
       /\ op'.file = op.file /\ op'.todo = op.todo \ {blk} /\ op'.grp = g
  BY <1>7, <1>8 DEF OpType
<1> QED BY <1>1, <1>2, <1>4, <1>5, <1>9, <1>10

LEMMA FreeBlockIInv ==
  ASSUME IInv, NEW blk \in op.todo, FreeBlock(blk)
  PROVE  IInv'
<1> DEFINE g == GroupOf(blk)
           bit == BitOf(blk)
<1>1. /\ Marked(blk) /\ blk \in BlockNums /\ pc = "free" /\ pc' = "free_bgd"
      /\ bmap' = [bmap EXCEPT ![g] = @ \ {bit}]
      /\ op' \in OpType /\ op'.got = op.got /\ op'.need = op.need /\ op'.cnt = op.cnt
      /\ op'.file = op.file /\ op'.todo = op.todo \ {blk}
      /\ UNCHANGED <<bgd, dsb, sb, held, halves, stranded, starved, crashes>>
  BY FreeBlockPasses, Zenon
<1>5. g \in Groups /\ bit \in Data[g] /\ bmap \in [Groups -> SUBSET Bits]
  BY <1>1 DEF Marked, IsData, IInv, TypeOK
<1>6. bmap' \in [Groups -> SUBSET Bits]
  BY <1>1, <1>5
<1>8. TypeOK'
  BY <1>1, <1>6 DEF IInv, TypeOK
<1>9. ReservedMarked'
  <2> SUFFICES ASSUME NEW h \in Groups PROVE Bits \ Data[h] \subseteq bmap'[h]
    BY DEF ReservedMarked
  <2>1. Bits \ Data[h] \subseteq bmap[h]
    BY DEF IInv, ReservedMarked
  <2>2. CASE h = g
    BY <2>1, <2>2, <1>1, <1>5
  <2>3. CASE h # g
    BY <2>1, <2>3, <1>1, <1>5
  <2> QED BY <2>2, <2>3
<1>2. ASSUME NEW b \in BlockNums
      PROVE  Marked(b)' <=> Marked(b) /\ b # blk
  <2>1. IsData(b)' <=> IsData(b)
    BY DEF IsData, GroupOf, BitOf
  <2>2. GroupOf(b)' = GroupOf(b) /\ BitOf(b)' = BitOf(b)
    BY DEF GroupOf, BitOf
  <2>3. CASE b = blk
    <3>1. bit \notin bmap'[g]
      BY <1>1, <1>5
    <3> QED BY <2>2, <2>3, <3>1 DEF Marked
  <2>4. CASE b # blk /\ IsData(b)
    <3>1. GroupOf(b) # g \/ BitOf(b) # bit
      BY <2>4, <1>1, BlockDetermined
    <3>2. BitOf(b) \in bmap'[GroupOf(b)] <=> BitOf(b) \in bmap[GroupOf(b)]
      <4>1. GroupOf(b) \in Groups
        BY <2>4 DEF IsData
      <4> HIDE DEF g, bit
      <4> QED BY <3>1, <4>1, <1>1, <1>5
    <3> QED BY <2>1, <2>2, <2>4, <3>2 DEF Marked
  <2>5. CASE b # blk /\ ~IsData(b)
    BY <2>1, <2>5 DEF Marked
  <2> QED BY <2>3, <2>4, <2>5
<1>10. HeldMarked' /\ RemovalOK'
  <2>1. held \subseteq BlockNums /\ op.todo \subseteq op.file /\ op.file \subseteq held
    BY DEF IInv, TypeOK, RemovalOK
  <2>2. ASSUME NEW b \in held' \ (op'.file \ op'.todo) PROVE Marked(b)'
    <3>1. b \in held \ (op.file \ op.todo) /\ b # blk /\ b \in BlockNums
      BY <1>1, <2>1
    <3> QED BY <1>2, <3>1 DEF IInv, HeldMarked
  <2>3. ASSUME NEW b \in op'.file \ op'.todo PROVE ~Marked(b)'
    <3>1. b \in BlockNums /\ (b = blk \/ b \in op.file \ op.todo)
      BY <1>1, <2>1
    <3> QED BY <1>2, <3>1 DEF IInv, RemovalOK
  <2>4. op'.file # {} => pc' \in Removing /\ op'.got = {}
    BY <1>1 DEF Removing, IInv, RemovalOK
  <2>5. op'.todo \subseteq op'.file /\ op'.file \subseteq held'
    BY <1>1, <2>1
  <2> QED BY <2>2, <2>3, <2>4, <2>5 DEF HeldMarked, RemovalOK
<1>11. ChainOK'
  <2>1. ~starved /\ op.need + op.cnt <= MaxChain
    BY <1>1 DEF IInv, ChainOK
  <2>2. \A b \in op'.got : Marked(b)'
    <3>1. op.got = {}
      BY DEF IInv, RemovalOK
    <3> QED BY <1>1, <3>1
  <2> QED BY <2>1, <2>2, <1>1 DEF ChainOK
<1>12. HaltsExplained'
  BY <1>1 DEF HaltsExplained
<1> QED BY <1>8, <1>9, <1>10, <1>11, <1>12 DEF IInv

LEMMA FreeBgdIInv ==
  ASSUME IInv, FreeBgd
  PROVE  IInv'
<1>1. /\ pc = "free_bgd" /\ pc' = "free_super"
      /\ bgd' = [bgd EXCEPT ![op.grp] = Inc16(@)]
      /\ UNCHANGED <<bmap, dsb, sb, op, held, halves, stranded, starved, crashes>>
  BY DEF FreeBgd, files
<1>2. op.grp \in Groups /\ bgd \in [Groups -> 0 .. U16 - 1]
  BY DEF IInv, TypeOK, OpType
<1>3. \A n \in 0 .. U16 - 1 : Inc16(n) \in 0 .. U16 - 1
  BY VolumeFacts, SMT DEF Inc16
<1>4. TypeOK'
  BY <1>1, <1>2, <1>3 DEF IInv, TypeOK
<1>5. ReservedMarked'
  BY <1>1 DEF IInv, ReservedMarked
<1>6. ChainOK'
  BY <1>1, MarkedMonotone DEF IInv, ChainOK
<1>7. HaltsExplained'
  BY <1>1 DEF HaltsExplained
<1>8. HeldMarked' /\ RemovalOK'
  BY <1>1, RemovalGoesOn DEF Removing
<1> QED BY <1>4, <1>5, <1>6, <1>7, <1>8 DEF IInv

(* Ending an operation with nothing in progress.                            *)
LEMMA BackToRest ==
  ASSUME IInv, op' = NoOp, UNCHANGED <<bmap, starved>>, TypeOK', HeldMarked',
         pc' = "idle" \/ pc' = "lost", pc' = "idle" => ~starved
  PROVE  IInv'
<1>1. ReservedMarked'
  BY DEF IInv, ReservedMarked
<1>2. ChainOK'
  <2>1. op'.need + op'.cnt <= MaxChain /\ op'.got = {}
    BY NoOpType, LayoutAssumption, SMT
  <2> QED BY <2>1 DEF ChainOK
<1>3. HaltsExplained'
  BY DEF HaltsExplained
<1>4. RemovalOK'
  BY NoOpType DEF RemovalOK
<1> QED BY <1>1, <1>2, <1>3, <1>4 DEF IInv

LEMMA FreeSuperIInv ==
  ASSUME IInv, FreeSuper
  PROVE  IInv'
<1>1. /\ pc = "free_super" /\ pc' = "free" /\ op' = [op EXCEPT !.grp = 0]
      /\ sb' = IF sb = U32 - 1 THEN 0 ELSE sb + 1
      /\ dsb' = sb'
      /\ UNCHANGED <<bmap, bgd, held, halves, stranded, starved, crashes>>
  BY DEF FreeSuper, files
<1>2. sb' \in 0 .. U32 - 1
  <2>1. sb \in 0 .. U32 - 1
    BY DEF IInv, TypeOK
  <2>2. sb' = IF sb = U32 - 1 THEN 0 ELSE sb + 1
    BY <1>1
  <2> QED BY <2>1, <2>2, VolumeFacts, SMT
<1>3. /\ op' \in OpType /\ op'.got = op.got /\ op'.need = op.need /\ op'.cnt = op.cnt
      /\ op'.file = op.file /\ op'.todo = op.todo
  BY <1>1, VolumeFacts DEF IInv, TypeOK, OpType
<1>4. TypeOK'
  BY <1>1, <1>2, <1>3 DEF IInv, TypeOK
<1>5. ReservedMarked'
  BY <1>1 DEF IInv, ReservedMarked
<1>6. ChainOK'
  BY <1>1, <1>3, MarkedMonotone DEF IInv, ChainOK
<1>7. HaltsExplained'
  BY <1>1 DEF HaltsExplained
<1>8. HeldMarked' /\ RemovalOK'
  BY <1>1, <1>3, RemovalGoesOn DEF Removing
<1> QED BY <1>4, <1>5, <1>6, <1>7, <1>8 DEF IInv

LEMMA RemoveEndIInv ==
  ASSUME IInv, RemoveEnd
  PROVE  IInv'
<1>1. /\ pc = "free" /\ op.todo = {} /\ held' = held \ op.file /\ pc' = "idle" /\ op' = NoOp
      /\ UNCHANGED <<bmap, bgd, dsb, sb, halves, stranded, starved, crashes>>
  BY DEF RemoveEnd
<1>2. TypeOK'
  BY <1>1, NoOpType DEF IInv, TypeOK
<1>3. HeldMarked'
  <2>1. \A blk \in held' : Marked(blk)
    BY <1>1 DEF IInv, HeldMarked
  <2> QED BY <1>1, <2>1, MarkedMonotone DEF HeldMarked
<1> QED BY <1>1, <1>2, <1>3, BackToRest DEF IInv, ChainOK

(* A second removal stops at a block that is not marked.                    *)
LEMMA RemoveAgainIInv ==
  ASSUME IInv, NEW x \in halves, RemoveAgain(x)
  PROVE  IInv'
<1>1. /\ pc = "idle" /\ pc' \in {"halted", "lost"}
      /\ pc' = "halted" => ~FreeAsserts(GroupOf(x.first), BitOf(x.first))
      /\ op' = [NoOp EXCEPT !.first = x.first]
      /\ UNCHANGED <<bmap, bgd, dsb, sb, held, halves, stranded, starved, crashes>>
  BY DEF RemoveAgain, files, FreedBit
<1>2. x.first \in BlockNums
  BY DEF IInv, TypeOK, HalfType
<1>3. /\ op' \in OpType /\ op'.got = {} /\ op'.need = 0 /\ op'.cnt = 0
      /\ op'.file = {} /\ op'.todo = {} /\ op'.first = x.first
  BY <1>1, <1>2, NoOpType DEF OpType, NoOp
<1>4. TypeOK'
  BY <1>1, <1>3 DEF IInv, TypeOK
<1>5. ReservedMarked'
  BY <1>1 DEF IInv, ReservedMarked
<1>6. HeldMarked' /\ RemovalOK'
  BY <1>1, <1>3, NoRemoval DEF Removing
<1>7. ChainOK'
  <2>1. op'.need + op'.cnt <= MaxChain
    BY <1>3, LayoutAssumption, SMT
  <2> QED BY <1>1, <1>3, <2>1 DEF IInv, ChainOK
<1>8. HaltsExplained'
  <2>1. pc' = "halted" => ~Marked(x.first)'
    <3>1. Marked(x.first)' => Marked(x.first)
      BY <1>1 DEF Marked, IsData, GroupOf, BitOf
    <3> QED BY <1>1, <3>1, MarkedPassesAsserts
  <2>2. x \in halves'
    BY <1>1
  <2>3. ASSUME pc' = "halted"
        PROVE  \E y \in halves' : y.first = op'.first /\ ~Marked(y.first)'
    BY <1>3, <2>1, <2>2, <2>3
  <2> QED BY <2>3 DEF HaltsExplained
<1> QED BY <1>4, <1>5, <1>6, <1>7, <1>8 DEF IInv

LEMMA GrowHalfIInv ==
  ASSUME IInv, GrowHalf
  PROVE  IInv'
<1>1. /\ pc = "idle" /\ pc' = "lost"
      /\ UNCHANGED <<bmap, bgd, dsb, sb, op, held, halves, stranded, starved, crashes>>
  BY DEF GrowHalf, files
<1>2. TypeOK'
  BY <1>1 DEF IInv, TypeOK
<1>3. ReservedMarked'
  BY <1>1 DEF IInv, ReservedMarked
<1>4. ChainOK'
  BY <1>1, MarkedMonotone DEF IInv, ChainOK
<1>5. HaltsExplained'
  BY <1>1 DEF HaltsExplained
<1>6. HeldMarked' /\ RemovalOK'
  BY <1>1, AllMarked, NoRemoval DEF Removing
<1> QED BY <1>2, <1>3, <1>4, <1>5, <1>6 DEF IInv

LEMMA CrashIInv ==
  ASSUME IInv, Crash
  PROVE  IInv'
<1>1. /\ crashes < MaxCrashes /\ crashes' = crashes + 1
      /\ sb' = dsb /\ pc' = AtRest /\ op' = NoOp
      /\ held' \subseteq held
      /\ UNCHANGED <<bmap, bgd, dsb, starved>>
  BY DEF Crash
<1>2. crashes' \in 0 .. MaxCrashes
  BY <1>1, LayoutAssumption, SMT DEF IInv, TypeOK
<1>3. TypeOK'
  <2>1. op \in OpType
    BY DEF IInv, TypeOK
  <2>2. /\ op.first \in BlockNums /\ op.file \subseteq BlockNums
        /\ op.todo \subseteq BlockNums
    BY <2>1 DEF OpType
  <2>3. [first |-> op.first, blocks |-> op.file, ruined |-> FALSE] \in HalfType
    BY <2>2 DEF HalfType
  <2>4. halves' \subseteq HalfType
    BY <2>3 DEF Crash, IInv, TypeOK
  <2>5. stranded' \subseteq BlockNums
    BY <2>2 DEF Crash, IInv, TypeOK
  <2> QED BY <1>1, <1>2, <2>4, <2>5, NoOpType DEF IInv, TypeOK, AtRest
<1>4. HeldMarked'
  <2>1. \A blk \in held' : Marked(blk)
    <3>1. CASE op.todo = op.file
      <4>1. op.file \ op.todo = {}
        BY <3>1
      <4> QED BY <1>1, <4>1 DEF IInv, HeldMarked
    <3>2. CASE op.todo # op.file
      <4>1. ~(op.late /\ ~Begun)
        BY <3>2, Zenon DEF Begun
      <4>2. held' = held \ op.file
        BY <4>1, Zenon DEF Crash
      <4> QED BY <4>2 DEF IInv, HeldMarked
    <3> QED BY <3>1, <3>2
  <2> QED BY <1>1, <2>1, MarkedMonotone DEF HeldMarked
<1> QED BY <1>1, <1>3, <1>4, BackToRest DEF AtRest

LEMMA StutterIInv ==
  ASSUME IInv, UNCHANGED vars
  PROVE  IInv'
<1>1. UNCHANGED <<bmap, bgd, dsb, sb, pc, op, held, halves, stranded, starved, crashes>>
  BY DEF vars
<1>2. TypeOK'
  BY <1>1 DEF IInv, TypeOK
<1>3. ReservedMarked'
  BY <1>1 DEF IInv, ReservedMarked
<1>4. ChainOK'
  BY <1>1, MarkedMonotone DEF IInv, ChainOK
<1>5. HaltsExplained'
  <2>1. \A x : Marked(x)' <=> Marked(x)
    BY <1>1 DEF Marked, IsData, GroupOf, BitOf
  <2> QED BY <1>1, <2>1 DEF IInv, HaltsExplained
<1>6. HeldMarked' /\ RemovalOK'
  BY <1>1, RemovalGoesOn DEF IInv, RemovalOK
<1> QED BY <1>2, <1>3, <1>4, <1>5, <1>6 DEF IInv

(* Every step keeps the invariant.                                          *)
LEMMA StepIInv == IInv /\ [Next]_vars => IInv'
<1> SUFFICES ASSUME IInv, [Next]_vars PROVE IInv'
  OBVIOUS
<1>1. ASSUME NEW g \in Groups, NEW n \in 1 .. MaxChain, NEW ind \in BOOLEAN,
             GrowStart(g, n, ind)
      PROVE  IInv'
  BY <1>1, GrowStartIInv
<1>2. ASSUME NEW F \in SUBSET held, NEW late \in BOOLEAN, RemoveStart(F, late)
      PROVE  IInv'
  BY <1>2, RemoveStartIInv
<1>5. ASSUME NEW x \in halves, RemoveAgain(x)
      PROVE  IInv'
  BY <1>5, RemoveAgainIInv
<1>3. CASE Step
  BY <1>3, ScanHitIInv, ScanNextIInv, ScanFailIInv, AllocBgdIInv, GrowLinkIInv,
     GrowSuperIInv, FreeBlockIInv, FreeBgdIInv, FreeSuperIInv, RemoveEndIInv
  DEF Step, FreeBlocks
<1>4. CASE GrowRefused \/ GrowHalf \/ Crash \/ Stopped \/ UNCHANGED vars
  BY <1>4, GrowRefusedIInv, GrowHalfIInv, CrashIInv, StutterIInv DEF Stopped
<1> QED BY <1>1, <1>2, <1>3, <1>4, <1>5 DEF Next

LEMMA SpecIInv == Spec => []IInv
BY InitIInv, StepIInv, PTL DEF Spec

-----------------------------------------------------------------------------
(* The counters stay in their widths and the record of the operation in     *)
(* progress is well formed, in particular the chain never passes MaxChain.  *)
THEOREM TypeCorrect == Spec => []TypeOK
<1>1. IInv => TypeOK
  BY DEF IInv
<1> QED BY <1>1, SpecIInv, PTL

(* No block of a whole file, of the metadata or past the end of the volume  *)
(* is free in the bitmaps, whatever is freed and wherever the program dies; *)
(* of a file in its removal those not freed yet.                            *)
THEOREM BitmapStaysSound == Spec => []BitmapSound
<1>1. IInv => BitmapSound
  BY DEF IInv, BitmapSound
<1> QED BY <1>1, SpecIInv, PTL

(* An ASSERT of deallocate_block fails only for a file whose removal was    *)
(* killed before; otherwise the program stops only at the gate.             *)
THEOREM HaltsAreExplained == Spec => []HaltsExplained
<1>1. IInv => HaltsExplained
  BY DEF IInv
<1> QED BY <1>1, SpecIInv, PTL

(* allocate_block never hands out metadata, padding, a block of the chain   *)
(* being built or one that the inode of a whole file lists.                 *)
THEOREM NoDoubleAllocation == Spec => FreshBlock
<1> DEFINE Fresh == pc = "scan" /\ pc' = "bgd" =>
                      IsData(op'.new_blk) /\ op'.new_blk \notin held \cup op.got
<1>1. IInv /\ [Next]_vars => [Fresh]_vars
  <2> SUFFICES ASSUME IInv, Next, pc = "scan", pc' = "bgd"
               PROVE  IsData(op'.new_blk) /\ op'.new_blk \notin held \cup op.got
    BY DEF Fresh
  <2>1. ScanHit
    BY DEF Next, Step, GrowStart, GrowRefused, GrowHalf, RemoveStart, RemoveAgain,
           FreeBlocks, FreeBlock, RemoveEnd, ScanNext, ScanFail, AllocBgd,
           GrowLink, GrowSuper, FreeBgd, FreeSuper, Crash, Stopped, AtRest, vars
  <2>2. op \in OpType /\ op.grp \in Groups
    BY DEF IInv, TypeOK, OpType
  <2>3. PICK bit \in Data[op.grp] :
           /\ op' = [op EXCEPT !.new_blk = BlockOf(op.grp, bit)]
           /\ BlockOf(op.grp, bit) \notin held \cup op.got
    BY <2>1, ScanHitFresh
  <2>4. op'.new_blk = BlockOf(op.grp, bit)
    BY <2>2, <2>3 DEF OpType
  <2> QED BY <2>2, <2>3, <2>4, DataBlock DEF IsData
<1> QED BY <1>1, SpecIInv, PTL DEF Spec, FreshBlock

-----------------------------------------------------------------------------
(* The groups the search for a block has been through hold no free block.   *)
Before(goal, grp, g) == IF goal <= grp THEN goal <= g /\ g < grp
                                       ELSE goal <= g \/ g < grp

SeenFull == pc = "scan" => \A g \in Groups :
                             Before(op.goal, op.grp, g) => Data[g] \subseteq bmap[g]

LEMMA BeforeGrows ==
  ASSUME NEW goal \in Groups, NEW grp \in Groups, NEW g \in Groups
  PROVE  /\ ~Before(goal, goal, g)
         /\ NextGroup(grp) # goal /\ Before(goal, NextGroup(grp), g)
              => g = grp \/ Before(goal, grp, g)
         /\ NextGroup(grp) = goal => g = grp \/ Before(goal, grp, g)
BY VolumeFacts, SMT DEF Before, NextGroup

LEMMA NoCandidates ==
  ASSUME NEW g \in Groups, Candidates(g) = {}
  PROVE  Data[g] \subseteq bmap[g]
BY DataAreCandidates

LEMMA SeenStep ==
  ASSUME IInv, SeenFull, [Next]_vars
  PROVE  SeenFull'
<1> SUFFICES ASSUME pc' = "scan", NEW g \in Groups, Before(op'.goal, op'.grp, g)
             PROVE  Data[g] \subseteq bmap'[g]
  BY DEF SeenFull
<1>1. op \in OpType /\ op.grp \in Groups /\ op.goal \in Groups
  BY DEF IInv, TypeOK, OpType
<1>2. ASSUME op'.goal \in Groups, op'.grp = op'.goal PROVE FALSE
  BY <1>2, BeforeGrows
<1>3. ASSUME NEW h \in Groups, NEW n \in 1 .. MaxChain, NEW ind \in BOOLEAN,
             GrowStart(h, n, ind)
      PROVE  FALSE
  <2>1. op'.goal = GroupOf(blk_group_to_blk_num(Sb, h)) /\ op'.grp = op'.goal
    BY <1>3 DEF GrowStart, NoOp
  <2> QED BY <1>2, <2>1, GoalGroup
<1>4. CASE ScanNext
  <2>1. /\ pc = "scan" /\ Candidates(op.grp) = {} /\ NextGroup(op.grp) # op.goal
        /\ op' = [op EXCEPT !.grp = NextGroup(op.grp)] /\ bmap' = bmap
    BY <1>4 DEF ScanNext, Wrapped
  <2>2. op'.goal = op.goal /\ op'.grp = NextGroup(op.grp)
    BY <1>1, <2>1 DEF OpType
  <2>3. g = op.grp \/ Before(op.goal, op.grp, g)
    BY <1>1, <2>1, <2>2, BeforeGrows
  <2> QED BY <2>1, <2>3, NoCandidates DEF SeenFull
<1>5. CASE ScanFail \/ AllocBgd
  <2>1. op'.goal = op.goal /\ op'.grp = op.goal
    <3>1. CASE ScanFail
      <4>1. PICK blk : op' = [op EXCEPT !.new_blk = blk, !.need = @ - 1, !.cnt = @ + 1,
                                        !.grp = op.goal]
        BY <3>1, Zenon DEF ScanFail
      <4> QED BY <1>1, <4>1 DEF OpType
    <3>2. CASE AllocBgd
      BY <1>1, <3>2 DEF AllocBgd, OpType
    <3> QED BY <1>5, <3>1, <3>2
  <2> QED BY <1>1, <1>2, <2>1
<1>6. CASE UNCHANGED vars \/ Stopped
  BY <1>6 DEF vars, Stopped, SeenFull
<1>7. ~(\/ GrowRefused \/ GrowHalf \/ ScanHit \/ GrowLink \/ GrowSuper
        \/ FreeBlocks \/ FreeBgd \/ FreeSuper \/ RemoveEnd \/ Crash)
  BY DEF GrowRefused, GrowHalf, ScanHit, GrowLink, GrowSuper, FreeBlocks, FreeBlock, FreeBgd,
         FreeSuper, RemoveEnd, Crash, AtRest
<1>8. /\ \A x \in halves : ~RemoveAgain(x)
      /\ \A F \in SUBSET held, late \in BOOLEAN : ~RemoveStart(F, late)
  BY DEF RemoveAgain, RemoveStart
<1> QED BY <1>3, <1>4, <1>5, <1>6, <1>7, <1>8 DEF Next, Step

(* allocate_block fails only when no group has a free block.                *)
THEOREM SearchForBlockComplete == Spec => FailsOnlyWhenFull
<1> DEFINE Full == ~starved /\ starved' => \A g \in Groups : Data[g] \subseteq bmap[g]
<1>1. Init => SeenFull
  BY DEF Init, SeenFull
<1>2. IInv /\ SeenFull /\ [Next]_vars => SeenFull'
  BY SeenStep
<1>3. IInv /\ SeenFull /\ [Next]_vars => [Full]_vars
  <2> SUFFICES ASSUME IInv, SeenFull, Next, ~starved, starved', NEW g \in Groups
               PROVE  Data[g] \subseteq bmap[g]
    BY DEF Full
  <2>1. ScanFail
    <3>1. FreeBlocks => starved' = starved
      BY DEF FreeBlocks, FreeBlock
    <3>3. \A g1 \in Groups, n \in 1 .. MaxChain, ind \in BOOLEAN :
             GrowStart(g1, n, ind) => starved' = starved
      BY Zenon DEF GrowStart
    <3>4. \A F \in SUBSET held, late \in BOOLEAN :
             RemoveStart(F, late) => starved' = starved
      BY Zenon DEF RemoveStart
    <3>5. \A x \in halves : RemoveAgain(x) => starved' = starved
      BY Zenon DEF RemoveAgain
    <3>2. \/ GrowRefused \/ GrowHalf \/ RemoveEnd \/ ScanHit \/ ScanNext \/ AllocBgd
          \/ GrowLink \/ GrowSuper \/ FreeBgd \/ FreeSuper \/ Crash \/ Stopped
          => starved' = starved
      BY DEF GrowRefused, GrowHalf, RemoveEnd, ScanHit, ScanNext, AllocBgd, GrowLink,
             GrowSuper, FreeBgd, FreeSuper, Crash, Stopped, vars
    <3> QED BY <3>1, <3>2, <3>3, <3>4, <3>5 DEF Next, Step
  <2>2. /\ pc = "scan" /\ Candidates(op.grp) = {} /\ NextGroup(op.grp) = op.goal
        /\ op.grp \in Groups /\ op.goal \in Groups
    BY <2>1 DEF ScanFail, Wrapped, IInv, TypeOK, OpType
  <2>3. g = op.grp \/ Before(op.goal, op.grp, g)
    BY <2>2, BeforeGrows
  <2> QED BY <2>2, <2>3, NoCandidates DEF SeenFull
<1> QED BY <1>1, <1>2, <1>3, SpecIInv, PTL DEF Spec, FailsOnlyWhenFull
-----------------------------------------------------------------------------
(* What a crash costs.  While an operation is in progress the counts are    *)
(* compared with the bitmaps plus what has been taken and not yet counted,  *)
(* and a block of the chain that is being built is not leaked yet.          *)
Building == pc \in {"scan", "bgd", "link", "super"}
Freeing  == pc \in {"free_bgd", "free_super"}

Uncounted == IF Building THEN op.cnt + (IF pc = "bgd" THEN 1 ELSE 0)
             ELSE IF Freeing THEN 0 - 1 ELSE 0

UncountedIn(g) == IF g # op.grp THEN 0
                  ELSE IF pc = "bgd" THEN 1 ELSE IF pc = "free_bgd" THEN 0 - 1 ELSE 0

Chain == IF Building THEN op.got \cup (IF pc = "bgd" THEN {op.new_blk} ELSE {}) ELSE {}

Clear(B)     == {p \in Groups \X Bits : p[2] \in Data[p[1]] \ B[p[1]]}
ClearIn(B, g) == Cardinality(Data[g] \ B[g])

Lost == {p \in Leaked : BlockOf(p[1], p[2]) \notin Chain}

CountsNear ==
  /\ dsb = sb
  /\ Near(sb, Cardinality(Clear(bmap)) + Uncounted, U32, MaxChain * crashes)
  /\ \A g \in Groups : Near(bgd[g], ClearIn(bmap, g) + UncountedIn(g), U16, crashes)

FewLost ==
  /\ IsFiniteSet(Lost) /\ Cardinality(Lost) <= MaxChain * crashes
  /\ IsFiniteSet(op.got) /\ Cardinality(op.got) <= op.cnt
  /\ pc = "super" => op.got \subseteq held

Drift == ~starved => CountsNear /\ FewLost

LEMMA BitsFinite ==
  /\ IsFiniteSet(Groups \X Bits)
  /\ \A B : IsFiniteSet(Clear(B)) /\ Cardinality(Clear(B)) \in Nat
  /\ \A B : \A g \in Groups : IsFiniteSet(Data[g] \ B[g]) /\ ClearIn(B, g) \in Nat
<1>1. IsFiniteSet(Groups) /\ IsFiniteSet(Bits)
  <2>1. num_block_groups(Sb) - 1 \in Int /\ Sb.s_blocks_per_group - 1 \in Int /\ 0 \in Int
    BY VolumeFacts, SMT
  <2> QED BY <2>1, VolumeFacts, FS_Interval DEF Bits
<1>2. IsFiniteSet(Groups \X Bits)
  BY <1>1, FS_Product
<1>3. ASSUME NEW B
      PROVE  IsFiniteSet(Clear(B)) /\ Cardinality(Clear(B)) \in Nat
  <2>1. Clear(B) \subseteq Groups \X Bits
    BY DEF Clear
  <2> QED BY <1>2, <2>1, FS_Subset, FS_CardinalityType
<1>4. ASSUME NEW B, NEW g \in Groups
      PROVE  IsFiniteSet(Data[g] \ B[g]) /\ ClearIn(B, g) \in Nat
  <2>1. Data[g] \ B[g] \subseteq Bits
    BY LayoutAssumption
  <2> QED BY <1>1, <2>1, FS_Subset, FS_CardinalityType DEF ClearIn
<1> QED BY <1>2, <1>3, <1>4

(* C has one data bit more set than B.                                      *)
LEMMA OneBitMore ==
  ASSUME NEW B \in [Groups -> SUBSET Bits], NEW C \in [Groups -> SUBSET Bits],
         NEW g \in Groups, NEW bit \in Data[g], bit \notin B[g],
         C = [B EXCEPT ![g] = @ \cup {bit}]
  PROVE  /\ Cardinality(Clear(B)) = Cardinality(Clear(C)) + 1
         /\ ClearIn(B, g) = ClearIn(C, g) + 1
         /\ \A h \in Groups \ {g} : ClearIn(B, h) = ClearIn(C, h)
<1>1. C[g] = B[g] \cup {bit} /\ \A h \in Groups \ {g} : C[h] = B[h]
  OBVIOUS
<1>2. bit \in Bits
  BY LayoutAssumption
<1>3. Clear(B) = Clear(C) \cup {<<g, bit>>} /\ <<g, bit>> \notin Clear(C)
  <2>1. ASSUME NEW h \in Groups, NEW b \in Bits
        PROVE  <<h, b>> \in Clear(B) <=> <<h, b>> \in Clear(C) \cup {<<g, bit>>}
    <3>1. \A D : <<h, b>> \in Clear(D) <=> b \in Data[h] \ D[h]
      BY DEF Clear
    <3>2. b \in Data[h] \ B[h] <=> b \in Data[h] \ C[h] \/ (h = g /\ b = bit)
      BY <1>1
    <3> QED BY <3>1, <3>2
  <2>2. <<g, bit>> \in Groups \X Bits
    BY <1>2
  <2>3. Clear(B) \subseteq Groups \X Bits /\ Clear(C) \subseteq Groups \X Bits
    BY DEF Clear
  <2>4. <<g, bit>> \notin Clear(C)
    BY <1>1 DEF Clear
  <2>5. \A p \in Groups \X Bits : p \in Clear(B) <=> p \in Clear(C) \cup {<<g, bit>>}
    <3> SUFFICES ASSUME NEW p \in Groups \X Bits
                 PROVE  p \in Clear(B) <=> p \in Clear(C) \cup {<<g, bit>>}
      OBVIOUS
    <3>1. PICK h \in Groups : \E b \in Bits : p = <<h, b>>
      OBVIOUS
    <3>2. PICK b \in Bits : p = <<h, b>>
      BY <3>1
    <3> QED BY <2>1, <3>2
  <2> QED BY <2>2, <2>3, <2>4, <2>5
<1>4. Cardinality(Clear(B)) = Cardinality(Clear(C)) + 1
  <2>1. IsFiniteSet(Clear(C))
    BY BitsFinite
  <2> QED BY <1>3, <2>1, FS_AddElement
<1>5. ClearIn(B, g) = ClearIn(C, g) + 1
  <2>1. Data[g] \ B[g] = (Data[g] \ C[g]) \cup {bit} /\ bit \notin Data[g] \ C[g]
    BY <1>1
  <2> QED BY <2>1, BitsFinite, FS_AddElement DEF ClearIn
<1> QED BY <1>1, <1>4, <1>5 DEF ClearIn

(* No more blocks are lost than before.                                     *)
LEMMA LostFewer ==
  ASSUME NEW S, NEW T, IsFiniteSet(T), S \subseteq T, NEW n \in Nat, Cardinality(T) <= n
  PROVE  IsFiniteSet(S) /\ Cardinality(S) <= n
<1>1. IsFiniteSet(S) /\ Cardinality(S) <= Cardinality(T)
  BY FS_Subset
<1>2. Cardinality(S) \in Nat /\ Cardinality(T) \in Nat
  BY <1>1, FS_CardinalityType
<1> QED BY <1>1, <1>2, SMT

(* A group's pair that leads to a block is the block's own.                 *)
LEMMA LeakedPair ==
  ASSUME NEW p \in Leaked
  PROVE  /\ p[1] \in Groups /\ p[2] \in Data[p[1]] /\ p[2] \in bmap[p[1]]
         /\ GroupOf(BlockOf(p[1], p[2])) = p[1] /\ BitOf(BlockOf(p[1], p[2])) = p[2]
         /\ p = <<p[1], p[2]>> /\ BlockOf(p[1], p[2]) \notin held
<1>1. p \in Groups \X Bits /\ p[2] \in Data[p[1]] \cap bmap[p[1]]
      /\ BlockOf(p[1], p[2]) \notin held
  BY DEF Leaked, Owned
<1>2. p[1] \in Groups /\ p = <<p[1], p[2]>>
  BY <1>1
<1> QED BY <1>1, <1>2, DataBlock

(* The numbers that the bounds are made of.                                 *)
LEMMA Bounds ==
  ASSUME TypeOK
  PROVE  /\ MaxChain \in Nat \ {0} /\ crashes \in Nat /\ MaxChain * crashes \in Nat
         /\ MaxChain * (crashes + 1) = MaxChain * crashes + MaxChain
         /\ sb \in Nat /\ op.cnt \in Nat /\ op.cnt <= MaxChain
         /\ Uncounted \in Int /\ \A g \in Groups : bgd[g] \in Nat /\ UncountedIn(g) \in Int
         /\ U32 \in Nat \ {0} /\ U16 \in Nat \ {0}
<1>1. MaxChain \in Nat \ {0} /\ MaxCrashes \in Nat
  BY LayoutAssumption
<1>2. crashes \in Nat /\ sb \in Nat
  BY <1>1, VolumeFacts, SMT DEF TypeOK
<1>3. MaxChain * crashes \in Nat /\ MaxChain * (crashes + 1) = MaxChain * crashes + MaxChain
  BY <1>1, <1>2, SMT
<1>4. op.cnt \in 0 .. MaxChain /\ bgd \in [Groups -> 0 .. U16 - 1]
  BY DEF TypeOK, OpType
<1>5. op.cnt \in Nat /\ op.cnt <= MaxChain /\ \A g \in Groups : bgd[g] \in Nat
  BY <1>1, <1>4, VolumeFacts, SMT
<1>6. Uncounted \in Int /\ \A g \in Groups : UncountedIn(g) \in Int
  BY <1>5, SMT DEF Uncounted, UncountedIn
<1> QED BY <1>1, <1>2, <1>3, <1>5, <1>6, VolumeFacts

LEMMA BoundsNext ==
  ASSUME TypeOK'
  PROVE  sb' \in Nat /\ Uncounted' \in Int
         /\ \A g \in Groups : bgd'[g] \in Nat /\ UncountedIn(g)' \in Int
<1>1. MaxChain \in Nat
  BY LayoutAssumption
<1>2. sb' \in Nat /\ op'.cnt \in 0 .. MaxChain /\ bgd' \in [Groups -> 0 .. U16 - 1]
  BY VolumeFacts, SMT DEF TypeOK, OpType
<1>3. op'.cnt \in Nat /\ \A g \in Groups : bgd'[g] \in Nat
  BY <1>1, <1>2, VolumeFacts, SMT
<1>4. Uncounted' \in Int /\ \A g \in Groups : UncountedIn(g)' \in Int
  BY <1>3, SMT DEF Uncounted, UncountedIn
<1> QED BY <1>2, <1>3, <1>4

LEMMA Numbers ==
  ASSUME TypeOK
  PROVE  /\ sb \in Int /\ Cardinality(Clear(bmap)) \in Int /\ Uncounted \in Int
         /\ \A g \in Groups : bgd[g] \in Int /\ ClearIn(bmap, g) \in Int
<1>1. sb \in Int /\ Cardinality(Clear(bmap)) \in Int /\ Uncounted \in Int
  BY Bounds, BitsFinite
<1>2. ASSUME NEW g \in Groups
      PROVE  bgd[g] \in Int /\ ClearIn(bmap, g) \in Int
  <2>1. bgd[g] \in Nat /\ ClearIn(bmap, g) \in Nat
    BY Bounds, BitsFinite
  <2> QED BY <2>1
<1> QED BY <1>1, <1>2

(* Where a count and its true value change alike, nothing is lost.          *)
LEMMA CountsMove ==
  ASSUME TypeOK, TypeOK', CountsNear, dsb' = sb', crashes' = crashes,
         LET c == Cardinality(Clear(bmap)) + Uncounted
             e == Cardinality(Clear(bmap')) + Uncounted'
         IN  \/ sb' - sb = e - c
             \/ sb' - sb = (e - c) + U32
             \/ sb' - sb = (e - c) - U32,
         \A g \in Groups :
            LET c == ClearIn(bmap, g) + UncountedIn(g)
                e == ClearIn(bmap', g) + UncountedIn(g)'
            IN  \/ bgd'[g] - bgd[g] = e - c
                \/ bgd'[g] - bgd[g] = (e - c) + U16
                \/ bgd'[g] - bgd[g] = (e - c) - U16
  PROVE  CountsNear'
<1> DEFINE c == Cardinality(Clear(bmap)) + Uncounted
           e == Cardinality(Clear(bmap')) + Uncounted'
           k == MaxChain * crashes
<1>1. c \in Int /\ e \in Int /\ k \in Nat /\ sb \in Int /\ sb' \in Int /\ U32 \in Nat \ {0}
  <2>1. /\ Uncounted \in Int /\ Uncounted' \in Int /\ k \in Nat
        /\ sb \in Nat /\ sb' \in Nat /\ U32 \in Nat \ {0}
    <3>1. Uncounted \in Int /\ k \in Nat /\ sb \in Nat /\ U32 \in Nat \ {0}
      BY Bounds
    <3>2. Uncounted' \in Int /\ sb' \in Nat
      BY BoundsNext
    <3> QED BY <3>1, <3>2
  <2>2. Cardinality(Clear(bmap)) \in Nat /\ Cardinality(Clear(bmap')) \in Nat
    BY BitsFinite
  <2> QED BY <2>1, <2>2
<1>2. Near(sb, c, U32, k)
  BY DEF CountsNear
<1>3. sb' - sb = e - c \/ sb' - sb = (e - c) + U32 \/ sb' - sb = (e - c) - U32
  OBVIOUS
<1>4. Near(sb', e, U32, k)
  <2> HIDE DEF c, e, k
  <2> QED BY <1>1, <1>2, <1>3, NearTogether
<1>5. ASSUME NEW g \in Groups
      PROVE  Near(bgd'[g], ClearIn(bmap', g) + UncountedIn(g)', U16, crashes)
  <2> DEFINE x == ClearIn(bmap, g) + UncountedIn(g)
             y == ClearIn(bmap', g) + UncountedIn(g)'
  <2>1. /\ x \in Int /\ y \in Int /\ crashes \in Nat /\ U16 \in Nat \ {0}
        /\ bgd[g] \in Int /\ bgd'[g] \in Int
    <3>1. UncountedIn(g) \in Int /\ bgd[g] \in Nat /\ crashes \in Nat /\ U16 \in Nat \ {0}
      BY Bounds
    <3>2. UncountedIn(g)' \in Int /\ bgd'[g] \in Nat
      BY BoundsNext
    <3>3. ClearIn(bmap, g) \in Nat /\ ClearIn(bmap', g) \in Nat
      BY BitsFinite
    <3> QED BY <3>1, <3>2, <3>3
  <2>2. Near(bgd[g], x, U16, crashes)
    BY DEF CountsNear
  <2>3. \/ bgd'[g] - bgd[g] = y - x
        \/ bgd'[g] - bgd[g] = (y - x) + U16
        \/ bgd'[g] - bgd[g] = (y - x) - U16
    OBVIOUS
  <2> HIDE DEF x, y
  <2>4. Near(bgd'[g], y, U16, crashes)
    BY <2>1, <2>2, <2>3, NearTogether
  <2> QED BY <2>4 DEF y
<1> QED BY <1>4, <1>5 DEF CountsNear

(* No more bits are set and no block of a file or of the chain is given up. *)
LEMMA LostOf ==
  ASSUME \A g \in Groups : bmap'[g] \subseteq bmap[g],
         Owned \subseteq Owned', Chain \subseteq Chain' \cup Owned'
  PROVE  Lost' \subseteq Lost
<1> SUFFICES ASSUME NEW p \in Lost' PROVE p \in Lost
  OBVIOUS
<1>1. /\ p \in Groups \X Bits /\ p[2] \in Data[p[1]] \cap bmap'[p[1]]
      /\ BlockOf(p[1], p[2]) \notin Owned' /\ BlockOf(p[1], p[2]) \notin Chain'
  BY DEF Lost, Leaked, BlockOf
<1>2. p[1] \in Groups
  BY <1>1
<1>3. /\ p[2] \in Data[p[1]] \cap bmap[p[1]]
      /\ BlockOf(p[1], p[2]) \notin Owned /\ BlockOf(p[1], p[2]) \notin Chain
  BY <1>1, <1>2
<1> QED BY <1>1, <1>3 DEF Lost, Leaked

LEMMA LostSame ==
  ASSUME bmap' = bmap, held \subseteq held', halves' = halves, stranded' = stranded,
         Chain \subseteq Chain' \cup held'
  PROVE  Lost' \subseteq Lost
<1>1. Owned \subseteq Owned' /\ held' \subseteq Owned'
  BY DEF Owned
<1> QED BY <1>1, LostOf

LEMMA FewLostKept ==
  ASSUME FewLost, TypeOK, crashes' = crashes, Lost' \subseteq Lost,
         IsFiniteSet(op.got)' /\ Cardinality(op.got)' <= op'.cnt,
         pc' = "super" => op'.got \subseteq held'
  PROVE  FewLost'
<1>1. MaxChain * crashes \in Nat
  BY Bounds
<1>2. IsFiniteSet(Lost') /\ Cardinality(Lost') <= MaxChain * crashes
  BY <1>1, LostFewer DEF FewLost
<1> QED BY <1>2 DEF FewLost

(* Marking a half removed file as ruined leaves it its blocks.              *)
LEMMA RuinedOwned ==
  ASSUME NEW b, halves \subseteq HalfType, held' = held, stranded' = stranded,
         halves' = {[x EXCEPT !.ruined = @ \/ b \in x.blocks] : x \in halves}
  PROVE  Owned \subseteq Owned'
<1> SUFFICES ASSUME NEW x \in halves, NEW y \in x.blocks
             PROVE  \E z \in halves' : y \in z.blocks
  BY DEF Owned
<1>1. [x EXCEPT !.ruined = @ \/ b \in x.blocks] \in halves'
  OBVIOUS
<1>2. [x EXCEPT !.ruined = @ \/ b \in x.blocks].blocks = x.blocks
  BY Zenon DEF HalfType
<1> QED BY <1>1, <1>2, Zenon

LEMMA NothingGot == IsFiniteSet({}) /\ Cardinality({}) = 0
BY FS_EmptySet

-----------------------------------------------------------------------------
(* An operation begins, or one that begins nothing.                         *)
LEMMA BeginDrift ==
  ASSUME IInv, IInv', Drift, pc = "idle", pc' \in {"scan", "free", "halted", "lost"},
         op'.cnt = 0, op'.got = {},
         UNCHANGED <<bmap, bgd, dsb, sb, held, halves, stranded, starved, crashes>>
  PROVE  Drift'
<1>2. TypeOK /\ TypeOK'
  BY DEF IInv
<1> SUFFICES ASSUME ~starved PROVE CountsNear' /\ FewLost'
  BY DEF Drift
<1>3. CountsNear /\ FewLost
  BY DEF Drift
<1>4. Uncounted = 0 /\ Uncounted' = 0 /\ Chain = {}
  BY DEF Uncounted, Building, Freeing, Chain
<1>5. \A h : UncountedIn(h) = 0 /\ UncountedIn(h)' = 0
  BY DEF UncountedIn
<1>6. CountsNear'
  <2>1. dsb' = sb'
    BY <1>3 DEF CountsNear
  <2> QED BY <1>2, <1>3, <1>4, <1>5, <2>1, Numbers, CountsMove
<1>7. FewLost'
  <2>1. Lost' \subseteq Lost
    BY <1>4, LostSame
  <2> QED BY <1>2, <1>3, <2>1, NothingGot, FewLostKept
<1> QED BY <1>6, <1>7

LEMMA GrowStartDrift ==
  ASSUME IInv, IInv', Drift, NEW g \in Groups, NEW n \in 1 .. MaxChain,
         NEW ind \in BOOLEAN, GrowStart(g, n, ind)
  PROVE  Drift'
<1>1. /\ pc = "idle" /\ pc' = "scan" /\ op'.cnt = 0 /\ op'.got = {}
      /\ UNCHANGED <<bmap, bgd, dsb, sb, held, halves, stranded, starved, crashes>>
  BY DEF GrowStart, NoOp, files
<1> QED BY <1>1, BeginDrift

LEMMA RemoveStartDrift ==
  ASSUME IInv, IInv', Drift, NEW F \in SUBSET held, NEW late \in BOOLEAN,
         RemoveStart(F, late)
  PROVE  Drift'
<1>1. /\ pc = "idle" /\ pc' = "free" /\ op'.cnt = 0 /\ op'.got = {}
      /\ UNCHANGED <<bmap, bgd, dsb, sb, held, halves, stranded, starved, crashes>>
  BY DEF RemoveStart, NoOp, files
<1> QED BY <1>1, BeginDrift

LEMMA RemoveAgainDrift ==
  ASSUME IInv, IInv', Drift, NEW x \in halves, RemoveAgain(x)
  PROVE  Drift'
<1>1. /\ pc = "idle" /\ pc' \in {"halted", "lost"} /\ op'.cnt = 0 /\ op'.got = {}
      /\ UNCHANGED <<bmap, bgd, dsb, sb, held, halves, stranded, starved, crashes>>
  BY DEF RemoveAgain, NoOp, files
<1> QED BY <1>1, BeginDrift

LEMMA ScanHitDrift ==
  ASSUME IInv, IInv', Drift, ScanHit
  PROVE  Drift'
<1>1. /\ pc = "scan" /\ pc' = "bgd"
      /\ UNCHANGED <<bgd, dsb, sb, held, stranded, starved, crashes>>
  BY DEF ScanHit
<1>2. TypeOK /\ TypeOK'
  BY DEF IInv
<1> SUFFICES ASSUME ~starved PROVE CountsNear' /\ FewLost'
  BY <1>1 DEF Drift
<1>3. CountsNear /\ FewLost
  BY DEF Drift
<1>4. PICK bit \in Data[op.grp] :
         /\ bit \notin bmap[op.grp]
         /\ bmap' = [bmap EXCEPT ![op.grp] = @ \cup {bit}]
         /\ op' = [op EXCEPT !.new_blk = BlockOf(op.grp, bit)]
  BY ScanHitFresh
<1>5. /\ op'.grp = op.grp /\ op'.cnt = op.cnt /\ op'.got = op.got
      /\ op'.new_blk = BlockOf(op.grp, bit) /\ op.grp \in Groups
  BY <1>2, <1>4 DEF TypeOK, OpType
<1>6. Uncounted = op.cnt + 0 /\ Uncounted' = op.cnt + 1
  BY <1>1, <1>5 DEF Uncounted, Building
<1>7. \A h : UncountedIn(h) = 0 /\ UncountedIn(h)' = IF h = op.grp THEN 1 ELSE 0
  BY <1>1, <1>5 DEF UncountedIn
<1>8. /\ Cardinality(Clear(bmap)) = Cardinality(Clear(bmap')) + 1
      /\ ClearIn(bmap, op.grp) = ClearIn(bmap', op.grp) + 1
      /\ \A h \in Groups \ {op.grp} : ClearIn(bmap, h) = ClearIn(bmap', h)
  <2>1. bmap \in [Groups -> SUBSET Bits] /\ bmap' \in [Groups -> SUBSET Bits]
    BY <1>2 DEF TypeOK
  <2>2. /\ op.grp \in Groups /\ bit \in Data[op.grp] /\ bit \notin bmap[op.grp]
        /\ bmap' = [bmap EXCEPT ![op.grp] = @ \cup {bit}]
    BY <1>4, <1>5
  <2>3. \A g \in Groups : \A b \in Data[g] :
           b \notin bmap[g] /\ bmap' = [bmap EXCEPT ![g] = @ \cup {b}] =>
              /\ Cardinality(Clear(bmap)) = Cardinality(Clear(bmap')) + 1
              /\ ClearIn(bmap, g) = ClearIn(bmap', g) + 1
              /\ \A h \in Groups \ {g} : ClearIn(bmap, h) = ClearIn(bmap', h)
    BY <2>1, OneBitMore
  <2> QED BY <2>2, <2>3
<1>9. CountsNear'
  <2>1. dsb' = sb'
    BY <1>1, <1>3 DEF CountsNear
  <2>2. op.cnt \in Nat /\ \A h \in Groups : ClearIn(bmap', h) \in Nat
    BY <1>2, Bounds, BitsFinite
  <2>3. Cardinality(Clear(bmap')) \in Nat
    BY BitsFinite
  <2>4. sb' - sb = (Cardinality(Clear(bmap')) + Uncounted')
                     - (Cardinality(Clear(bmap)) + Uncounted)
    BY <1>1, <1>2, <1>6, <1>8, <2>2, <2>3, Numbers, SMT
  <2>5. ASSUME NEW h \in Groups
        PROVE  bgd'[h] - bgd[h] = (ClearIn(bmap', h) + UncountedIn(h)')
                                    - (ClearIn(bmap, h) + UncountedIn(h))
    <3>1. bgd[h] \in Int /\ bgd'[h] = bgd[h] /\ ClearIn(bmap', h) \in Int
      BY <1>1, <1>2, <2>2, Numbers
    <3>2. CASE h = op.grp
      <4>1. UncountedIn(h) = 0 /\ UncountedIn(h)' = 1
        BY <1>7, <3>2
      <4> QED BY <1>8, <3>1, <3>2, <4>1, SMT
    <3>3. CASE h # op.grp
      <4>1. UncountedIn(h) = 0 /\ UncountedIn(h)' = 0
        BY <1>7, <3>3
      <4> QED BY <1>8, <3>1, <3>3, <4>1, SMT
    <3> QED BY <3>2, <3>3
  <2> QED BY <1>1, <1>2, <1>3, <2>1, <2>4, <2>5, CountsMove
<1>10. FewLost'
  <2>1. Lost' \subseteq Lost
    <3> SUFFICES ASSUME NEW p \in Lost' PROVE p \in Lost
      OBVIOUS
    <3>1. /\ p \in Groups \X Bits /\ p[2] \in Data[p[1]] \cap bmap'[p[1]]
          /\ BlockOf(p[1], p[2]) \notin Owned' /\ BlockOf(p[1], p[2]) \notin Chain'
      BY DEF Lost, Leaked, BlockOf
    <3>5. Owned \subseteq Owned'
      <4>1. PICK b \in Bits :
               halves' = {[x EXCEPT !.ruined = @ \/ BlockOf(op.grp, b) \in x.blocks] :
                            x \in halves}
        BY DEF ScanHit
      <4> QED BY <1>1, <1>2, <4>1, RuinedOwned DEF TypeOK
    <3>2. Chain = op.got /\ Chain' = op.got \cup {BlockOf(op.grp, bit)}
      BY <1>1, <1>5 DEF Chain, Building
    <3>3. p[1] # op.grp \/ p[2] # bit
      BY <3>1, <3>2
    <3>4. p[2] \in bmap[p[1]]
      BY <1>2, <1>4, <1>5, <3>1, <3>3 DEF TypeOK
    <3> QED BY <1>1, <3>1, <3>2, <3>4, <3>5 DEF Lost, Leaked
  <2>2. IsFiniteSet(op.got)' /\ Cardinality(op.got)' <= op'.cnt
    BY <1>3, <1>5 DEF FewLost
  <2> QED BY <1>1, <1>2, <1>3, <2>1, <2>2, FewLostKept
<1> QED BY <1>9, <1>10

(* A step that changes neither counts nor bitmaps.                          *)
LEMMA SameDrift ==
  ASSUME IInv, IInv', Drift, UNCHANGED <<bmap, bgd, dsb, sb, starved, crashes>>,
         held \subseteq held', halves' = halves, stranded' = stranded,
         Uncounted' = Uncounted,
         \A h \in Groups : UncountedIn(h)' = UncountedIn(h),
         Chain \subseteq Chain' \cup held', op'.got = op.got /\ op'.cnt = op.cnt,
         pc' = "super" => op'.got \subseteq held'
  PROVE  Drift'
<1>1. TypeOK /\ TypeOK'
  BY DEF IInv
<1> SUFFICES ASSUME ~starved PROVE CountsNear' /\ FewLost'
  BY DEF Drift
<1>2. CountsNear /\ FewLost
  BY DEF Drift
<1>3. CountsNear'
  BY <1>2 DEF CountsNear
<1>4. FewLost'
  <2>1. Lost' \subseteq Lost
    BY LostSame
  <2>2. IsFiniteSet(op.got)' /\ Cardinality(op.got)' <= op'.cnt
    BY <1>2 DEF FewLost
  <2> QED BY <1>1, <1>2, <2>1, <2>2, FewLostKept
<1> QED BY <1>3, <1>4

LEMMA QuietDrift ==
  ASSUME IInv, IInv', Drift,
         GrowRefused \/ GrowHalf \/ ScanNext \/ GrowLink \/ UNCHANGED vars
  PROVE  Drift'
<1>1. op \in OpType
  BY DEF IInv, TypeOK
<1>2. CASE GrowRefused \/ GrowHalf
  <2>1. /\ pc = "idle" /\ pc' \in {"halted", "lost"}
        /\ UNCHANGED <<bmap, bgd, dsb, sb, op, held, halves, stranded, starved, crashes>>
    BY <1>2 DEF GrowRefused, GrowHalf, files
  <2>2. Uncounted' = Uncounted /\ Chain = {}
    BY <2>1 DEF Uncounted, Chain, Building, Freeing
  <2>3. \A h \in Groups : UncountedIn(h)' = UncountedIn(h)
    BY <2>1 DEF UncountedIn
  <2> QED BY <2>1, <2>2, <2>3, SameDrift
<1>3. CASE ScanNext
  <2>1. /\ pc = "scan" /\ pc' = "scan" /\ op' = [op EXCEPT !.grp = NextGroup(@)]
        /\ UNCHANGED <<bmap, bgd, dsb, sb, held, halves, stranded, starved, crashes>>
    BY <1>3 DEF ScanNext, files
  <2>2. op'.got = op.got /\ op'.cnt = op.cnt
    BY <1>1, <2>1 DEF OpType
  <2>3. Uncounted' = Uncounted /\ Chain' = Chain
    BY <2>1, <2>2 DEF Uncounted, Chain, Building, Freeing
  <2>4. \A h \in Groups : UncountedIn(h)' = UncountedIn(h)
    BY <2>1 DEF UncountedIn
  <2> QED BY <2>1, <2>2, <2>3, <2>4, SameDrift
<1>4. CASE GrowLink
  <2>1. /\ pc = "link" /\ pc' = "super" /\ held' = held \cup op.got
        /\ UNCHANGED <<bmap, bgd, dsb, sb, op, halves, stranded, starved, crashes>>
    BY <1>4 DEF GrowLink
  <2>2. Uncounted' = Uncounted /\ Chain' = Chain
    BY <2>1 DEF Uncounted, Chain, Building, Freeing
  <2>3. \A h \in Groups : UncountedIn(h)' = UncountedIn(h)
    BY <2>1 DEF UncountedIn
  <2> QED BY <2>1, <2>2, <2>3, SameDrift
<1>5. CASE UNCHANGED vars
  <2>1. UNCHANGED <<bmap, bgd, dsb, sb, pc, op, held, halves, stranded, starved, crashes>>
    BY <1>5 DEF vars
  <2>2. Uncounted' = Uncounted /\ Chain' = Chain
    BY <2>1 DEF Uncounted, Chain, Building, Freeing
  <2>3. \A h \in Groups : UncountedIn(h)' = UncountedIn(h)
    BY <2>1 DEF UncountedIn
  <2>4. CASE starved
    BY <2>1, <2>4 DEF Drift
  <2>5. CASE ~starved
    <3>1. pc' = "super" => op'.got \subseteq held'
      BY <2>1, <2>5 DEF Drift, FewLost
    <3> QED BY <2>1, <2>2, <2>3, <3>1, SameDrift
  <2> QED BY <2>4, <2>5
<1> QED BY <1>2, <1>3, <1>4, <1>5

(* A descriptor is written: its count follows.                              *)
LEMMA DescriptorFollows ==
  ASSUME TypeOK, TypeOK', CountsNear, UNCHANGED <<bmap, dsb, sb, crashes>>,
         Uncounted' = Uncounted,
         NEW g \in Groups, NEW d \in Int,
         bgd'[g] - bgd[g] = d \/ bgd'[g] - bgd[g] = d + U16 \/ bgd'[g] - bgd[g] = d - U16,
         UncountedIn(g)' = UncountedIn(g) + d,
         \A h \in Groups \ {g} : bgd'[h] = bgd[h] /\ UncountedIn(h)' = UncountedIn(h)
  PROVE  CountsNear'
<1>1. dsb' = sb'
  BY DEF CountsNear
<1>2. sb' - sb = (Cardinality(Clear(bmap')) + Uncounted')
                   - (Cardinality(Clear(bmap)) + Uncounted)
  BY Numbers, SMT
<1>3. ASSUME NEW h \in Groups
      PROVE  LET c == ClearIn(bmap, h) + UncountedIn(h)
                 e == ClearIn(bmap', h) + UncountedIn(h)'
             IN  \/ bgd'[h] - bgd[h] = e - c
                 \/ bgd'[h] - bgd[h] = (e - c) + U16
                 \/ bgd'[h] - bgd[h] = (e - c) - U16
  <2>1. bgd[h] \in Int /\ bgd'[h] \in Int /\ ClearIn(bmap, h) \in Int /\ UncountedIn(h) \in Int
    <3>1. bgd'[h] \in Int
      BY BoundsNext
    <3> QED BY <3>1, Numbers, Bounds
  <2>2. ClearIn(bmap', h) = ClearIn(bmap, h)
    OBVIOUS
  <2>3. CASE h = g
    BY <2>1, <2>2, <2>3, VolumeFacts, SMT
  <2>4. CASE h # g
    <3>1. bgd'[h] = bgd[h] /\ UncountedIn(h)' = UncountedIn(h)
      BY <2>4
    <3> QED BY <2>1, <2>2, <3>1, SMT
  <2> QED BY <2>3, <2>4
<1> QED BY <1>1, <1>2, <1>3, CountsMove

LEMMA AllocBgdDrift ==
  ASSUME IInv, IInv', Drift, AllocBgd
  PROVE  Drift'
<1>1. /\ pc = "bgd" /\ pc' \in {"link", "scan"}
      /\ bgd' = [bgd EXCEPT ![op.grp] = Dec16(@)]
      /\ op' = [op EXCEPT !.need = @ - 1, !.cnt = @ + 1, !.got = @ \cup {op.new_blk},
                          !.grp = op.goal]
      /\ UNCHANGED <<bmap, dsb, sb, held, halves, stranded, starved, crashes>>
  BY DEF AllocBgd, files
<1>2. TypeOK /\ TypeOK'
  BY DEF IInv
<1> SUFFICES ASSUME ~starved PROVE CountsNear' /\ FewLost'
  BY <1>1 DEF Drift
<1>3. CountsNear /\ FewLost
  BY DEF Drift
<1>4. /\ op'.cnt = op.cnt + 1 /\ op'.got = op.got \cup {op.new_blk} /\ op.grp \in Groups
      /\ op.cnt \in Nat
  BY <1>1, <1>2, Bounds DEF TypeOK, OpType
<1>5. Uncounted' = Uncounted
  BY <1>1, <1>4, SMT DEF Uncounted, Building
<1>6. \A h : UncountedIn(h)' = 0 /\ UncountedIn(h) = IF h = op.grp THEN 1 ELSE 0
  BY <1>1 DEF UncountedIn
<1>7. CountsNear'
  <2>1. bgd \in [Groups -> 0 .. U16 - 1]
    BY <1>2 DEF TypeOK
  <2>2. bgd'[op.grp] = Dec16(bgd[op.grp]) /\ \A h \in Groups \ {op.grp} : bgd'[h] = bgd[h]
    BY <1>1, <1>4, <2>1
  <2>3. bgd[op.grp] \in Int
    BY <1>2, <1>4, Numbers
  <2>4. \/ bgd'[op.grp] - bgd[op.grp] = 0 - 1
        \/ bgd'[op.grp] - bgd[op.grp] = (0 - 1) + U16
    BY <2>2, <2>3, VolumeFacts, SMT DEF Dec16
  <2>5. UncountedIn(op.grp)' = UncountedIn(op.grp) + (0 - 1)
    <3>1. UncountedIn(op.grp) = 1
      BY <1>6
    <3>2. \A h : UncountedIn(h)' = 0
      BY <1>6
    <3>3. UncountedIn(op.grp)' = 0
      BY <1>1 DEF UncountedIn
    <3> QED BY <3>1, <3>3
  <2>6. 0 - 1 \in Int
    OBVIOUS
  <2>7. PICK g \in Groups : g = op.grp
    BY <1>4
  <2>8. UncountedIn(g)' = UncountedIn(g) + (0 - 1)
    <3>1. UncountedIn(g) = 1 /\ UncountedIn(g)' = 0
      BY <1>6, <2>7
    <3> QED BY <3>1
  <2>9. \A h \in Groups \ {g} : bgd'[h] = bgd[h] /\ UncountedIn(h)' = UncountedIn(h)
    BY <1>6, <2>2, <2>7
  <2>10. \/ bgd'[g] - bgd[g] = 0 - 1
         \/ bgd'[g] - bgd[g] = (0 - 1) + U16
    BY <2>4, <2>7
  <2> QED BY <1>1, <1>2, <1>3, <1>5, <2>6, <2>8, <2>9, <2>10, DescriptorFollows
<1>8. FewLost'
  <2>1. Chain' = Chain
    BY <1>1, <1>4 DEF Chain, Building
  <2>2. Lost' \subseteq Lost
    BY <1>1, <2>1, LostSame
  <2>3. IsFiniteSet(op.got)' /\ Cardinality(op.got)' <= op'.cnt
    <3>1. IsFiniteSet(op.got) /\ Cardinality(op.got) <= op.cnt /\ Cardinality(op.got) \in Nat
      BY <1>3, FS_CardinalityType DEF FewLost
    <3>2. /\ IsFiniteSet(op.got \cup {op.new_blk})
          /\ \/ Cardinality(op.got \cup {op.new_blk}) = Cardinality(op.got)
             \/ Cardinality(op.got \cup {op.new_blk}) = Cardinality(op.got) + 1
      BY <3>1, FS_AddElement
    <3>3. Cardinality(op.got \cup {op.new_blk}) <= op.cnt + 1
      BY <1>4, <3>1, <3>2, SMT
    <3> QED BY <1>4, <3>2, <3>3
  <2> QED BY <1>1, <1>2, <1>3, <2>2, <2>3, FewLostKept
<1> QED BY <1>7, <1>8

LEMMA FreeBgdDrift ==
  ASSUME IInv, IInv', Drift, FreeBgd
  PROVE  Drift'
<1>1. /\ pc = "free_bgd" /\ pc' = "free_super"
      /\ bgd' = [bgd EXCEPT ![op.grp] = Inc16(@)]
      /\ UNCHANGED <<bmap, dsb, sb, op, held, halves, stranded, starved, crashes>>
  BY DEF FreeBgd, files
<1>2. TypeOK /\ TypeOK'
  BY DEF IInv
<1> SUFFICES ASSUME ~starved PROVE CountsNear' /\ FewLost'
  BY <1>1 DEF Drift
<1>3. CountsNear /\ FewLost
  BY DEF Drift
<1>4. PICK g \in Groups : g = op.grp
  BY <1>2 DEF TypeOK, OpType
<1>5. Uncounted' = Uncounted
  BY <1>1 DEF Uncounted, Building, Freeing
<1>6. \A h : UncountedIn(h)' = 0 /\ UncountedIn(h) = IF h = g THEN 0 - 1 ELSE 0
  BY <1>1, <1>4 DEF UncountedIn
<1>7. CountsNear'
  <2>1. bgd \in [Groups -> 0 .. U16 - 1]
    BY <1>2 DEF TypeOK
  <2>2. bgd'[g] = Inc16(bgd[g]) /\ \A h \in Groups \ {g} : bgd'[h] = bgd[h]
    BY <1>1, <1>4, <2>1
  <2>3. bgd[g] \in Int
    BY <1>2, Numbers
  <2>4. bgd'[g] - bgd[g] = 1 \/ bgd'[g] - bgd[g] = 1 - U16
    BY <2>2, <2>3, VolumeFacts, SMT DEF Inc16
  <2>5. UncountedIn(g)' = UncountedIn(g) + 1
    <3>1. UncountedIn(g) = 0 - 1 /\ UncountedIn(g)' = 0
      BY <1>6
    <3> QED BY <3>1
  <2>6. \A h \in Groups \ {g} : bgd'[h] = bgd[h] /\ UncountedIn(h)' = UncountedIn(h)
    BY <1>6, <2>2
  <2> QED BY <1>1, <1>2, <1>3, <1>5, <2>4, <2>5, <2>6, DescriptorFollows
<1>8. FewLost'
  <2>1. Chain = {}
    BY <1>1 DEF Chain, Building
  <2>2. Lost' \subseteq Lost
    BY <1>1, <2>1, LostSame
  <2>3. IsFiniteSet(op.got)' /\ Cardinality(op.got)' <= op'.cnt
    BY <1>1, <1>3 DEF FewLost
  <2> QED BY <1>1, <1>2, <1>3, <2>2, <2>3, FewLostKept
<1> QED BY <1>7, <1>8

(* The superblock is written, at the end of an allocation or after a block  *)
(* was freed.                                                               *)
LEMMA SuperDrift ==
  ASSUME IInv, IInv', Drift, GrowSuper \/ FreeSuper
  PROVE  Drift'
<1>1. /\ pc \in {"super", "free_super"} /\ pc' \in {"idle", "free", "halted", "lost"}
      /\ dsb' = sb'
      /\ UNCHANGED <<bmap, bgd, held, halves, stranded, starved, crashes>>
  BY DEF GrowSuper, FreeSuper, AtRest, files
<1>2. TypeOK /\ TypeOK'
  BY DEF IInv
<1> SUFFICES ASSUME ~starved PROVE CountsNear' /\ FewLost'
  BY <1>1 DEF Drift
<1>3. CountsNear /\ FewLost
  BY DEF Drift
<1>4. Uncounted' = 0 /\ Chain' = {}
  BY <1>1 DEF Uncounted, Chain, Building, Freeing
<1>5. \A h : UncountedIn(h)' = 0 /\ UncountedIn(h) = 0
  BY <1>1 DEF UncountedIn
<1>6. /\ sb' - sb = 0 - Uncounted \/ sb' - sb = (0 - Uncounted) + U32
                                  \/ sb' - sb = (0 - Uncounted) - U32
  <2>1. sb \in Nat /\ op.cnt \in Nat /\ U32 \in Nat
    BY <1>2, Bounds
  <2>2. CASE GrowSuper
    <3>1. sb' = Sub32(sb, op.cnt) /\ Uncounted = op.cnt + 0
      BY <2>2 DEF GrowSuper, GrowCount, Uncounted, Building
    <3> QED BY <2>1, <3>1, SMT DEF Sub32
  <2>3. CASE FreeSuper
    <3>1. (sb' = IF sb = U32 - 1 THEN 0 ELSE sb + 1) /\ Uncounted = 0 - 1
      BY <2>3 DEF FreeSuper, Uncounted, Building, Freeing
    <3> QED BY <2>1, <3>1, SMT
  <2> QED BY <2>2, <2>3
<1>7. CountsNear'
  <2>1. LET c == Cardinality(Clear(bmap)) + Uncounted
            e == Cardinality(Clear(bmap')) + Uncounted'
        IN  \/ sb' - sb = e - c
            \/ sb' - sb = (e - c) + U32
            \/ sb' - sb = (e - c) - U32
    <3>1. (Cardinality(Clear(bmap')) + Uncounted') - (Cardinality(Clear(bmap)) + Uncounted)
            = 0 - Uncounted
      BY <1>1, <1>2, <1>4, Numbers, SMT
    <3> QED BY <1>6, <3>1
  <2>2. \A h \in Groups : bgd'[h] - bgd[h] = (ClearIn(bmap', h) + UncountedIn(h)')
                                               - (ClearIn(bmap, h) + UncountedIn(h))
    BY <1>1, <1>2, <1>5, Numbers, SMT
  <2> QED BY <1>1, <1>2, <1>3, <2>1, <2>2, CountsMove
<1>8. FewLost'
  <2>1. Chain \subseteq held'
    BY <1>1, <1>3 DEF Chain, Building, FewLost
  <2>2. Lost' \subseteq Lost
    BY <1>1, <2>1, LostSame
  <2>3. IsFiniteSet(op.got)' /\ Cardinality(op.got)' <= op'.cnt
    <3>1. CASE GrowSuper
      <4>1. op'.got = {} /\ op'.cnt = 0
        BY <3>1, NoOpType DEF GrowSuper
      <4> QED BY <4>1, NothingGot
    <3>2. CASE FreeSuper
      <4>1. op'.got = op.got /\ op'.cnt = op.cnt
        BY <1>2, <3>2 DEF FreeSuper, TypeOK, OpType
      <4> QED BY <1>3, <4>1 DEF FewLost
    <3> QED BY <3>1, <3>2
  <2> QED BY <1>1, <1>2, <1>3, <2>2, <2>3, FewLostKept
<1> QED BY <1>7, <1>8

LEMMA FreeBlockDrift ==
  ASSUME IInv, IInv', Drift, NEW blk \in op.todo, FreeBlock(blk)
  PROVE  Drift'
<1>1. /\ pc = "free" /\ pc' = "free_bgd" /\ Marked(blk)
      /\ bmap' = [bmap EXCEPT ![GroupOf(blk)] = @ \ {BitOf(blk)}]
      /\ op'.got = op.got /\ op'.cnt = op.cnt /\ op'.grp = GroupOf(blk)
      /\ UNCHANGED <<bgd, dsb, sb, held, halves, stranded, starved, crashes>>
  BY FreeBlockPasses
<1>2. TypeOK /\ TypeOK'
  BY DEF IInv
<1> SUFFICES ASSUME ~starved PROVE CountsNear' /\ FewLost'
  BY <1>1 DEF Drift
<1>3. CountsNear /\ FewLost
  BY DEF Drift
<1>5. PICK g \in Groups : g = GroupOf(blk)
  BY <1>1 DEF Marked, IsData
<1>6. PICK bit \in Data[g] : bit = BitOf(blk) /\ bit \in bmap[g]
  BY <1>1, <1>5 DEF Marked, IsData
<1>7. bmap' = [bmap EXCEPT ![g] = @ \ {bit}] /\ op'.grp = g
  BY <1>1, <1>5, <1>6
<1>9. Uncounted = 0 /\ Uncounted' = 0 - 1 /\ Chain = {} /\ Chain' = {}
  BY <1>1, <1>7 DEF Uncounted, Chain, Building, Freeing
<1>10. \A h : UncountedIn(h) = 0 /\ UncountedIn(h)' = IF h = g THEN 0 - 1 ELSE 0
  BY <1>1, <1>7 DEF UncountedIn
<1>11. /\ Cardinality(Clear(bmap')) = Cardinality(Clear(bmap)) + 1
       /\ ClearIn(bmap', g) = ClearIn(bmap, g) + 1
       /\ \A h \in Groups \ {g} : ClearIn(bmap', h) = ClearIn(bmap, h)
  <2>1. bmap \in [Groups -> SUBSET Bits] /\ bmap' \in [Groups -> SUBSET Bits]
    BY <1>2 DEF TypeOK
  <2>2. bit \notin bmap'[g] /\ bmap = [bmap' EXCEPT ![g] = @ \cup {bit}]
    BY <1>6, <1>7, <2>1
  <2>3. PICK B \in [Groups -> SUBSET Bits] : B = bmap'
    BY <2>1
  <2>4. PICK C \in [Groups -> SUBSET Bits] : C = bmap
    BY <2>1
  <2>5. bit \notin B[g] /\ C = [B EXCEPT ![g] = @ \cup {bit}]
    BY <2>2, <2>3, <2>4
  <2>6. /\ Cardinality(Clear(B)) = Cardinality(Clear(C)) + 1
        /\ ClearIn(B, g) = ClearIn(C, g) + 1
        /\ \A h \in Groups \ {g} : ClearIn(B, h) = ClearIn(C, h)
    <3>1. \A h \in Groups : \A k \in Data[h] :
             k \notin B[h] /\ C = [B EXCEPT ![h] = @ \cup {k}] =>
                /\ Cardinality(Clear(B)) = Cardinality(Clear(C)) + 1
                /\ ClearIn(B, h) = ClearIn(C, h) + 1
                /\ \A i \in Groups \ {h} : ClearIn(B, i) = ClearIn(C, i)
      BY OneBitMore
    <3> QED BY <2>5, <3>1
  <2> QED BY <2>3, <2>4, <2>6
<1>12. CountsNear'
  <2>1. dsb' = sb'
    BY <1>1, <1>3 DEF CountsNear
  <2>2. sb' - sb = (Cardinality(Clear(bmap')) + Uncounted')
                     - (Cardinality(Clear(bmap)) + Uncounted)
    BY <1>1, <1>2, <1>9, <1>11, Numbers, SMT
  <2>3. ASSUME NEW h \in Groups
        PROVE  bgd'[h] - bgd[h] = (ClearIn(bmap', h) + UncountedIn(h)')
                                    - (ClearIn(bmap, h) + UncountedIn(h))
    <3>1. bgd[h] \in Int /\ bgd'[h] = bgd[h] /\ ClearIn(bmap, h) \in Int
      BY <1>1, <1>2, Numbers
    <3>2. CASE h = g
      <4>1. UncountedIn(h) = 0 /\ UncountedIn(h)' = 0 - 1
        BY <1>10, <3>2
      <4> QED BY <1>11, <3>1, <3>2, <4>1, SMT
    <3>3. CASE h # g
      <4>1. UncountedIn(h) = 0 /\ UncountedIn(h)' = 0
        BY <1>10, <3>3
      <4> QED BY <1>11, <3>1, <3>3, <4>1, SMT
    <3> QED BY <3>2, <3>3
  <2> QED BY <1>1, <1>2, <1>3, <2>1, <2>2, <2>3, CountsMove
<1>13. FewLost'
  <2>1. \A h \in Groups : bmap'[h] \subseteq bmap[h]
    BY <1>2, <1>7 DEF TypeOK
  <2>2. Owned' = Owned
    BY <1>1 DEF Owned
  <2>3. Lost' \subseteq Lost
    BY <1>9, <2>1, <2>2, LostOf
  <2>4. IsFiniteSet(op.got)' /\ Cardinality(op.got)' <= op'.cnt
    BY <1>1, <1>3 DEF FewLost
  <2> QED BY <1>1, <1>2, <1>3, <2>3, <2>4, FewLostKept
<1> QED BY <1>12, <1>13

(* A marked block that is let go in the removal's last step is none of the  *)
(* file's.                                                                  *)
LEMMA FreedNotLeaked ==
  ASSUME IInv, NEW p, p[1] \in Groups, p[2] \in Data[p[1]] \cap bmap[p[1]],
         BlockOf(p[1], p[2]) \in op.file
  PROVE  BlockOf(p[1], p[2]) \in op.todo
<1>1. Marked(BlockOf(p[1], p[2]))
  BY DataBlock DEF Marked, IsData
<1> QED BY <1>1 DEF IInv, RemovalOK

LEMMA RemoveEndDrift ==
  ASSUME IInv, IInv', Drift, RemoveEnd
  PROVE  Drift'
<1>1. /\ pc = "free" /\ pc' = "idle" /\ op.todo = {} /\ op' = NoOp
      /\ held' = held \ op.file
      /\ UNCHANGED <<bmap, bgd, dsb, sb, halves, stranded, starved, crashes>>
  BY DEF RemoveEnd
<1>2. TypeOK /\ TypeOK'
  BY DEF IInv
<1> SUFFICES ASSUME ~starved PROVE CountsNear' /\ FewLost'
  BY <1>1 DEF Drift
<1>3. CountsNear /\ FewLost
  BY DEF Drift
<1>4. Uncounted = 0 /\ Uncounted' = 0 /\ Chain = {}
  BY <1>1 DEF Uncounted, Building, Freeing, Chain
<1>5. \A h : UncountedIn(h) = 0 /\ UncountedIn(h)' = 0
  BY <1>1 DEF UncountedIn
<1>6. CountsNear'
  <2>1. dsb' = sb'
    BY <1>1, <1>3 DEF CountsNear
  <2> QED BY <1>1, <1>2, <1>3, <1>4, <1>5, <2>1, Numbers, CountsMove
<1>7. FewLost'
  <2>1. Lost' \subseteq Lost
    <3> SUFFICES ASSUME NEW p \in Lost' PROVE p \in Lost
      OBVIOUS
    <3>1. /\ p \in Groups \X Bits /\ p[2] \in Data[p[1]] \cap bmap[p[1]]
          /\ BlockOf(p[1], p[2]) \notin Owned'
      BY <1>1 DEF Lost, Leaked, BlockOf
    <3>2. p[1] \in Groups
      BY <3>1
    <3>3. BlockOf(p[1], p[2]) \notin op.file
      BY <1>1, <3>1, <3>2, FreedNotLeaked
    <3>4. BlockOf(p[1], p[2]) \notin Owned
      BY <1>1, <3>1, <3>3 DEF Owned
    <3> QED BY <1>4, <3>1, <3>4 DEF Lost, Leaked
  <2>2. op'.got = {} /\ op'.cnt = 0
    BY <1>1, NoOpType
  <2> QED BY <1>1, <1>2, <1>3, <2>1, <2>2, NothingGot, FewLostKept
<1> QED BY <1>6, <1>7

(* A crash leaves the counts one operation behind, and loses its chain.     *)
LEMMA CrashDrift ==
  ASSUME IInv, IInv', Drift, Crash
  PROVE  Drift'
<1>1. /\ pc \notin {"idle", "lost"} /\ crashes' = crashes + 1 /\ sb' = dsb
      /\ pc' \in {"idle", "lost"} /\ op' = NoOp
      /\ UNCHANGED <<bmap, bgd, dsb, starved>>
  BY DEF Crash, AtRest
<1>2. TypeOK /\ TypeOK'
  BY DEF IInv
<1> SUFFICES ASSUME ~starved PROVE CountsNear' /\ FewLost'
  BY <1>1 DEF Drift
<1>3. CountsNear /\ FewLost
  BY DEF Drift
<1>4. Uncounted' = 0 /\ Chain' = {}
  BY <1>1 DEF Uncounted, Chain, Building, Freeing
<1>5. \A h : UncountedIn(h)' = 0
  BY <1>1 DEF UncountedIn
<1>6. pc = "bgd" => op.cnt + 1 <= MaxChain
  BY <1>2, ChainCount, LayoutAssumption, SMT DEF IInv
<1>7. 0 - 1 <= Uncounted /\ Uncounted <= MaxChain
  BY <1>2, <1>6, Bounds, SMT DEF Uncounted
<1>8. \A h : 0 - 1 <= UncountedIn(h) /\ UncountedIn(h) <= 1
  BY SMT DEF UncountedIn
<1>9. CountsNear'
  <2>1. dsb' = sb' /\ sb' = sb
    BY <1>1, <1>3 DEF CountsNear
  <2>2. Near(sb', Cardinality(Clear(bmap')) + Uncounted', U32, MaxChain * crashes')
    <3> DEFINE c == Cardinality(Clear(bmap)) + Uncounted
               e == Cardinality(Clear(bmap)) + 0
               k == MaxChain * crashes
               n == MaxChain * (crashes + 1)
    <3>1. /\ c \in Int /\ e \in Int /\ k \in Nat /\ MaxChain \in Nat /\ n = k + MaxChain
          /\ sb \in Int /\ U32 \in Nat \ {0}
      BY <1>2, Bounds, Numbers
    <3>2. 0 - MaxChain <= e - c /\ e - c <= MaxChain
      BY <1>2, <1>7, Bounds, Numbers, SMT
    <3>3. Near(sb, c, U32, k)
      BY <1>3 DEF CountsNear
    <3>4. Near(sb, e, U32, n)
      <4> HIDE DEF c, e, k, n
      <4>1. n \in Nat /\ k + MaxChain <= n
        BY <3>1, SMT
      <4> QED BY <3>1, <3>2, <3>3, <4>1, NearBehind
    <3> QED BY <1>1, <1>4, <2>1, <3>4
  <2>3. ASSUME NEW h \in Groups
        PROVE  Near(bgd'[h], ClearIn(bmap', h) + UncountedIn(h)', U16, crashes')
    <3> DEFINE c == ClearIn(bmap, h) + UncountedIn(h)
               e == ClearIn(bmap, h) + 0
    <3>1. /\ ClearIn(bmap, h) \in Int /\ UncountedIn(h) \in Int /\ crashes \in Nat
          /\ bgd[h] \in Int /\ U16 \in Nat \ {0}
      BY <1>2, Bounds, Numbers
    <3>2. c \in Int /\ e \in Int /\ 0 - 1 <= e - c /\ e - c <= 1
      BY <1>8, <3>1, SMT
    <3>3. Near(bgd[h], c, U16, crashes)
      BY <1>3 DEF CountsNear
    <3>4. Near(bgd[h], e, U16, crashes + 1)
      <4> HIDE DEF c, e
      <4>1. crashes + 1 \in Nat /\ crashes + 1 <= crashes + 1 /\ 1 \in Nat
        BY <3>1, SMT
      <4> QED BY <3>1, <3>2, <3>3, <4>1, NearBehind
    <3>5. UncountedIn(h)' = 0
      BY <1>5
    <3> QED BY <1>1, <3>4, <3>5
  <2> QED BY <2>1, <2>2, <2>3 DEF CountsNear
<1>10. FewLost'
  <2> DEFINE Mine == {p \in Leaked : BlockOf(p[1], p[2]) \in Chain}
             Pairs == {<<GroupOf(b), BitOf(b)>> : b \in Chain}
  <2>1. IsFiniteSet(Chain) /\ Cardinality(Chain) <= MaxChain
    <3>1. /\ IsFiniteSet(op.got) /\ Cardinality(op.got) \in Nat
          /\ Cardinality(op.got) <= op.cnt
      BY <1>3, FS_CardinalityType DEF FewLost
    <3>2. /\ IsFiniteSet(op.got \cup {op.new_blk})
          /\ \/ Cardinality(op.got \cup {op.new_blk}) = Cardinality(op.got)
             \/ Cardinality(op.got \cup {op.new_blk}) = Cardinality(op.got) + 1
      BY <3>1, FS_AddElement
    <3>3. op.cnt \in Nat /\ op.cnt <= MaxChain /\ MaxChain \in Nat
      BY <1>2, Bounds
    <3>4. CASE Building /\ pc = "bgd"
      <4>1. Chain = op.got \cup {op.new_blk}
        BY <3>4 DEF Chain
      <4>2. op.cnt + 1 <= MaxChain
        BY <1>6, <3>4
      <4>3. Cardinality(op.got \cup {op.new_blk}) <= MaxChain
        BY <3>1, <3>2, <3>3, <4>2, SMT
      <4> QED BY <3>2, <4>1, <4>3
    <3>5. CASE Building /\ pc # "bgd"
      <4>1. Chain = op.got
        BY <3>5 DEF Chain
      <4>2. Cardinality(op.got) <= MaxChain
        BY <3>1, <3>3, SMT
      <4> QED BY <3>1, <4>1, <4>2
    <3>6. CASE ~Building
      <4>1. Chain = {}
        BY <3>6 DEF Chain
      <4> QED BY <3>3, <4>1, NothingGot
    <3> QED BY <3>4, <3>5, <3>6
  <2>2. IsFiniteSet(Pairs) /\ Cardinality(Pairs) <= Cardinality(Chain)
    <3> DEFINE f == [b \in Chain |-> <<GroupOf(b), BitOf(b)>>]
    <3>1. f \in Surjection(Chain, Pairs)
      BY Zenon DEF Surjection
    <3> HIDE DEF f, Pairs
    <3> QED BY <2>1, <3>1, FS_Surjection
  <2>3. Mine \subseteq Pairs
    <3> SUFFICES ASSUME NEW p \in Mine PROVE p \in Pairs
      OBVIOUS
    <3>1. p \in Leaked /\ BlockOf(p[1], p[2]) \in Chain
      OBVIOUS
    <3>2. p = <<GroupOf(BlockOf(p[1], p[2])), BitOf(BlockOf(p[1], p[2]))>>
      BY <3>1, LeakedPair
    <3> QED BY <3>1, <3>2
  <2>4. MaxChain \in Nat /\ MaxChain * crashes \in Nat
        /\ MaxChain * (crashes + 1) = MaxChain * crashes + MaxChain
    BY <1>2, Bounds
  <2>5. IsFiniteSet(Mine) /\ Cardinality(Mine) <= MaxChain
    <3>1. Cardinality(Pairs) <= MaxChain
      <4>1. Cardinality(Pairs) \in Nat /\ Cardinality(Chain) \in Nat
        BY <2>1, <2>2, FS_CardinalityType
      <4> QED BY <2>1, <2>2, <2>4, <4>1, SMT
    <3> HIDE DEF Mine, Pairs
    <3> QED BY <2>2, <2>3, <2>4, <3>1, LostFewer
  <2>6. Lost' \subseteq Lost \cup Mine
    <3> SUFFICES ASSUME NEW p \in Lost' PROVE p \in Leaked
      BY DEF Lost
    <3>1. /\ p \in Groups \X Bits /\ p[2] \in Data[p[1]] \cap bmap[p[1]]
          /\ BlockOf(p[1], p[2]) \notin Owned'
      BY <1>1 DEF Lost, Leaked, BlockOf
    <3>2. p[1] \in Groups
      BY <3>1
    <3> DEFINE b == BlockOf(p[1], p[2])
               half == [first |-> op.first, blocks |-> op.file, ruined |-> FALSE]
    <3>3. b \in op.file => b \in op.todo
      BY <3>1, <3>2, FreedNotLeaked
    <3>4. /\ held' = IF op.late /\ ~Begun THEN held ELSE held \ op.file
          /\ halves' = IF op.late /\ Begun THEN halves \cup {half} ELSE halves
          /\ stranded' = IF op.late THEN stranded ELSE stranded \cup op.todo
      BY DEF Crash
    <3>5. half.blocks = op.file
      OBVIOUS
    <3> HIDE DEF b, half
    <3>6. CASE op.late /\ ~Begun
      <4>1. Owned' = Owned
        BY <3>4, <3>6 DEF Owned
      <4> QED BY <3>1, <4>1 DEF Leaked, b
    <3>7. CASE op.late /\ Begun
      <4>1. held' = held \ op.file /\ halves' = halves \cup {half} /\ stranded' = stranded
        BY <3>4, <3>7
      <4>2. Owned \subseteq Owned'
        BY <3>5, <4>1 DEF Owned
      <4> QED BY <3>1, <4>2 DEF Leaked, b
    <3>8. CASE ~op.late
      <4>1. held' = held \ op.file /\ halves' = halves /\ stranded' = stranded \cup op.todo
        BY <3>4, <3>8
      <4>2. ASSUME b \in Owned PROVE b \in Owned'
        <5>1. CASE b \in held
          <6>1. b \in held' \/ b \in stranded'
            BY <3>3, <4>1, <5>1, SMT
          <6> QED BY <6>1 DEF Owned
        <5>2. CASE b \in stranded
          <6>1. b \in stranded'
            BY <4>1, <5>2
          <6> QED BY <6>1 DEF Owned
        <5>3. CASE b \in UNION {x.blocks : x \in halves}
          <6>1. b \in UNION {x.blocks : x \in halves'}
            BY <4>1, <5>3
          <6> QED BY <6>1 DEF Owned
        <5> QED BY <4>2, <5>1, <5>2, <5>3 DEF Owned
      <4> QED BY <3>1, <4>2 DEF Leaked, b
    <3> QED BY <3>6, <3>7, <3>8
  <2>7. IsFiniteSet(Lost) /\ Cardinality(Lost) <= MaxChain * crashes
    BY <1>3 DEF FewLost
  <2>8. /\ IsFiniteSet(Lost \cup Mine)
        /\ Cardinality(Lost \cup Mine) <= MaxChain * crashes + MaxChain
    <3> HIDE DEF Mine
    <3>1. /\ IsFiniteSet(Lost \cup Mine) /\ IsFiniteSet(Lost \cap Mine)
          /\ Cardinality(Lost \cup Mine)
               = Cardinality(Lost) + Cardinality(Mine) - Cardinality(Lost \cap Mine)
      BY <2>5, <2>7, FS_Union, FS_Intersection
    <3>2. /\ Cardinality(Lost) \in Nat /\ Cardinality(Mine) \in Nat
          /\ Cardinality(Lost \cap Mine) \in Nat
      BY <2>5, <2>7, <3>1, FS_CardinalityType
    <3> QED BY <2>4, <2>5, <2>7, <3>1, <3>2, SMT
  <2>9. IsFiniteSet(Lost') /\ Cardinality(Lost') <= MaxChain * crashes + MaxChain
    <3>1. MaxChain * crashes + MaxChain \in Nat
      BY <2>4
    <3> HIDE DEF Mine
    <3> QED BY <2>6, <2>8, <3>1, LostFewer
  <2>10. op'.got = {} /\ op'.cnt = 0
    BY <1>1, NoOpType
  <2>11. MaxChain * crashes' = MaxChain * crashes + MaxChain
    BY <1>1, <2>4
  <2> QED BY <1>1, <2>9, <2>10, <2>11, NothingGot DEF FewLost
<1> QED BY <1>9, <1>10

LEMMA InitDrift == Init => Drift
<1> SUFFICES ASSUME Init PROVE CountsNear /\ FewLost
  BY DEF Drift
<1>1. PICK used \in [Groups -> SUBSET Bits] :
         /\ \A g \in Groups : used[g] \subseteq Data[g]
         /\ bmap = [g \in Groups |-> (Bits \ Data[g]) \cup used[g]]
         /\ held = UNION {{BlockOf(g, bit) : bit \in used[g]} : g \in Groups}
         /\ bgd  = [g \in Groups |-> Cardinality(Data[g] \ used[g])]
         /\ sb   = Cardinality(ClearBits)
         /\ dsb  = sb
         /\ pc = "idle" /\ op = NoOp
         /\ halves = {} /\ stranded = {}
         /\ starved = FALSE /\ crashes = 0
  BY DEF Init
<1>2. TypeOK
  BY InitIInv DEF IInv
<1>3. Uncounted = 0 /\ \A g : UncountedIn(g) = 0
  BY <1>1 DEF Uncounted, UncountedIn, Building, Freeing
<1>4. MaxChain * crashes = 0 /\ MaxChain \in Nat
  BY <1>1, LayoutAssumption, SMT
<1>5. CountsNear
  <2>1. sb = Cardinality(Clear(bmap)) + Uncounted
    <3>1. sb = Cardinality(Clear(bmap))
      BY <1>1 DEF ClearBits, Clear
    <3> QED BY <1>2, <1>3, <3>1, Numbers, SMT
  <2>2. ASSUME NEW g \in Groups
        PROVE  bgd[g] = ClearIn(bmap, g) + UncountedIn(g)
    <3>1. Data[g] \ bmap[g] = Data[g] \ used[g]
      BY <1>1, LayoutAssumption
    <3>2. bgd[g] = ClearIn(bmap, g) /\ UncountedIn(g) = 0
      BY <1>1, <1>3, <3>1 DEF ClearIn
    <3> QED BY <1>2, <3>2, Numbers, SMT
  <2>3. Near(sb, sb, U32, 0)
    BY <1>2, Numbers, VolumeFacts, NearItself
  <2>4. \A g \in Groups : Near(bgd[g], bgd[g], U16, 0)
    BY <1>2, Numbers, VolumeFacts, NearItself
  <2> QED BY <1>1, <1>4, <2>1, <2>2, <2>3, <2>4 DEF CountsNear
<1>6. FewLost
  <2>1. Lost = {}
    <3> SUFFICES ASSUME NEW p \in Leaked PROVE FALSE
      BY DEF Lost
    <3>1. p[1] \in Groups /\ p[2] \in Data[p[1]] /\ p[2] \in bmap[p[1]]
          /\ BlockOf(p[1], p[2]) \notin held
      BY LeakedPair
    <3>2. p[2] \in used[p[1]]
      BY <1>1, <3>1
    <3>3. BlockOf(p[1], p[2]) \in {BlockOf(p[1], bit) : bit \in used[p[1]]}
      BY <3>2
    <3> QED BY <1>1, <3>1, <3>3
  <2>2. op.got = {} /\ op.cnt = 0
    BY <1>1, NoOpType
  <2> QED BY <1>1, <1>4, <2>1, <2>2, NothingGot DEF FewLost
<1> QED BY <1>5, <1>6

LEMMA StepDrift == IInv /\ Drift /\ [Next]_vars => Drift'
<1> SUFFICES ASSUME IInv, Drift, [Next]_vars PROVE Drift'
  OBVIOUS
<1>1. IInv'
  BY StepIInv
<1>2. ASSUME NEW g \in Groups, NEW n \in 1 .. MaxChain, NEW ind \in BOOLEAN,
             GrowStart(g, n, ind)
      PROVE  Drift'
  BY <1>1, <1>2, GrowStartDrift
<1>3. ASSUME NEW F \in SUBSET held, NEW late \in BOOLEAN, RemoveStart(F, late)
      PROVE  Drift'
  BY <1>1, <1>3, RemoveStartDrift
<1>7. ASSUME NEW x \in halves, RemoveAgain(x)
      PROVE  Drift'
  BY <1>1, <1>7, RemoveAgainDrift
<1>4. CASE ScanFail
  BY <1>4 DEF ScanFail, Drift
<1>5. CASE Step /\ ~ScanFail
  BY <1>1, <1>5, ScanHitDrift, QuietDrift, AllocBgdDrift, SuperDrift, FreeBgdDrift,
     FreeBlockDrift, RemoveEndDrift DEF Step, FreeBlocks
<1>6. CASE GrowRefused \/ GrowHalf \/ Crash \/ Stopped \/ UNCHANGED vars
  BY <1>1, <1>6, QuietDrift, CrashDrift DEF Stopped
<1> QED BY <1>2, <1>3, <1>4, <1>5, <1>6, <1>7 DEF Next

(* However often the program has been killed, at rest the free counts of    *)
(* superblock and descriptors and the bitmaps disagree by no more than the  *)
(* crashes can have cost, and no more blocks are leaked, but for what was   *)
(* left of nameless files in their removal.                                 *)
THEOREM DriftStaysBounded == Spec => []DriftBounded
<1>1. IInv /\ Drift => DriftBounded
  <2> SUFFICES ASSUME IInv, Drift, pc = "idle", ~starved
               PROVE  /\ dsb = sb
                      /\ Off(sb, Cardinality(ClearBits), U32) <= MaxChain * crashes
                      /\ Cardinality(Leaked) <= MaxChain * crashes
                      /\ \A g \in Groups :
                            Off(bgd[g], Cardinality(Data[g] \ bmap[g]), U16) <= crashes
    BY DEF DriftBounded
  <2>1. TypeOK /\ CountsNear /\ FewLost
    BY DEF IInv, Drift
  <2>2. Uncounted = 0 /\ Chain = {} /\ \A g : UncountedIn(g) = 0
    BY DEF Uncounted, UncountedIn, Chain, Building, Freeing
  <2>3. \A a, b, w : Off(a, b, w) = Distance(a, b, w)
    BY DEF Off, Distance
  <2>4. Off(sb, Cardinality(ClearBits), U32) <= MaxChain * crashes
    <3>1. ClearBits = Clear(bmap)
      BY DEF ClearBits, Clear
    <3>2. /\ sb \in Int /\ Cardinality(Clear(bmap)) \in Int /\ MaxChain * crashes \in Nat
          /\ U32 \in Nat \ {0}
      BY <2>1, Numbers, Bounds
    <3>3. Cardinality(Clear(bmap)) + Uncounted = Cardinality(Clear(bmap))
      BY <2>2, <3>2
    <3>4. Near(sb, Cardinality(Clear(bmap)), U32, MaxChain * crashes)
      BY <2>1, <3>3 DEF CountsNear
    <3> QED BY <2>3, <3>1, <3>2, <3>4, NearDistance
  <2>5. ASSUME NEW g \in Groups
        PROVE  Off(bgd[g], Cardinality(Data[g] \ bmap[g]), U16) <= crashes
    <3>1. /\ bgd[g] \in Int /\ ClearIn(bmap, g) \in Int /\ crashes \in Nat
          /\ U16 \in Nat \ {0}
      BY <2>1, Numbers, Bounds
    <3>2. ClearIn(bmap, g) + UncountedIn(g) = ClearIn(bmap, g)
      BY <2>2, <3>1
    <3>3. Near(bgd[g], ClearIn(bmap, g), U16, crashes)
      BY <2>1, <3>2 DEF CountsNear
    <3> QED BY <2>3, <3>1, <3>3, NearDistance DEF ClearIn
  <2>6. Lost = Leaked
    BY <2>2 DEF Lost
  <2> QED BY <2>1, <2>4, <2>5, <2>6 DEF CountsNear, FewLost
<1> QED BY <1>1, InitDrift, StepDrift, SpecIInv, PTL DEF Spec
=============================================================================
