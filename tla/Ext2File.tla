------------------------------ MODULE Ext2File ------------------------------
(***************************************************************************)
(* One regular file of fs/ext2.c: its tree of index and data blocks, the   *)
(* block iterator it is read and written through, the loops of             *)
(* read_file_ext2 and write_file_ext2, the growth of the tree by           *)
(* allocate_new_data_block and its removal by remove_file_ext2.            *)
(*                                                                         *)
(* The unit is the 4-byte word, so a block is Links words and index and    *)
(* data blocks have the same form: numbers.  A step is one pass of a loop  *)
(* or one device write that orders the tree's construction; the process    *)
(* may be killed between steps.  The block allocator is taken at its       *)
(* interface (Ext2BlockAlloc has its inside): it hands out the first free  *)
(* block, zeroed, or fails and changes nothing.                            *)
(***************************************************************************)
EXTENDS Ext2Indirect, UInt32, Sequences, FiniteSets

CONSTANTS
  NumBlocks,   \* data blocks of the volume, numbered from 1
  Writes,      \* the write requests: [off, len, val]
  Reads,       \* the read requests: [off, len, val], val unused
  MaxOps,      \* bound on the number of requests
  MaxCrashes   \* bound on the number of crashes

Blk  == 1 .. NumBlocks
Word == 0 .. NumBlocks
ZeroBlock == [i \in 0 .. Links - 1 |-> 0]
MaxWords == limits(3) * Links

ASSUME FileAssumption ==
  /\ NumBlocks \in Nat /\ NumBlocks < U32 /\ MaxOps \in Nat /\ MaxCrashes \in Nat
  /\ U32 >= 4                       \* s_free_blocks_count can hold a chain
  /\ \A r \in Writes \cup Reads :
        r.off \in Nat /\ r.len \in Nat \ {0} /\ r.off + r.len < MaxWords
  /\ \A r \in Writes : r.val \in Word

VARIABLES
  disk,     \* the contents of the data blocks
  used,     \* the blocks marked in the block bitmaps
  dfree,    \* disk: s_free_blocks_count
  dinode,   \* disk: the inode
  free,     \* memory: s_free_blocks_count of *gsb_ext2
  inode,    \* memory: *filp->pinode of the open handle
  it,       \* memory: *filp->it_lpos, the iterator of the handle
  pc,       \* where in the program
  req,      \* the request in progress
  pos,      \* locals offset and count of the loop
  ch,       \* locals of allocate_new_data_block
  todo,     \* blocks remove_file_ext2 still has to free, in its order
  late,     \* disk: the file's entry is the first of a block of its directory
  rd,       \* ghost: the last chunk read_file_ext2 delivered
  starved,  \* ghost: allocate_block has failed
  halved,   \* ghost: a kill has cut the removal of a file that kept its name
  crashes, ops

mem  == <<free, inode, it>>
dev  == <<disk, used, dfree, dinode>>
locs == <<req, pos, ch, todo, rd>>
bnd  == <<late, starved, halved, crashes, ops>>
vars == <<dev, mem, pc, locs, bnd>>

EmptyInode == [i_size |-> 0, i_blocks |-> 0, i_block |-> [k \in 0 .. TI_INDEX |-> 0]]
NoRequest  == [off |-> 0, len |-> 0, val |-> 0]
NoPos      == [off |-> 0, count |-> 0]
NoChain    == [child |-> 0, first |-> 0, n |-> 0, j |-> 0]
NoRead     == [off |-> 0, words |-> <<>>]

Larger(a, b)  == IF a >= b THEN a ELSE b
Smaller(a, b) == IF a <= b THEN a ELSE b

BlockOfOffset(off) == off \div Links

(* get_indirect_blocks, for every block of a file. *)
path_of == [blk \in FileBlocks |-> [mode |-> mode_of(blk), index |-> index_of(blk)]]

-----------------------------------------------------------------------------
(* blk_iterator_init: the path to the block of an offset and, as far as     *)
(* they exist, the index blocks on it; leaf is the cached content of the    *)
(* last one, blks[mode].                                                    *)
blks_on_path(ino, dsk, x, m) ==
  LET b[j \in 0 .. 3] ==
        IF j = 0 THEN IF m = 0 THEN ino.i_block[x[0]] ELSE 0
        ELSE IF j > m THEN 0
        ELSE IF j = 1 THEN ino.i_block[x[0]]
        ELSE IF b[j - 1] = 0 THEN 0 ELSE dsk[b[j - 1]][x[j - 1]]
  IN  b

blk_iterator_init(ino, dsk, off) ==
  LET x == path_of[BlockOfOffset(off)].index
      m == path_of[BlockOfOffset(off)].mode
      b == blks_on_path(ino, dsk, x, m)
  IN  [offset |-> off, mode |-> m, index |-> x, blks_blk |-> b,
       leaf |-> IF m > 0 /\ b[m] # 0 THEN dsk[b[m]] ELSE ZeroBlock]

(* Deviation: the cached index block is kept when any level moves.          *)
M_SameLeaf(i, x, m) == TRUE

(* The two paths differ in their last index at most.                        *)
SameLeaf(i, x, m) == \A j \in 1 .. m - 1 : i.index[j] = x[j]

(* blk_iterator_next: reuses the cached index block while it can. *)
blk_iterator_next(i, ino, dsk, off) ==
  LET x == path_of[BlockOfOffset(off)].index
      m == path_of[BlockOfOffset(off)].mode
  IN  IF x = i.index THEN [i EXCEPT !.offset = off]
      ELSE IF m # i.mode THEN blk_iterator_init(ino, dsk, off)
      ELSE IF m = 0
      THEN [i EXCEPT !.offset = off, !.index = x, !.blks_blk[0] = ino.i_block[x[0]]]
      ELSE IF SameLeaf(i, x, m) THEN [i EXCEPT !.offset = off, !.index[m] = x[m]]
      ELSE blk_iterator_init(ino, dsk, off)

(* The call at the head of both loops. *)
MoveTo(off) == IF off # it.offset THEN blk_iterator_next(it, inode, disk, off) ELSE it

blk_iterator_get_blk_index(i) ==
  IF i.blks_blk[i.mode] = 0 THEN 0
  ELSE IF i.mode = 0 THEN i.blks_blk[0] ELSE i.leaf[i.index[i.mode]]

(* The blocks deallocate_data_blocks frees for one entry: those below an    *)
(* index block before the index block itself.                               *)
InOrder(blk, Below(_)) ==
  LET below[i \in 0 .. Links] ==
        IF i = 0 THEN <<>> ELSE below[i - 1] \o Below(disk[blk][i - 1])
  IN  below[Links]

Level0(blk) == IF blk = 0 THEN <<>> ELSE <<blk>>
Level1(blk) == IF blk = 0 THEN <<>> ELSE InOrder(blk, Level0) \o <<blk>>
Level2(blk) == IF blk = 0 THEN <<>> ELSE InOrder(blk, Level1) \o <<blk>>
Level3(blk) == IF blk = 0 THEN <<>> ELSE InOrder(blk, Level2) \o <<blk>>

BlocksOf(ino) ==
  LET direct[i \in 0 .. Direct] ==
        IF i = 0 THEN <<>> ELSE direct[i - 1] \o Level0(ino.i_block[i - 1])
  IN  direct[Direct] \o Level1(ino.i_block[SI_INDEX])
        \o Level2(ino.i_block[DI_INDEX]) \o Level3(ino.i_block[TI_INDEX])

-----------------------------------------------------------------------------
(* An empty file on an empty volume. *)
Init ==
  /\ disk = [b \in Blk |-> ZeroBlock] /\ used = {} /\ dfree = NumBlocks
  /\ dinode = EmptyInode /\ free = NumBlocks /\ inode = EmptyInode
  /\ it = blk_iterator_init(EmptyInode, disk, 0)
  /\ pc = "rest" /\ req = NoRequest /\ pos = NoPos /\ ch = NoChain
  /\ todo = <<>> /\ rd = NoRead
  /\ late \in BOOLEAN
  /\ starved = FALSE /\ halved = FALSE /\ crashes = 0 /\ ops = 0

(* read_inode_ext2 on a new handle: every command opens its file anew. *)
Open ==
  /\ pc = "rest"
  /\ inode' = dinode
  /\ it' = blk_iterator_init(dinode, disk, 0)
  /\ UNCHANGED <<dev, free, pc, locs, bnd>>

WriteStart(r) ==
  /\ pc = "rest" /\ ops < MaxOps
  /\ ops' = ops + 1
  /\ req' = r /\ pos' = [off |-> r.off, count |-> r.len]
  /\ it' = MoveTo(r.off)
  /\ pc' = "write" /\ rd' = NoRead
  /\ UNCHANGED <<dev, free, inode, ch, todo, late, starved, halved, crashes>>

(* Deviations: the end of the request inside the block is not looked at;    *)
(* the block is taken to end one word early.                                *)
M_Chunk == Links - (pos.off % Links)
M_Chunk_short == Smaller(Links - 1 - (pos.off % Links), pos.count)

(* Words of the block at hand that belong to the request. *)
Chunk == Smaller(Links - (pos.off % Links), pos.count)
Current == blk_iterator_get_blk_index(it)

(* A pass of the loop whose block exists. *)
WriteBlock ==
  /\ pc = "write" /\ pos.count > 0 /\ Current # 0
  /\ LET at == pos.off % Links
         d  == [disk EXCEPT ![Current] =
                  [i \in 0 .. Links - 1 |->
                     IF i \in at .. at + Chunk - 1 THEN req.val ELSE @[i]]]
     IN  /\ disk' = d
         /\ it' = blk_iterator_next(it, inode, d, pos.off + Chunk)
  /\ pos' = [off |-> pos.off + Chunk, count |-> pos.count - Chunk]
  /\ UNCHANGED <<used, dfree, dinode, free, inode, pc, req, ch, todo, rd, bnd>>

(* The gate of allocate_new_data_block; its caller stops in ASSERT(blk_num  *)
(* != 0).                                                                   *)
WriteNoSpace ==
  /\ pc = "write" /\ pos.count > 0 /\ Current = 0 /\ free = 0
  /\ pc' = "no_block"
  /\ UNCHANGED <<dev, mem, locs, bnd>>

(* Deviation: the bitmap is not written back.                               *)
M_Allocated(b) ==
  /\ b \in Blk \ used /\ \A c \in Blk \ used : b <= c
  /\ UNCHANGED <<used, starved>>

(* allocate_block: marks and zeroes the first free block. *)
Allocated(b) ==
  /\ b \in Blk \ used /\ \A c \in Blk \ used : b <= c
  /\ used' = used \cup {b}
  /\ UNCHANGED starved

(* allocate_block fails: -1, which no caller looks at. *)
NotAllocated ==
  /\ used = Blk
  /\ starved' = TRUE
  /\ UNCHANGED used

(* The first call: new_blk is the data block.  When it fails new_blk is 0   *)
(* (line 984) or the uninitialized variable of line 1006.                   *)
AllocData ==
  /\ pc = "write" /\ pos.count > 0 /\ Current = 0 /\ free # 0
  /\ \E b \in Word :
        /\ \/ Allocated(b) /\ disk' = [disk EXCEPT ![b] = ZeroBlock]
           \/ NotAllocated /\ (it.mode = 0 => b = 0) /\ UNCHANGED disk
        /\ ch' = [child |-> b, first |-> b, n |-> 1, j |-> it.mode]
  /\ pc' = "chain"
  /\ UNCHANGED <<dfree, dinode, mem, req, pos, todo, rd, late, halved, crashes, ops>>

(* An index block that is missing on the path: allocated, then written with *)
(* its one entry.  After a failed call new_blk still is the block below,    *)
(* which is overwritten with an entry for itself.                           *)
ChainIndex ==
  /\ pc = "chain" /\ ch.j > 0 /\ it.blks_blk[ch.j] = 0
  /\ \E b \in Word :
        /\ Allocated(b) \/ (NotAllocated /\ b = ch.child)
        /\ disk' = [k \in Blk |-> IF k = b
                                  THEN [ZeroBlock EXCEPT ![it.index[ch.j]] = ch.child]
                                  ELSE disk[k]]
        /\ ch' = [ch EXCEPT !.child = b, !.n = @ + 1, !.j = @ - 1]
  /\ UNCHANGED <<dfree, dinode, mem, pc, req, pos, todo, rd, late, halved, crashes, ops>>

(* The new blocks are hung into the deepest index block that exists ...     *)
LinkIndex ==
  /\ pc = "chain" /\ ch.j > 0 /\ it.blks_blk[ch.j] # 0
  /\ disk' = [disk EXCEPT ![it.blks_blk[ch.j]][it.index[ch.j]] = ch.child]
  /\ pc' = "commit"
  /\ UNCHANGED <<used, dfree, dinode, mem, locs, bnd>>

(* ... or into the inode in memory. *)
LinkInode ==
  /\ pc = "chain" /\ ch.j = 0
  /\ inode' = [inode EXCEPT !.i_block[it.index[0]] = ch.child]
  /\ pc' = "commit"
  /\ UNCHANGED <<dev, free, it, locs, bnd>>

(* Deviation: the iterator keeps the path it had before the growth.         *)
M_Refreshed == it

(* blk_iterator_init(it, filp, loffset). *)
Refreshed == blk_iterator_init(inode, disk, it.offset)

(* The iterator is set up again, ASSERTed to find the new block, and the    *)
(* inode is written with its new size and block count.                      *)
Commit ==
  /\ pc = "commit"
  /\ it' = Refreshed
  /\ IF blk_iterator_get_blk_index(it') = ch.first
     THEN /\ inode' = [inode EXCEPT !.i_size = Larger(@, it.offset + Chunk),
                                    !.i_blocks = @ + ch.n]
          /\ dinode' = inode'
          /\ pc' = "super"
     ELSE pc' = "wrong_block" /\ UNCHANGED <<inode, dinode>>
  /\ UNCHANGED <<disk, used, dfree, free, locs, bnd>>

(* Deviation: the index blocks are not charged.                             *)
M_Charged(n) == Sub32(free, 1)

Charged(n) == Sub32(free, n)

(* The superblock is written, and write_file_ext2 goes on with the block.   *)
CommitSuper ==
  /\ pc = "super"
  /\ free' = Charged(ch.n)
  /\ dfree' = free'
  /\ pc' = IF Current = 0 THEN "no_block" ELSE "write"
  /\ ch' = NoChain
  /\ UNCHANGED <<disk, used, dinode, inode, it, req, pos, todo, rd, bnd>>

(* Deviation: the size is not brought up to the end of the request.         *)
M_EndSize == inode.i_size

EndSize == Larger(inode.i_size, it.offset)

(* The end of write_file_ext2. *)
WriteEnd ==
  /\ pc = "write" /\ pos.count = 0
  /\ inode' = [inode EXCEPT !.i_size = EndSize]
  /\ dinode' = inode'
  /\ dfree' = free
  /\ pc' = "rest" /\ req' = NoRequest /\ pos' = NoPos
  /\ UNCHANGED <<disk, used, free, it, ch, todo, rd, bnd>>

-----------------------------------------------------------------------------
(* read_file_ext2: the request is cut to the size of the file. *)
ReadStart(r) ==
  /\ pc = "rest" /\ ops < MaxOps
  /\ ops' = ops + 1
  /\ LET off == Smaller(r.off, inode.i_size)
     IN  /\ pos' = [off |-> off, count |-> Smaller(r.len, inode.i_size - off)]
         /\ it' = MoveTo(off)
  /\ pc' = "read" /\ rd' = NoRead
  /\ UNCHANGED <<dev, free, inode, req, ch, todo, late, starved, halved, crashes>>

(* A pass of its loop; a missing block reads as zeros. *)
ReadBlock ==
  /\ pc = "read" /\ pos.count > 0
  /\ LET at == pos.off % Links
     IN  rd' = [off |-> pos.off,
                words |-> [i \in 1 .. Chunk |->
                             IF Current = 0 THEN 0 ELSE disk[Current][at + i - 1]]]
  /\ it' = blk_iterator_next(it, inode, disk, pos.off + Chunk)
  /\ pos' = [off |-> pos.off + Chunk, count |-> pos.count - Chunk]
  /\ UNCHANGED <<dev, free, inode, pc, req, ch, todo, bnd>>

(* The access time is set and the inode of the handle written back. *)
ReadEnd ==
  /\ pc = "read" /\ pos.count = 0
  /\ dinode' = inode
  /\ pc' = "rest" /\ pos' = NoPos
  /\ UNCHANGED <<disk, used, dfree, mem, req, ch, todo, rd, bnd>>

-----------------------------------------------------------------------------
(* unlink_file_ext2 drops the last link: the inode is read into a handle of *)
(* its own and remove_file_ext2 called.  The name is hidden before, but that*)
(* of an entry that is the first of its block is wiped only afterwards.     *)
RemoveStart ==
  /\ pc = "rest" /\ ops < MaxOps
  /\ ops' = ops + 1
  /\ inode' = dinode
  /\ it' = blk_iterator_init(dinode, disk, 0)
  /\ todo' = BlocksOf(dinode)
  /\ pc' = "remove" /\ rd' = NoRead
  /\ UNCHANGED <<dev, free, req, pos, ch, late, starved, halved, crashes>>

(* deallocate_block, with its ASSERT(test_bit(...)). *)
RemoveBlock ==
  /\ pc = "remove" /\ todo # <<>>
  /\ IF Head(todo) \in used
     THEN /\ used' = used \ {Head(todo)}
          /\ free' = IF free = U32 - 1 THEN 0 ELSE free + 1
          /\ dfree' = free'
          /\ todo' = Tail(todo)
          /\ UNCHANGED pc
     ELSE pc' = "not_used" /\ UNCHANGED <<used, free, dfree, todo>>
  /\ UNCHANGED <<disk, dinode, inode, it, req, pos, ch, rd, bnd>>

(* The inode is zeroed.  A file created in it later starts empty again, and *)
(* has its entry anywhere.                                                  *)
RemoveEnd ==
  /\ pc = "remove" /\ todo = <<>>
  /\ inode' = EmptyInode /\ dinode' = EmptyInode
  /\ it' = blk_iterator_init(EmptyInode, disk, 0)
  /\ late' \in BOOLEAN
  /\ pc' = "rest"
  /\ UNCHANGED <<disk, used, dfree, free, locs, starved, halved, crashes, ops>>

-----------------------------------------------------------------------------
Removal == pc \in {"remove", "not_used"}

(* A block of the file being removed has been freed.                        *)
Begun == Len(todo) < Len(BlocksOf(dinode))

(* Killed and started again, and the file opened again, if it has its name  *)
(* still.  A file killed in its removal has it only if that is wiped last;  *)
(* its inode then lists all its blocks, those already freed too ("halved"), *)
(* and whatever the program does to it goes on from there.                  *)
Crash ==
  /\ pc \notin {"rest", "orphan"} /\ crashes < MaxCrashes
  /\ crashes' = crashes + 1
  /\ free' = dfree /\ inode' = dinode
  /\ it' = blk_iterator_init(dinode, disk, 0)
  /\ pc' = IF Removal /\ ~late THEN "orphan" ELSE "rest"
  /\ halved' = (halved \/ (Removal /\ late /\ Begun))
  /\ req' = NoRequest /\ pos' = NoPos /\ ch' = NoChain /\ todo' = <<>> /\ rd' = NoRead
  /\ UNCHANGED <<dev, late, starved, ops>>

(* A failed ASSERT spins; the orphan and the bound on requests end a run.   *)
Stopped ==
  /\ pc \in {"no_block", "wrong_block", "not_used", "orphan"}
  /\ UNCHANGED vars

Step == \/ WriteBlock \/ WriteNoSpace \/ AllocData \/ ChainIndex \/ LinkIndex
        \/ LinkInode \/ Commit \/ CommitSuper \/ WriteEnd
        \/ ReadBlock \/ ReadEnd \/ RemoveBlock \/ RemoveEnd

Next == \/ Open
        \/ \E r \in Writes : WriteStart(r)
        \/ \E r \in Reads : ReadStart(r)
        \/ RemoveStart
        \/ Step \/ Crash \/ Stopped

Spec     == Init /\ [][Next]_vars
FairSpec == Spec /\ WF_vars(Step)

-----------------------------------------------------------------------------
TypeOK ==
  /\ disk \in [Blk -> [0 .. Links - 1 -> Word]]
  /\ used \subseteq Blk
  /\ dfree \in 0 .. U32 - 1 /\ free \in 0 .. U32 - 1
  /\ \A n \in {inode, dinode} : /\ n.i_size \in 0 .. MaxWords
                                /\ n.i_blocks \in Nat
                                /\ n.i_block \in [0 .. TI_INDEX -> Word]
  /\ it.offset \in 0 .. MaxWords /\ it.mode \in 0 .. 3
  /\ pc \in {"rest", "write", "chain", "commit", "super", "read", "remove",
             "no_block", "wrong_block", "not_used", "orphan"}
  /\ pos.count \in 0 .. MaxWords
  /\ todo \in Seq(Word)
  /\ late \in BOOLEAN /\ starved \in BOOLEAN /\ halved \in BOOLEAN
  /\ crashes \in 0 .. MaxCrashes /\ ops \in 0 .. MaxOps

(* The block of an offset, found by walking down from the inode.            *)
Lookup(ino, off) ==
  LET x == path_of[BlockOfOffset(off)].index
      m == path_of[BlockOfOffset(off)].mode
      b == blks_on_path(ino, disk, x, m)
  IN  IF b[m] = 0 THEN 0 ELSE IF m = 0 THEN b[0] ELSE disk[b[m]][x[m]]

WordAt(off) ==
  LET b == Lookup(dinode, off) IN IF b = 0 THEN 0 ELSE disk[b][off % Links]

Elements(s) == {s[i] : i \in DOMAIN s}

(* What ends the promises about a file: an allocation that failed unnoticed,*)
(* or a removal cut short by a kill that left the file its name.            *)
damaged == starved \/ halved

(* The tree on the disk is a tree at every moment a crash may choose: each  *)
(* of its blocks hangs in one place and is marked in the bitmap.  Not so    *)
(* inside a removal once it has freed a block, and for a file that a kill   *)
(* in there leaves behind with its name.  Between requests of a run without *)
(* a crash nothing is lost and every count is right: bitmap,                *)
(* s_free_blocks_count, i_blocks.                                           *)
TreeSound ==
  LET s == BlocksOf(dinode)
  IN  /\ ~damaged /\ pc # "orphan" /\ ~(Removal /\ Begun) =>
            Cardinality(Elements(s)) = Len(s) /\ Elements(s) \subseteq used
      /\ pc = "rest" /\ crashes = 0 /\ ~damaged =>
            /\ used = Elements(s)
            /\ free = NumBlocks - Cardinality(used) /\ dfree = free
            /\ dinode.i_blocks = Len(s)

(* The iterator of the handle finds the block a walk from the inode finds:  *)
(* its cached index block is never stale when it is used.  So what          *)
(* read_file_ext2 delivers is what the file holds.                          *)
IteratorCoherent ==
  ~damaged =>
    /\ pc \in {"rest", "write", "read"} => Current = Lookup(inode, it.offset)
    /\ \A i \in DOMAIN rd.words : rd.words[i] = WordAt(rd.off + i - 1)

(* The file as its users see it, and the requests they make of it.          *)
Content == [o \in 0 .. MaxWords - 1 |-> WordAt(o)]

Abstract == INSTANCE SparseFile WITH
  Words <- Word, Limit <- MaxWords, Requests <- Writes,
  content <- Content, size <- dinode.i_size, req <- req, aborts <- crashes, damaged <- damaged

(* Growing the tree, moving the iterator and writing inode and superblock   *)
(* implement writes to a sparse array: among others, a file that is extended*)
(* behind its end shows zeros in between.  The file is damaged only in a    *)
(* write whose allocation fails, or by a kill in its removal.               *)
ImplementsSparseFile == Abstract!Spec

(* A chain of allocations fails in the middle only when it needs more       *)
(* blocks than s_free_blocks_count promised: the gate of                    *)
(* allocate_new_data_block asks for one block, not for the chain.           *)
FailsOnlyWhenShort ==
  [][~starved /\ starved' /\ crashes = 0 => free < ch'.n]_vars

(* The ASSERTs of the write and remove paths fail only on a volume that is  *)
(* full, or on a damaged file: removing one that a kill in its removal has  *)
(* left behind is the second way into the ASSERT of deallocate_block.       *)
FailedAssertsExplained ==
  /\ pc \in {"wrong_block", "not_used"} => damaged
  /\ pc = "no_block" => damaged \/ free = 0

(* A request ends, at rest or in an ASSERT.                                 *)
RequestEnds == pc # "rest" ~> pc \in {"rest", "no_block", "wrong_block", "not_used", "orphan"}

(* ASSERT(blk_num != 0) of write_file_ext2 (line 1554) holds.               *)
AssertBlockFound == pc # "no_block"

(* ASSERT(test_bit(bit_akt, blk_bitmap)) of deallocate_block (line 1267)    *)
(* holds.                                                                   *)
AssertBitSet == pc # "not_used"
=============================================================================
