# Verification of the ext2 tool

TLA+ specifications of the user-space ext2 implementation in this repository
(`src/fs/ext2.c`, with the device layer in `src/fs/vfs.c` and
`src/fs/gendrivers.c`), TLC configurations that model-check them on small
volumes, and TLAPS proofs for volumes of every size.

The program is a shell (`cat`, `cp`, `mkdir`, `rmdir`, `rm`, `cd` and commands for display)
over one volume in an image file.  It is sequential.  What makes it hard to
test is that an operation is a series of device writes without a journal, that
failures are mostly ignored by their callers, that data is cached in handles
and iterators while the device changes under them, and that nearly everything
is unsigned arithmetic near its limits.

## 1. Inventory

| Component | Code | State | Operations |
|---|---|---|---|
| Block-group geometry | `ext2.c` 40-90 | none | block number <-> group and bit, the range of bits that is scanned |
| Block allocator | `ext2.c` 855-1073, 1225-1288 | block bitmaps, `bg_free_blocks_count` of each group (device), `s_free_blocks_count` (device and `*gsb_ext2`) | `allocate_block`, `allocate_new_data_block`, `deallocate_block` |
| Indirect paths | `ext2.c` 474-627 | none | `get_indirect_blocks`, `test_get_indirect_blocks` |
| Files and block iterator | `ext2.c` 674-853, 1290-1349, 1405-1599 | tree of index and data blocks, inode (device); handle: inode copy, iterator with a cached index block | `read_file_ext2`, `write_file_ext2`, `remove_file_ext2`, `blk_iterator_init/next` |
| Inode allocator | `ext2.c` 1076-1223, 1351-1403, 2158-2214 | inode bitmaps, `bg_free_inodes_count`, `bg_used_dirs_count`, `s_free_inodes_count` | `allocate_new_inode`, `deallocate_inode`, directory counts of `delete_directory_ext2` |
| Directories | `ext2.c` 1602-1727, 1842-2011, 2065-2156 | entries (`inode`, `rec_len`, `name_len`) tiling the blocks of a file | create an entry, look up, look for the last, unlink |
| Name space and commands | `ext2.c` 1732-1836, 2016-2062, 2158-2214; `vfs.c` 588-1042 | tree of directories, link counts, handles, `file_pwd`, a handle that outlives commands | `parse_path_ext2`, `execute_*` |
| Block device | `vfs.c` 39-269, `gendrivers.c` 46-147 | the image, `f_pos` | byte reads and writes over 512-byte sectors |
| Command line | `klib.c` `parse_buf` | none | split a line into words |
| Lists | `lists.h`, tested by `lists.c` | `next`, `prev`, the holder | insert at five places, delete; not used by the rest |

How they interact: all calls go down.  A command resolves a path
(name space -> directories -> files), creates or removes an entry
(directories -> files), and through `write_file_ext2` grows a tree
(files -> block allocator) or through `unlink_file_ext2` frees an inode and its
blocks (-> inode allocator, block allocator).  Everything ends in
`read_from_dev`/`write_to_dev`.  Shared state: the superblock in memory
`*gsb_ext2`, to which every handle points; everything else is read from the
device by each operation, except what a handle (`file_ext2_t`) has cached: the
inode, the descriptor of its group, two iterators.

Behaviours that are hard:

* *Crashes.*  The process may be killed between two device writes.  Nothing
  repairs a volume afterwards.
* *Ignored failures.*  `allocate_block`'s result is looked at nowhere;
  `allocate_new_data_block`'s, `create_file_ext2`'s in `cp` and
  `parse_path_ext2`'s in four commands neither.
* *Stale copies.*  The iterator's index block, the inode and the descriptor in
  a handle, `file_pwd`.  Every read and write of a file writes the inode of its
  handle back.
* *Boundaries.*  First data block 0 or 1, the short last group, the last block
  of the volume, unsigned wrap of the counts.
* *Termination.*  `ASSERT` prints and spins; the searches go round all groups;
  a `rec_len` of 0 makes a directory endless.

What makes each component correct is stated in section 3; the complete list of
hazards, each at its line, is in `PROJECT.json`.

## 2. Modules

| Module | Models | Checked by | Proofs |
|---|---|---|---|
| `UInt32` | subtraction of `uint32_t` | - | - |
| `Ext2Geometry` (extends `UInt32`) | block-group arithmetic, operators only | `MCFunctions`, `MCInMemory` | `FunctionsProofs` |
| `Ext2BlockAlloc` (extends `Ext2Geometry`) | block allocator, device write by device write | `MCBlockAlloc` | `Ext2BlockAllocProofs` |
| `Ext2Indirect` | `get_indirect_blocks`, operators only | `MCFunctions`, `MCInMemory` | `FunctionsProofs` |
| `SparseFile` | what a file promises: a sparse array of words | - | `Ext2FileProofs` |
| `Ext2File` (extends `Ext2Indirect`, `UInt32`) | one file, its tree, its iterator | `MCFile` | `Ext2FileProofs` |
| `Ext2InodeAlloc` (extends `UInt32`) | inode allocator and directory counts | `MCInodeAlloc` | `Ext2InodeAllocProofs` |
| `DirNames` | what a directory promises: a set of names | - | `Ext2DirProofs` |
| `Ext2Dir` | one directory, its entries unit by unit | `MCDir` | `Ext2DirProofs` |
| `Ext2Namespace` | the tree of directories, link counts, handles, the commands | itself | `Ext2NamespaceProofs` |
| `ParseBuf` | `parse_buf`, operators only | `MCFunctions`, `MCInMemory` | `FunctionsProofs` |
| `Lists` | the macros of `lists.h` | `MCInMemory` | `ListsProofs` |
| `FlatDevice` | what a device file promises: an array of bytes | - | `BlockDeviceProofs` |
| `BlockDevice` | `/dev/ide` and `/dev/ide1` over the sectors of one image | `MCBlockDevice` | `BlockDeviceProofs` |

**Steps.**  An action of the state machines is one device write with the reads
and the computation before it, or one pass of a loop.  `pc` names what is about
to happen, `op` (or `req`, `pos`, `ch`) holds the locals.  `Crash` may come
between any two steps: memory is lost, the superblock is read from the device
again as `init_superblock_ext2` does.  Ghost variables (marked in the modules)
only record.

**Ext2Geometry.**  Values are `uint32_t`, with `Sub32` for the subtractions
that may wrap; additions and products cannot under `SuperblockOK`.  The
constant `U32` is 2^32 in the program and small in the runs.

**Ext2BlockAlloc.**  `bmap`, `bgd`, `dsb` are on the device, `sb` is the copy in memory.
`GrowStart` is `allocate_new_data_block` up to its gate, then each `allocate_block` is `ScanNext`*
and `ScanHit` (bitmap) `AllocBgd` (descriptor), then `GrowLink` (the write that makes the chain
reachable), `GrowSuper`.  A chain has 1 to `MaxChain` blocks; which of them are index blocks is
`Ext2File`'s subject.  A removal is that of a whole file: `RemoveStart`, then `FreeBlock` `FreeBgd`
`FreeSuper` for each block, in any order, and `RemoveEnd`, the write of the inode; until then the
inode on the device lists all its blocks.  `late` says that the file's entry is the first of a block
and is wiped only after that.  `held` (ghost) are the blocks that inodes list, of files that are
whole.  A kill in a removal leaves a file that is whole (nothing freed, the name still there), one
half removed (in `halves`: some blocks freed, the name still there), or no file, and what was not
freed yet is in `stranded`.  `RemoveAgain` and `GrowHalf` are what the program does to a half
removed file; it runs into an assertion or works on blocks that may be another's, and the volume is
followed no further.  `ScanFail` is the failure the callers ignore: the call is followed to its end
with the value `new_blk` then has, any value where the code reads an uninitialized variable (the
inner `new_blk` of line 1006); the volume is then corrupt and is followed no further (`lost`).

**Ext2Indirect** has the block size and the number of direct entries as
constants.  `mode_of` and `index_of` are the results of the two loops.

**Ext2File.**  The unit is the 4-byte word, so index and data blocks have the same form.  The
allocator is used at its interface: the first free block, zeroed, or a failure that leaves
everything alone.  `it` is the iterator with its cached index block `leaf`; `blk_iterator_next`
keeps it under the same conditions as the code.  The growth of the tree is `AllocData`,
`ChainIndex`*, `LinkIndex` or `LinkInode`, `Commit` (inode), `CommitSuper`.  The three assertions of
the write and remove paths are the states `no_block`, `wrong_block` and `not_used`.  A file killed
in its removal is opened again if it still has its name (`late`), with a tree of blocks some of
which are not marked (`halved`), and is read, written and removed like any other; without a name it
is an `orphan`.  `SparseFile` is implemented with the refinement mapping `content <- the words found
by walking the tree on the device`, `size <- i_size on the device`, `damaged <- damaged`: nothing is
promised for a file once an allocation has failed unnoticed or it was half removed.

**Ext2InodeAlloc.**  `imap`, `bgd`, `dsb`, `named` on the device, `sb` in memory.
A creation is `ScanNext`* `ScanHit` `AllocBgd` `AllocSuper` and `NameEntry`, or
`NameFails` where the code loses the inode.  A removal is `RemoveStart` (the entry is
hidden by the one before it, unless it is the first of its block), `FreeBitmap`,
`FreeBgd`, `FreeSuper`, `WipeEntry`, `UncountDir`.  The handle's descriptor that
`delete_directory_ext2` writes back is `op.pbgd`.

**Ext2Dir.**  The unit is four bytes, to which entries are aligned.  `mem` and
`size` are on the device; `walk` has the locals of a loop over the entries, `op` those
of the operation, `plan` the calls that `create_directory_ext2` or
`delete_directory_ext2` still makes.  `Visit` is one pass of any of the three
loops, with `readdir_ext2` in it (`NamesRead` is what the name buffer then holds).
A creation is a walk, then `TakeNull`, `Split` or `AppendEntry` (the entry before is cut),
`WriteHeader`, `WriteName`, `Created`; a removal a walk, then `Lengthen`,
`Wipe` or `NullHeader` and `NullName`.  Every `write_file_ext2` is two steps, the block
and the inode (`SetSize`), and three when the directory grows (`Grow`).  Two ghosts: `live`,
the offsets of the entries, changes when the header of an entry is written and
when its room is given to another; `torn` says that the directory has been
damaged, by a crash in one of the windows of `InWindow` or by removing its first
entry, as `rmdir` does.  `DirNames` is implemented with `entries <- Entries`
(what is read at the offsets in `live`) and `damaged <- torn`.

**Ext2Namespace** composes directories, inode allocation and the commands.  A
directory is a set of entries (what `DirNames` promises) until it is `torn`; inode
allocation is the first clear bit, as in one block group.  A command is a list
of parts (`op.todo`): `Link` is `create_dir_entry_ext2`, `Unlink` is
`unlink_file_ext2`, `Reread` a `read_inode_ext2`; each part is one step per
device write.  `hdl` are the command's handles with the link count they have
read; `WriteEntry`, `Hide` and `WipeEntry` write it back with the entries, as
`read_file_ext2` and `write_file_ext2` write the inode of the handle.  `copy` is the rest of the
inode in the handles of `mkdir` and `cp`, which write it back whole (`Put`).  `pwd` is a number:
the inode is read again before each command, and the command goes on with whatever it finds, the
zeroed inode of a removed directory included.  A name is written into it all the same; `astray`
(ghost) counts how often, and that inode may be the one the same command allocates.  Removal of a
name has two forms, told by `late`: hidden first, or (the first entry of a block)
wiped last.  `Restart` is the death of the program on a path it cannot resolve, or
`quit`; in both cases it begins again in the root.

**ParseBuf** follows the characters of a line with three recursive functions, one for each loop;
that `argc_local` is 0 in the first pass alone is told by the position. The reference, `IsWord`,
is the longest runs of characters that are no delimiters; `SplitsWords` compares the pointers
and the strings that they point to.

**Lists.**  Each macro is an action whose primed pointers are what its
assignments leave, in their order.  Pointers of elements outside of the list stay as
they were.  `list` (ghost) is the sequence the list should be.

**BlockDevice.**  One request at a time, as in the program: `Start` is
`llseek` and the allocation of the buffer, `ReadBlk` and `WriteBlk` one pass of
the loops of `ddriv_read_blk` and `ddriv_write_blk` with the driver's
`readblk_ide` and `writeblk_ide` in it, `ReadRefused` and `WriteRefused` their
`goto ende`.  `lseek` computes the position with the `uint32_t` wrap and the sign an
`int` gives it.  What `malloc` leaves in the buffer is the value `Junk`, which is
equal to nothing.  The other modules use the device as what `FlatDevice` says it is.

Definitions named `M_...` are deviations: each stands before the definition it
replaces and is what a plausible mistake in that code would be.  They are used
by nothing; putting one in place of its original breaks the property named in
`PROJECT.json`, which shows that the property depends on that code.

## 3. Runs

| Run | Instance | What it shows |
|---|---|---|
| `in_memory` | all volumes up to 14 blocks, groups of 3 to 5 blocks, both first data blocks, every position of the inode table; the real 12 direct entries, 5 links per block; all lines of up to 8 characters; lists of up to 5 elements | `BitsMatchBlocks`: freeing undoes allocating, every data block can be found.  `ScanBounded`: the scan leaves the volume by one bit at most, only with first data block 1, and skips the group counted too many.  `PathSound`: every block of a file has a place of its own, the first index tells the mode.  `WordsSplit`: `parse_buf` finds all words, and only words.  `Linked`: the pointers form the ring that `list` says |
| `block_alloc` | 3 groups (the last one block short), chains up to 3, 1 crash, every set of blocks in use at the start | `BitmapSound`, `FreshBlock`: no block of a file is free or handed out, but those of a file whose removal a kill cut short.  `DriftBounded`: all counts agree at rest, but for what each crash costs at most.  `HaltsExplained`: the two ways into an assertion.  `FailsOnlyWhenFull`, `ScanEnds`: the search visits every group from any start, and ends |
| `file` | 1 direct entry, 2 links per block (all four modes within 15 blocks), 22 blocks, 4 requests, 1 crash | `TreeSound`: no block is in two places, every block of the tree is charged, none is lost without a crash.  `IteratorCoherent`: the cached index block is the one on the device, and reads return the content.  The refinement `ImplementsSparseFile`.  All until the file is damaged |
| `file_full` | the same with 4 blocks, 3 requests | when allocations fail: `FailsOnlyWhenShort`, `FailedAssertsExplained`, `RequestEnds` |
| `inode_alloc` | 2 groups of 3 inodes, 1 crash | `NamedMarked`, `FreshInode`: no named inode is handed out, but one whose entry is wiped late.  `InodeDrift`: inode and directory counts, exact but for crashes.  `FailsOnlyWhenFull`, `OperationEnds` |
| `dir` | 2 blocks of 9 units, two names for new entries, one longer, 3 inodes to be named, 1 crash | `Tiling`: at every moment outside of the windows the entries fill their blocks and none crosses a border.  `ImplementsNames`: splitting, appending and merging entries adds and removes exactly the name asked for.  `SlackClear`: nothing of a removed name stays.  `RmdirExact`: which directories `rmdir` takes.  `OperationEnds`: no walk over an intact directory goes on for ever |
| `namespace` | 4 inodes, 1 name besides the dots, 1 crash or one name written into a free inode, commands without bound | Until a name is to be written into a free inode: `LinksSound`: without crashes link counts are the number of names, and no name stands for a free inode.  `LinkDrift`: a crash puts the counts wrong by one in all, and by the entries that were lost with a directory that was freed too early.  `TreeShape`: the directories are a tree, in the presence of `rm` of directories.  `HaltsExplained`: the assertion of `deallocate_inode` fails only after a mishap |
| `device` | sectors of 3 bytes, one before the volume, 8 sectors below `INT_MAX`; requests that begin and end at and off sector bounds, and across the end of `/dev/ide`, `INT_MAX` and the wrap of the position | `ImplementsFlat`: writes through either file, killed anywhere, are writes to one array of bytes, and store what is not refused; `Partitioned`: neither file writes into the other's part; `ReadsImage` |
| `file_assert_block`, `file_assert_bit`, `device_lost`, `namespace_astray` | 4 blocks; as `device`, one write; as `namespace` | *violated*: see below |

**Four assertions of the code and its tests do not hold.**

* `ASSERT(blk_num != 0)` in `write_file_ext2` (line 1554): a write that needs a
  block on a full volume fails in `allocate_new_data_block`, which the caller
  does not notice; the program then spins.
* `ASSERT(test_bit(...))` in `deallocate_block` (line 1267): the gate of
  `allocate_new_data_block` asks for one free block while a chain needs up to
  four.  When the blocks run out inside the chain, `new_blk` keeps its value
  and the last block taken becomes its own index block.  Removing the file
  frees it twice.
* The test of the device files asserts that it reads back what it wrote.  A
  sector that `writeblk_ide` refuses (beyond sector 4095 of `/dev/ide`, beyond 2 GB
  of either) counts as written, because `ddriv_write_blk` tests an unsigned
  number for being negative.  The test itself stays below that sector.
* `ASSERT(test_bit(...))` in `deallocate_inode` (line 1377), without a crash.  `main` reads
  `file_pwd` by its number, whatever has become of the inode.  After `cd x` and `rmdir ../x`
  `mkdir y` writes the entry into the free inode of the removed directory and, through `..` of the
  new one, a link count of 1.  `rmdir y` takes that last link and frees an inode that is not marked
  (`LastLinkMarked`).

**What a kill in a removal leaves.**  `remove_file_ext2` frees all blocks before it writes the inode
that lists them, and the entry, if it is the first of its block, is wiped after that.  A kill in
between leaves a file with a name and free blocks.  They are handed out again; `rm` of that name
frees the first one once more, which is the other way into `ASSERT(test_bit(...))` of
`deallocate_block`, on a volume that is not full, or frees the block of its new owner.
`HaltsExplained` and `FailedAssertsExplained` name it as the one other reason.

**What holds and is easily thought not to.**  In an allocation the order bitmap, descriptor, block,
index blocks, inode makes a crash leak blocks and never share them (`BitmapSound`); in a removal the
same order is the wrong one.  The group that `num_block_groups` counts too many is harmless for
blocks, through an unsigned wrap.  `delete_directory_ext2` may write back the descriptor of its
handle because `unlink_file_ext2` has read it again. The directory counts are right in sum though
not per group (`DirsAccurate`).

**What a directory survives, and what not.** A crash damages a directory in three windows only:
between the cut of the entry before and the header of the new one (the walk then stops at a
`rec_len` of 0 for ever), between header and name of a new entry, and in `rmdir` once `.` is
wiped. `rmdir` asks for the offset of the last entry and nothing else: exact for an intact
directory that has its dots (`RmdirExact`, where "never had a second block" is part of the
condition: nothing shrinks a directory). The condition on the dots is needed: when `rmdir` is
killed between `..` and `.`, the next file takes the place of `..`, and the directory is removed
with the file in it.

**What a crash does to link counts.**  The entry comes before its count, so the count can be too low
by one.  The model checker finds what follows: with one such crash in `mkdir x`, a later `rmdir x/y`
may free `x` while it has a name, or `rm x` may free it with entries in it, which is what the term
`spilt` in `LinkDrift` counts.  After a kill while the blocks of a directory with a name are freed
two directories may come to share their entries; the run goes no further there (`CrashFreeing`).
Without crashes none of this happens (`LinksSound`), as long as the working directory is not a
removed one, although `rm` on a directory leaves it alive without a name (`dropped`) and `mkdir`
below a path that does not exist loses an inode (`leaked`); both are exempted by name in
`TreeShape`.

**Bounds.** A search is about its starting group, the groups behind it, the wrap-around and the
short last group: three groups have a start that wraps, one that does not and a group in the middle;
with one or two data blocks in each, a chain of three spans groups. Counts are given small widths
(`U16` 4 to 6, `U32` 6 to 256), so that the wraps a crash can lead to happen; in the two runs of
`Ext2File` it is so small that `s_free_blocks_count` wraps when blocks are freed that it never
counted as taken. The costs of several crashes add up (`DriftBounded`, proved for any number of
them); `block_alloc` has one. In `Ext2File`, with one direct entry and two links, four requests
reach a hole, an overwrite, an extension in every mode and removal followed by reuse of the blocks;
the width of a block only repeats the same steps. 22 blocks are enough for every tree the requests
build, so that no allocation fails in `file`; `file_full` is the opposite. The bounds on requests
and crashes are `MaxOps` and `MaxCrashes`, in the guards of the request actions and `Crash`; in
`Ext2Namespace` `MaxMishaps` bounds crashes and names written into free inodes together. In
`Ext2Dir` requests are not bounded. The first block has room for one short entry besides the dots,
so that a long one does not fit there and skips the rest of the block; the second has room for three
short or two long ones, so that a removed entry can be the first of a later block, one in the middle
and the last. `BeyondBound` stands for a third block. One crash is one damaged or half finished
operation; after a second one there is nothing new to promise. In `Ext2Namespace`, four inodes are a
directory in a directory in the root and one more; with one name, `mkdir x`, `mkdir x/x` and a file
`x` in either make every conflict of names, as no command asks whether a name is taken. `U16` is 16,
more than twice the number of names an inode can have there, so that a wrap below 0 is told from a
count.

**Fairness.**  `WF_vars(Step)`, and nothing about requests or crashes: once an
operation has begun, the process runs alone and nothing blocks it.  In `Ext2Dir`,
where `Step` has the loops of the walks, this is what makes a `rec_len` of 0 show.  Deadlock is
checked in every run; a failed `ASSERT` is an endless loop in the code and a
stuttering step here.

## 4. Proofs

All constants are arbitrary, under `LayoutAssumption` (the layout mke2fs writes:
data blocks exist, lie behind the inode table, and block 0 is none; counts fit
their width), `IndirectAssumption` (at least one direct entry, at least two links),
`InodeAssumption` (the root exists, counts fit their width), `DirAssumption`
(every name fits a block; a block has room for both dots, which in the program
need 24 of 1024 bytes; a name is made only for an inode that was allocated for it, so never for the
directory itself or its parent, but for the dots), `DeviceAssumption`
(the volume begins below `INT_MAX`, requests end below 4 GB), `FileAssumption` (the number of
blocks fits `s_free_blocks_count`, which can hold the four blocks of a chain; no request goes beyond
the largest file) and `LineAssumption` (lines are of finite length).

* `FunctionsProofs`: facts about every superblock and layout: freeing undoes allocating, the
  scan reaches every block and stays in its bitmap. And `PathInRange`, `PathDeterminesBlock`,
  `ModeFromIndex` for every block size; by cases on the mode, from lemmas about digits (`x = (x
  \div n) * n + x % n` with bounds). From these, the invariants `PathSound`, `BitsMatchBlocks`
  and `ScanBounded` that the `in_memory` run checks, for any bounds on the volumes. The converse
  is `EveryPlaceTaken`: each mode and each index in its range is the path of some block of the
  file. `EveryLineSplit` is `WordsSplit` for lines of every length: what the two inner loops
  find (`RunsToFirst`), where words begin and end between two passes of the outer one
  (`BeginsAndCloses`), and an induction over its passes from the last one back
  (`RightEverywhere`). And the arithmetic of counts that wrap, for the proofs below: `Near(a, b,
  w, k)` says that `a` and `b` differ by at most `k` modulo `w`, and `NearTogether` that they
  stay so when both change by the same.
* `Ext2BlockAllocProofs`: `TypeOK`, `BitmapSound` (its parts are `ReservedMarked` and `HeldMarked`),
  `HaltsExplained`, `FreshBlock`, `FailsOnlyWhenFull`. `HeldMarked` alone is not inductive: the
  blocks of a chain being built are marked but not yet held, freeing one block must not clear
  another's bit, and what is not freed yet of a file (`op.todo`) is part of what it lists. The
  inductive invariant adds that the blocks in `op.got` (and `op.new_blk` between bitmap and
  descriptor) are marked and not held, and uses the geometry theorems to show that different blocks
  have different bits. For `FailsOnlyWhenFull` a second invariant (`SeenFull` in the proof module)
  says that all groups between the goal group and the current one, going round, are full.
  `DriftBounded` speaks of rest; its invariant `Drift` compares the counts with the bitmaps plus
  what the operation in progress has taken and not yet counted (`Uncounted`), and calls a block
  leaked only once it is no part of the chain under construction (`Lost`) or of a file, whole, half
  removed or stranded. A crash in the middle then turns what is uncounted into drift, once.
* `Ext2FileProofs`: `TypeOK`, `IteratorCoherent`, `TreeSound`, `FailedAssertsExplained`,
  `FailsOnlyWhenShort` and the refinement `ImplementsSparseFile`; all but `TypeOK` speak of the time
  before an allocation fails (`starved`; the tree may be no tree after that) or a kill leaves a half
  removed file with its name (`halved`; its blocks may be free). A file whose removal was killed
  before the first block was freed is still whole, and the invariant says so. The tree is described
  by its paths, not by a walk over it: `Node(ino, dsk, b, j)` is what the path to block `b` finds at
  level `j`. The invariant (`Good`) says that one block is at one place only (`Apart`, from which
  `SamePath` gets one block of the file) and marked in the bitmap; that a chain under construction
  is no part of the tree (`Branch`), so that hanging it in changes nothing but its own path
  (`Graft`); and that the iterator is what `blk_iterator_init` would make of the same offset
  (`Iter`). The last is kept by `blk_iterator_next` (`NextIs`: what it reuses is the same on both
  paths) and by writes into data blocks, because those are no index blocks. Each step then is one of
  the sparse array, or leaves every word (`SameWords`). `TreeSound` counts the blocks that
  `BlocksOf` collects by recursion; `CollectsAll` shows that in a sound tree these are the nodes of
  all paths (`NodesOf`), each once: by `EveryPlaceTaken` every entry of an index block is on some
  path, and by `Apart` no two parts of the tree meet. The invariant `Sound` adds to `Good` that,
  without a crash, bitmap, `s_free_blocks_count` and `i_blocks` agree with the tree and the branch
  beside it (`Counted`), and that the list of a removal has every block once and marked (`Listed`),
  from which the assertion of `deallocate_block` follows. `TypeOK` also holds after an allocation
  has failed; its invariant `Shaped` bounds the chain and the offsets and says nothing of the tree.
* `Ext2InodeAllocProofs`: the same as for blocks, for inodes; `IInv` has one conjunct for each
  stage of a creation and of a removal (`CreateOK`, `RemoveOK`, `WipedOK`, `LateOK`) and the
  same argument for the search. `InodeDrift` as for blocks, with two things of its own. The
  descriptor that is written back is the one on the device but for the directory count
  (`Stages`). And the directory count is not off by the number of crashes alone: a directory
  whose bit a crash left clear while it is still counted (`Stale`) costs nothing until its inode
  is handed out again, so the bound that is inductive is on the drift and the stale directories
  together (`DirsNear`).
* `Ext2NamespaceProofs`: `TypeOK` for any number of inodes, names, crashes and names gone astray;
  `LinkDrift`, `LinksSound`, `TreeShape` and `HaltsExplained` as long as no inode has 2^15 names
  (`FewNames`, which holds in every state of the run; the counts are 16 bits wide, nothing in the
  code refuses another name, and with 2^16 names the count is 0). `TypeOK` has an invariant of its
  own, `Typed`: at which part of which command the program is, whatever the inodes of the command
  are. The others hold until a name is to be written into a free inode. Until then the copies in the
  handles are what the disk has (`CopyOK`), so that every step is one that changes an entry or a
  count and nothing else (`PlainNext`), and about those steps are three invariants. `Control`: what
  the handles know of the counts, and that a free inode is zeroed. `Drift`: there is a number
  `dr[i]` for each inode by which its count is off, together no more than the crashes and the
  entries spilt; names are compared as if entry and count changed together (`Ents`). It is stated
  with the drifts as a witness, not as a sum, so that a step changes one of them, and the sum is the
  cardinality of a set of cells (`Cells`). `Tree` (without a crash): one conjunct for each way in
  which the entries are a tree, with the inode that is just getting or losing its name exempted
  (`Unnamed`, `Unled`), and one for each stage of `mkdir` and `rmdir` (`TCreate`, `TRmdir`). That a
  directory is freed with nothing in it (`spilt = 0`) follows from the count: it is 0 only with the
  last name, and `Drift` without a crash says the count is exact. `HaltsExplained` follows from
  `Tree`: what loses its last link is marked (`Clearable`).
* `ListsProofs`: `Linked`, for every set of elements. `Linked` is inductive as it stands; the
  ghost `list` says what the ring is. Lemmas say where each element of the sequence comes from
  after an insertion (`Came`) or goes to after a deletion (`Went`), and that this commutes with
  `Before` and `Behind` in a ring of the new length; then there is one step per macro. Lists of
  one and two elements, where the macros' pointers coincide, are cases of these lemmas.
* `Ext2DirProofs`: `Tiling`, `RmdirExact`, `SlackClear`, that the sizes asserted in
  `create_dir_entry_ext2` are right, and the refinement `ImplementsNames`. `Tiling` says nothing
  of the windows, so the inductive invariant `IInv` is about a set of offsets (`Starts`), from
  each of which a length leads to the next: `live` and the lengths on the device, or, while a
  header is missing (`Hole`), with the entry that is about to be made. Splitting, appending and
  merging a chain are lemmas (`ChainSplit`, `ChainAppend`, `ChainMerge`). `Walking` and `Seen`
  tie the locals of a walk to the entries it has passed, and there is one conjunct for each
  stage of a creation and a removal. `RmdirExact` and the refinement need `NInv` as well: no
  name is there twice for one inode (`Distinct`), and the dots are where `mkdir` has put them
  (`DotsPlaced`, `Making`). The refinement is that the entries stay the same, or one is added,
  or one removed (`Kept`, `Added`, `Dropped`), at one step of each operation. `SlackClear` is
  about rest; its invariant is `Clean`, which exempts what a removal has not yet wiped
  (`Cleared`). `TypeOK` is about damaged directories, too, in which a walk reads any unit as a
  header. Its invariant `Fitting` says of every unit that may be read as one that its entry ends
  with the block or where another header has room (`Fits`); that `walk` is at such a place and
  has its length from there (`WalkFits`, `WalkSees`), and that what an operation is about to
  write is in its entry (`OpFits`). The writes of a split or merged length keep this, as both
  borders are such places; a `rec_len` of 0 is one of them.
* `BlockDeviceProofs`: `TypeOK`, `Partitioned`, for every sector size, boundary and set of
  requests; `TypeOK` is inductive, and the rest is the position of a sector in `uint32_t`
  arithmetic. `ReadsImage` and the refinement `ImplementsFlat` have two hypotheses: the image
  and the boundary are whole sectors and no request comes so close to 4 GB that a position wraps
  (`Sectors`); no write reaches behind the image (`InImage`: the image is a fixed array here,
  while a file of the host would grow). Images made by mke2fs are of that kind, and the parts of
  the program that use the device do not leave the volume. The invariant (`Passes`) says that
  the bytes of a request that are done are stored or read, and the others untouched. The
  `device` run also has a write that wraps, about which the theorem says nothing.

Every invariant of the passing runs and every action property is proved.  Only model-checked are

* liveness: `ScanEnds`, `RequestEnds` and the two `OperationEnds`;
* what the hypotheses of the theorems exclude: the content of a file and its tree once an allocation
  has failed or its removal was cut short (only `TypeOK` is proved of it), the tree of directories
  once a name is written into a free inode (`TypeOK` too), positions of the device that wrap, an
  inode with 2^15 names;
* that the four assertions of section 3 fail.

Out of TLAPS's reach are liveness under fairness and `ENABLED`.  Recursive operators are avoided:
the modules use recursive functions, of which it is shown that they exist before anything is said of
them (`RunsExist`, `PassesExist`).  The induction theorems of the library take an operator
as a parameter, which no installed prover instantiates; `SetInduction` in
`FunctionsProofs` says the same of a set of numbers, from the well-foundedness of `<`, and is what
the proofs about lines and about the blocks of a file use.

## 5. Not modelled

* Timestamps, printing, `display_*`, `cat`, the random test drivers, the self-tests of
  `lists.c`.
* `s_free_blocks_count` of the superblock and group descriptor *copies*: the code keeps only the
  first.
* For inodes, the group counted too many by `num_block_groups`: `Ext2InodeAlloc` assumes all
  groups described.
* In `Ext2Namespace`: paths of more than two components, a regular file taken for a directory
  (`parse_path_ext2` refuses one only if two more components follow, so `mkdir f/x` writes an
  entry into the data of `f`), names that are too long, a crash's effects on block bitmaps and
  counts (those are the allocators'; where one would reach the tree of directories, the model
  stops, see `CrashFreeing`), and copies of `i_block` and `i_size` in the handles of `cp` and of
  commands that remove names.
* A file with blocks that are free, once it is grown or its blocks have a new owner:
  `Ext2BlockAlloc` stops there (`lost`), and `Ext2File` has no other file.
* What the device layer does with a read beyond the end of the image, or an image that is not whole
  sectors (`ddriv_read_blk` then takes bytes it has not read, and does not end).
* `lastdir.cd`: for the volume, starting with it is a restart followed by `cd`.
* Undefined behaviour at the first step: the path `/` where a last component is needed, more
  than 32 words, an empty line (`line_argv[0]` is read all the same).
* Allocation failure of `malloc`, I/O errors of the host, and images that mke2fs would not
  write.

## 6. Plan

1. *`Ext2Store`*: both allocators, files and directories composed at the level of whole
   operations, so that blocks of several inodes meet.
2. A second handle of one directory in `Ext2Dir`, for `cp` of a directory into itself.
