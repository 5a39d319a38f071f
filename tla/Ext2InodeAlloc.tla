--------------------------- MODULE Ext2InodeAlloc ---------------------------
(***************************************************************************)
(* The inode allocator of fs/ext2.c: allocate_new_inode as create_file and *)
(* create_directory call it, deallocate_inode as unlink_file calls it for  *)
(* the last link, and the directory counts that delete_directory corrects. *)
(*                                                                         *)
(* As in Ext2BlockAlloc a step is one write to the device that this state  *)
(* shows, with the reads before it; the process may be killed between two. *)
(* Data blocks, the contents of inodes and the inside of directories are   *)
(* not shown: an entry names an inode from the write of its header on, a   *)
(* file has one name, and that rmdir takes empty directories only is left  *)
(* out, as no count depends on it.                                         *)
(***************************************************************************)
EXTENDS UInt32, FiniteSets

CONSTANTS
  NumGroups,       \* num_block_groups(sb), all of them described
  InodesPerGroup,  \* s_inodes_per_group
  Reserved,        \* inodes mke2fs sets aside, the root directory not among them
  Root,            \* the root directory, inode 2
  U16,             \* the number of uint16_t values
  MaxCrashes       \* bound on the number of crashes

Groups == 0 .. NumGroups - 1
Inodes == 1 .. NumGroups * InodesPerGroup

ASSUME InodeAssumption ==
  /\ NumGroups \in Nat \ {0} /\ InodesPerGroup \in Nat \ {0}
  /\ Root \in Inodes /\ Reserved \subseteq Inodes \ {Root}
  /\ U16 \in Nat /\ InodesPerGroup < U16 /\ NumGroups * InodesPerGroup < U32
  /\ MaxCrashes \in Nat

VARIABLES
  imap,     \* disk: the inodes marked in the inode bitmaps
  bgd,      \* disk: bg_free_inodes_count and bg_used_dirs_count of every group
  dsb,      \* disk: s_free_inodes_count
  sb,       \* memory: s_free_inodes_count of *gsb_ext2
  pc,       \* the write the program is about to do
  op,       \* the locals of the operation in progress
  named,    \* disk: the inodes some directory entry names, and the root
  dirs,     \* ghost: the inodes allocated for directories
  home,     \* ghost: the group of the directory a directory was created in
  failed,   \* ghost: inodes allocated whose entry could not be created
  exposed,  \* ghost: inodes whose entry outlived them in a crash
  crashes   \* ghost: crashes so far

disk  == <<imap, bgd, dsb, named>>
ghost == <<dirs, home, failed, exposed>>
vars  == <<disk, sb, pc, op, ghost, crashes>>

NoDesc == [free |-> 0, dirs |-> 0]
NoOp   == [goal |-> 0, grp |-> 0, isdir |-> FALSE, ino |-> 0, late |-> FALSE, pbgd |-> NoDesc]

group_of(ino) == (ino - 1) \div InodesPerGroup

(* Deviation: inodes taken to be numbered from 0. *)
M_local_index(ino) == ino % InodesPerGroup

(* inode_bgrp_local_index *)
local_index(ino) == (ino - 1) % InodesPerGroup

get_first_inode_index_in_block_group(g) == 1 + (g * InodesPerGroup)

InodesOf(g) == {ino \in Inodes : group_of(ino) = g}

(* Deviation: the decrement not wrapping.                                   *)
M_Dec(n, width) == n - 1

(* -- and ++ on the unsigned counts. *)
Dec(n, width) == IF n = 0 THEN width - 1 ELSE n - 1
Inc(n, width) == IF n = width - 1 THEN 0 ELSE n + 1

(* A consistent volume with nothing but files below the root directory.     *)
Init ==
  \E used \in SUBSET (Inodes \ (Reserved \cup {Root})) :
     /\ imap = Reserved \cup {Root} \cup used
     /\ named = {Root} \cup used
     /\ bgd = [g \in Groups |-> [free |-> Cardinality(InodesOf(g) \ imap),
                                 dirs |-> IF g = group_of(Root) THEN 1 ELSE 0]]
     /\ sb = Cardinality(Inodes \ imap) /\ dsb = sb
     /\ pc = "idle" /\ op = NoOp
     /\ dirs = {Root} /\ home = [ino \in Inodes |-> group_of(Root)]
     /\ failed = {} /\ exposed = {} /\ crashes = 0

-----------------------------------------------------------------------------
(* create_file and create_directory in directory d: the search starts in    *)
(* the group of d.                                                          *)
CreateStart(d, isdir) ==
  /\ pc = "idle" /\ d \in dirs \cap named
  /\ pc' = "scan"
  /\ op' = [NoOp EXCEPT !.goal = group_of(d), !.grp = group_of(d), !.isdir = isdir]
  /\ UNCHANGED <<disk, sb, ghost, crashes>>

Free(g) == InodesOf(g) \ imap

(* Deviation: the search begins anew with the group it has just left.       *)
M_NextGroup(g) == IF g + 1 = NumGroups THEN g ELSE g + 1

NextGroup(g) == IF g + 1 = NumGroups THEN 0 ELSE g + 1

(* Deviation: the last group ends the search, wherever it began.            *)
M_Wrapped(g) == g + 1 = NumGroups

Wrapped(g) == NextGroup(g) = op.goal

(* Deviation: the bitmap is not looked at.                                  *)
M_Takes(ino) == group_of(ino) = op.grp

(* The first clear bit of the group's inode bitmap.                         *)
Takes(ino) == ino \in Free(op.grp) /\ \A other \in Free(op.grp) : ino <= other

(* A pass of the loop that finds a bit: the bitmap is written back.         *)
ScanHit ==
  /\ pc = "scan"
  /\ \E ino \in Inodes :
        /\ Takes(ino)
        /\ op' = [op EXCEPT !.ino = get_first_inode_index_in_block_group(op.grp)
                                      + local_index(ino)]
        /\ imap' = imap \cup {ino}
  /\ pc' = "bgd"
  /\ UNCHANGED <<bgd, dsb, named, sb, ghost, crashes>>

ScanNext ==
  /\ pc = "scan" /\ Free(op.grp) = {} /\ ~Wrapped(op.grp)
  /\ op' = [op EXCEPT !.grp = NextGroup(@)]
  /\ UNCHANGED <<disk, sb, pc, ghost, crashes>>

(* allocate_new_inode returns -1: nothing has been written.                 *)
ScanFail ==
  /\ pc = "scan" /\ Free(op.grp) = {} /\ Wrapped(op.grp)
  /\ pc' = "idle" /\ op' = NoOp
  /\ UNCHANGED <<disk, sb, ghost, crashes>>

Described(d) == [d EXCEPT !.free = Dec(@, U16), !.dirs = IF op.isdir THEN Inc(@, U16) ELSE @]

(* The descriptor is written back, counting the inode and the directory.    *)
AllocBgd ==
  /\ pc = "bgd"
  /\ bgd' = [bgd EXCEPT ![op.grp] = Described(@)]
  /\ dirs' = IF op.isdir THEN dirs \cup {op.ino} ELSE dirs \ {op.ino}
  /\ home' = IF op.isdir THEN [home EXCEPT ![op.ino] = op.goal] ELSE home
  /\ pc' = "super"
  /\ UNCHANGED <<imap, dsb, named, sb, op, failed, exposed, crashes>>

(* The new inode is written, then the superblock.  No gate: the count may   *)
(* wrap on a volume where a crash has left it too low.                      *)
AllocSuper ==
  /\ pc = "super"
  /\ sb' = Dec(sb, U32) /\ dsb' = sb'
  /\ pc' = "entry"
  /\ UNCHANGED <<imap, bgd, named, op, ghost, crashes>>

(* create_dir_entry_ext2 names the inode in the parent directory.           *)
NameEntry ==
  /\ pc = "entry"
  /\ named' = named \cup {op.ino}
  /\ pc' = "idle" /\ op' = NoOp
  /\ UNCHANGED <<imap, bgd, dsb, sb, ghost, crashes>>

(* The entry is not created: the name is longer than EXT2_NAMELEN, or the   *)
(* parent was not found (execute_mkdir goes on when parse_path_ext2 fails,  *)
(* and dies of a null it_lpos).  The inode is not given back.               *)
NameFails ==
  /\ pc = "entry"
  /\ failed' = failed \cup {op.ino}
  /\ pc' = "idle" /\ op' = NoOp
  /\ UNCHANGED <<disk, sb, dirs, home, exposed, crashes>>

-----------------------------------------------------------------------------
(* unlink_file_ext2 for the last link of ino, within delete_directory_ext2  *)
(* for a directory.  The entry is hidden by lengthening the one before it,  *)
(* unless it is the first of its block ("late"): then it names ino until    *)
(* the end.  pbgd: the descriptor in the handle of the parent directory.    *)
RemoveStart(ino, late) ==
  /\ pc = "idle" /\ ino \in named \ (exposed \cup {Root})
  /\ named' = IF late THEN named ELSE named \ {ino}
  /\ op' = [NoOp EXCEPT !.ino = ino, !.isdir = ino \in dirs, !.late = late,
                        !.goal = home[ino], !.pbgd = bgd[home[ino]]]
  /\ pc' = "rm_bitmap"
  /\ UNCHANGED <<imap, bgd, dsb, sb, ghost, crashes>>

FreedInode(ino) == get_first_inode_index_in_block_group(group_of(ino)) + local_index(ino)

(* The data blocks are freed and the inode zeroed; then deallocate_inode    *)
(* with its ASSERT(test_bit(...)), the bitmap first.                        *)
FreeBitmap ==
  /\ pc = "rm_bitmap"
  /\ IF FreedInode(op.ino) \in imap
     THEN imap' = imap \ {FreedInode(op.ino)} /\ pc' = "rm_bgd"
     ELSE pc' = "halted" /\ UNCHANGED imap
  /\ UNCHANGED <<bgd, dsb, named, sb, op, ghost, crashes>>

(* Its test for a directory reads the inode that has just been zeroed, so   *)
(* the directory count stays.                                               *)
FreeBgd ==
  /\ pc = "rm_bgd"
  /\ bgd' = [bgd EXCEPT ![group_of(op.ino)].free = Inc(@, U16)]
  /\ pc' = "rm_super"
  /\ UNCHANGED <<imap, dsb, named, sb, op, ghost, crashes>>

FreeSuper ==
  /\ pc = "rm_super"
  /\ sb' = Inc(sb, U32) /\ dsb' = sb'
  /\ pc' = "rm_entry"
  /\ UNCHANGED <<imap, bgd, named, op, ghost, crashes>>

(* Deviation: the handle of the parent is not read again.                   *)
M_Reread == op.pbgd

Reread == bgd[op.goal]

(* The handle of the parent is read again, and the entry wiped out.         *)
WipeEntry ==
  /\ pc = "rm_entry"
  /\ named' = named \ {op.ino}
  /\ IF op.isdir THEN pc' = "rm_dirs" /\ op' = [op EXCEPT !.pbgd = Reread]
                 ELSE pc' = "idle" /\ op' = NoOp
  /\ UNCHANGED <<imap, bgd, dsb, sb, ghost, crashes>>

(* The end of delete_directory_ext2: the directory count is corrected in    *)
(* the handle's descriptor, the one of the parent's group, and the whole    *)
(* descriptor is written.                                                   *)
UncountDir ==
  /\ pc = "rm_dirs"
  /\ bgd' = [bgd EXCEPT ![op.goal] = [op.pbgd EXCEPT !.dirs = Dec(@, U16)]]
  /\ dirs' = dirs \ {op.ino}
  /\ home' = [home EXCEPT ![op.ino] = group_of(Root)]
  /\ pc' = "idle" /\ op' = NoOp
  /\ UNCHANGED <<imap, dsb, named, sb, failed, exposed, crashes>>

-----------------------------------------------------------------------------
(* Killed and started again.  An entry that is still there names what is    *)
(* left of its inode; it is not followed further.                           *)
Crash ==
  /\ pc # "idle" /\ crashes < MaxCrashes
  /\ crashes' = crashes + 1
  /\ sb' = dsb
  /\ exposed' = IF op.late THEN exposed \cup ({op.ino} \cap named) ELSE exposed
  /\ pc' = "idle" /\ op' = NoOp
  /\ UNCHANGED <<disk, dirs, home, failed>>

Step == \/ ScanHit \/ ScanNext \/ ScanFail \/ AllocBgd \/ AllocSuper \/ NameEntry
        \/ NameFails \/ FreeBitmap \/ FreeBgd \/ FreeSuper \/ WipeEntry \/ UncountDir

Next == \/ \E d \in Inodes, isdir \in BOOLEAN : CreateStart(d, isdir)
        \/ \E ino \in Inodes, late \in BOOLEAN : RemoveStart(ino, late)
        \/ Step
        \/ Crash

Spec     == Init /\ [][Next]_vars
FairSpec == Spec /\ WF_vars(Step)

-----------------------------------------------------------------------------
Desc == [free : 0 .. U16 - 1, dirs : 0 .. U16 - 1]

TypeOK ==
  /\ imap \subseteq Inodes /\ named \subseteq Inodes
  /\ bgd \in [Groups -> Desc]
  /\ dsb \in 0 .. U32 - 1 /\ sb \in 0 .. U32 - 1
  /\ pc \in {"idle", "scan", "bgd", "super", "entry", "rm_bitmap", "rm_bgd", "rm_super",
             "rm_entry", "rm_dirs", "halted"}
  /\ op \in [goal : Groups, grp : Groups, isdir : BOOLEAN, ino : Inodes \cup {0},
             late : BOOLEAN, pbgd : Desc]
  /\ dirs \subseteq Inodes /\ home \in [Inodes -> Groups]
  /\ failed \subseteq Inodes /\ exposed \subseteq Inodes
  /\ crashes \in 0 .. MaxCrashes

(* An inode that an entry names is marked, so that it cannot be handed out  *)
(* again, and so are the reserved ones and the root.  Not so an inode whose *)
(* entry is wiped out late, from the moment its bit is cleared: a crash     *)
(* there leaves an entry for a free inode.                                  *)
NamedMarked ==
  /\ Reserved \cup {Root} \subseteq imap
  /\ named \ (exposed \cup IF op.late THEN {op.ino} ELSE {}) \subseteq imap

(* ASSERT(test_bit(bit_akt, inode_bitmap)) of deallocate_inode holds.       *)
AssertHolds == pc # "halted"

(* At rest the three records of free inodes agree and an inode that is      *)
(* marked and neither reserved nor named is one whose entry could not be    *)
(* created, but for crashes: each costs a count at most one, and at most    *)
(* one inode.                                                               *)
(* So it is with the directory counts of all groups together.  Per group    *)
(* they are not the number of directories: one is counted where its inode   *)
(* is and uncounted where its parent is.                                    *)
Off(a, b, width) == IF (a - b) % width <= (b - a) % width
                    THEN (a - b) % width ELSE (b - a) % width

SumDirs == Cardinality(UNION {{g} \X (1 .. bgd[g].dirs) : g \in Groups})

InodeDrift ==
  pc = "idle" =>
    /\ dsb = sb
    /\ Off(sb, Cardinality(Inodes \ imap), U32) <= crashes
    /\ \A g \in Groups : Off(bgd[g].free, Cardinality(Free(g)), U16) <= crashes
    /\ Cardinality(imap \ (Reserved \cup named \cup failed)) <= crashes
    /\ Off(SumDirs, Cardinality(dirs), U16) <= crashes

(* An inode that is handed out is neither reserved nor the root, and        *)
(* belongs to nobody: no entry but one that a crash left over names it.     *)
FreshInode ==
  [][pc = "scan" /\ pc' = "bgd" =>
        op'.ino \in Inodes \ (Reserved \cup {Root} \cup failed \cup (named \ exposed))]_vars

(* A creation fails for want of an inode only when all of them are taken.   *)
FailsOnlyWhenFull == [][pc = "scan" /\ pc' = "idle" /\ crashes' = crashes => imap = Inodes]_vars

(* A creation or removal ends.                                              *)
OperationEnds == pc # "idle" ~> pc \in {"idle", "halted"}
=============================================================================
