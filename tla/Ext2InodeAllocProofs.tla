------------------------ MODULE Ext2InodeAllocProofs ------------------------
(***************************************************************************)
(* The inode allocator for every number of groups and inodes: an inductive *)
(* invariant, and with it that named inodes stay marked, that the ASSERT   *)
(* of deallocate_inode holds, that no inode is handed out twice and that   *)
(* the search leaves no group out.                                         *)
(***************************************************************************)
EXTENDS Ext2InodeAlloc, FunctionsProofs, FiniteSetTheorems

(* The inodes of an operation in progress.                                  *)
CreateOK ==
  pc \in {"bgd", "super", "entry"} =>
    op.ino \in imap \ (Reserved \cup {Root} \cup failed \cup (named \ exposed))

RemoveOK ==
  pc \in {"rm_bitmap", "rm_bgd", "rm_super", "rm_entry", "rm_dirs"} =>
    /\ op.ino \in Inodes \ (Reserved \cup {Root} \cup failed)
    /\ ~op.late => op.ino \notin named \ exposed
    /\ pc = "rm_bitmap" => op.ino \in imap

(* At the very end the entry is gone, late or not.                          *)
WipedOK == pc = "rm_dirs" => op.ino \notin named

LateOK == op.late => pc \in {"rm_bitmap", "rm_bgd", "rm_super", "rm_entry", "rm_dirs"}

(* Failed creations keep their inode, and nobody else has it.               *)
FailedOK == failed \subseteq imap /\ failed \cap (named \ exposed) = {}

NamesOK == named \cap Reserved = {}

(* The groups the search has been through.                                  *)
Seen(g) == IF op.goal <= op.grp THEN op.goal <= g /\ g < op.grp
                                ELSE op.goal <= g \/ g < op.grp

SeenFull == pc = "scan" => \A g \in Groups : Seen(g) => Free(g) = {}

IInv == /\ TypeOK /\ NamedMarked /\ AssertHolds
        /\ CreateOK /\ RemoveOK /\ WipedOK /\ LateOK /\ FailedOK /\ NamesOK /\ SeenFull

-----------------------------------------------------------------------------
(* Division with remainder, for positive divisors.                          *)
LEMMA DivMod ==
  ASSUME NEW a \in Nat, NEW n \in Nat \ {0}
  PROVE  /\ a \div n \in Nat /\ a % n \in 0 .. n - 1
         /\ a = (n * (a \div n)) + (a % n)
  BY SMT

(* Group and local index lead back to the inode.                            *)
LEMMA InodeRoundTrip ==
  ASSUME NEW ino \in Inodes
  PROVE  /\ group_of(ino) \in Groups
         /\ get_first_inode_index_in_block_group(group_of(ino)) + local_index(ino) = ino
<1> DEFINE g == group_of(ino)
           l == local_index(ino)
<1>1. InodesPerGroup \in Nat \ {0} /\ NumGroups \in Nat \ {0} /\ NumGroups * InodesPerGroup \in Nat
  BY InodeAssumption, SMT
<1>2. ino - 1 \in Nat /\ ino \in Nat /\ ino - 1 < NumGroups * InodesPerGroup
  BY <1>1, SMT DEF Inodes
<1>3. g \in Nat /\ l \in 0 .. InodesPerGroup - 1 /\ ino - 1 = (InodesPerGroup * g) + l
  BY <1>1, <1>2, DivMod DEF group_of, local_index
<1>4. g < NumGroups
  <2>1. SUFFICES ASSUME g >= NumGroups PROVE FALSE
    BY <1>1, <1>3, SMT
  <2>2. PICK k \in Nat : g = NumGroups + k
    BY <1>1, <1>3, <2>1, SMT
  <2>3. InodesPerGroup * g = (NumGroups * InodesPerGroup) + (InodesPerGroup * k)
    BY <1>1, <2>2, SMT
  <2>4. InodesPerGroup * k \in Nat
    BY <1>1, <2>2, SMT
  <2> HIDE DEF g, l
  <2> QED BY <1>1, <1>2, <1>3, <2>3, <2>4, SMT
<1>5. g \in Groups
  BY <1>1, <1>3, <1>4, SMT DEF Groups
<1>6. 1 + (g * InodesPerGroup) + l = ino
  <2>1. g * InodesPerGroup = InodesPerGroup * g
    BY <1>1, <1>3, SMT
  <2>2. InodesPerGroup * g \in Nat
    BY <1>1, <1>3, SMT
  <2> HIDE DEF g, l
  <2> QED BY <1>1, <1>2, <1>3, <2>1, <2>2, SMT
<1> QED BY <1>5, <1>6 DEF get_first_inode_index_in_block_group

LEMMA Freed ==
  ASSUME NEW ino \in Inodes
  PROVE  FreedInode(ino) = ino
BY InodeRoundTrip DEF FreedInode

LEMMA RootGroup == Root \in Inodes /\ group_of(Root) \in Groups /\ 0 \in Groups
<1>1. Root \in Inodes
  BY InodeAssumption
<1>2. 0 \in Groups
  BY InodeAssumption, SMT DEF Groups
<1> QED BY <1>1, <1>2, InodeRoundTrip

LEMMA Wraps ==
  /\ \A n \in 0 .. U16 - 1 : Dec(n, U16) \in 0 .. U16 - 1 /\ Inc(n, U16) \in 0 .. U16 - 1
  /\ \A n \in 0 .. U32 - 1 : Dec(n, U32) \in 0 .. U32 - 1 /\ Inc(n, U32) \in 0 .. U32 - 1
  /\ 0 \in 0 .. U16 - 1
<1>1. U16 \in Nat /\ U32 \in Nat /\ U16 > 0 /\ U32 > 0
  BY InodeAssumption, U32Assumption, SMT
<1> QED BY <1>1, SMT DEF Dec, Inc

LEMMA NoOpType == NoOp \in [goal : Groups, grp : Groups, isdir : BOOLEAN,
                            ino : Inodes \cup {0}, late : BOOLEAN, pbgd : Desc]
BY RootGroup, Wraps DEF NoOp, NoDesc, Desc

LEMMA NextInGroups == ASSUME NEW g \in Groups PROVE NextGroup(g) \in Groups
BY InodeAssumption, SMT DEF Groups, NextGroup

(* The inodes of a group are an interval, and so are all.                   *)
LEMMA Counts ==
  /\ \A S \in SUBSET Inodes : Cardinality(S) \in 0 .. U32 - 1
  /\ \A g \in Groups : \A S \in SUBSET InodesOf(g) : Cardinality(S) \in 0 .. U16 - 1
<1>1. /\ InodesPerGroup \in Nat \ {0} /\ NumGroups \in Nat \ {0}
      /\ NumGroups * InodesPerGroup \in Nat /\ NumGroups * InodesPerGroup < U32
      /\ InodesPerGroup < U16 /\ U16 \in Nat /\ U32 \in Nat
  BY InodeAssumption, U32Assumption, SMT
<1>2. ASSUME NEW S \in SUBSET Inodes
      PROVE  Cardinality(S) \in 0 .. U32 - 1
  <2>1. IsFiniteSet(Inodes) /\ Cardinality(Inodes) <= NumGroups * InodesPerGroup
    <3>1. /\ IsFiniteSet(Inodes)
          /\ Cardinality(Inodes) = IF 1 > NumGroups * InodesPerGroup THEN 0
                                   ELSE NumGroups * InodesPerGroup - 1 + 1
      BY <1>1, FS_Interval DEF Inodes
    <3> QED BY <1>1, <3>1, SMT
  <2>2. IsFiniteSet(S) /\ Cardinality(S) <= Cardinality(Inodes)
    BY <2>1, FS_Subset
  <2>3. Cardinality(S) \in Nat /\ Cardinality(Inodes) \in Nat
    BY <2>1, <2>2, FS_CardinalityType
  <2> QED BY <1>1, <2>1, <2>2, <2>3, SMT
<1>3. ASSUME NEW g \in Groups, NEW S \in SUBSET InodesOf(g)
      PROVE  Cardinality(S) \in 0 .. U16 - 1
  <2> DEFINE a == 1 + (g * InodesPerGroup)
             T == a .. a + InodesPerGroup - 1
  <2>1. g \in Nat /\ g * InodesPerGroup \in Nat /\ a \in Int /\ a + InodesPerGroup - 1 \in Int
    BY <1>1, SMT DEF Groups
  <2>2. InodesOf(g) \subseteq T
    <3>1. SUFFICES ASSUME NEW ino \in InodesOf(g) PROVE ino \in T
      OBVIOUS
    <3>2. ino \in Inodes /\ group_of(ino) = g
      BY <3>1 DEF InodesOf
    <3>3. a + local_index(ino) = ino
      BY <3>2, InodeRoundTrip DEF get_first_inode_index_in_block_group
    <3>4. ino - 1 \in Nat
      BY <1>1, <3>2, SMT DEF Inodes
    <3>5. local_index(ino) \in 0 .. InodesPerGroup - 1
      BY <1>1, <3>4, DivMod DEF local_index
    <3> HIDE DEF a
    <3> QED BY <1>1, <2>1, <3>3, <3>5, SMT
  <2> HIDE DEF a
  <2>3. IsFiniteSet(T) /\ Cardinality(T) = InodesPerGroup
    <3>1. /\ IsFiniteSet(T)
          /\ Cardinality(T) = IF a > a + InodesPerGroup - 1 THEN 0
                              ELSE (a + InodesPerGroup - 1) - a + 1
      BY <2>1, FS_Interval
    <3> QED BY <1>1, <2>1, <3>1, SMT
  <2>4. IsFiniteSet(S) /\ Cardinality(S) <= Cardinality(T)
    BY <2>2, <2>3, FS_Subset
  <2>5. Cardinality(S) \in Nat
    BY <2>4, FS_CardinalityType
  <2> QED BY <1>1, <2>3, <2>4, <2>5, SMT
<1> QED BY <1>2, <1>3

-----------------------------------------------------------------------------
LEMMA InitIInv == Init => IInv
<1> SUFFICES ASSUME Init PROVE IInv
  OBVIOUS
<1>1. PICK used \in SUBSET (Inodes \ (Reserved \cup {Root})) :
         /\ imap = Reserved \cup {Root} \cup used
         /\ named = {Root} \cup used
         /\ bgd = [g \in Groups |-> [free |-> Cardinality(InodesOf(g) \ imap),
                                     dirs |-> IF g = group_of(Root) THEN 1 ELSE 0]]
         /\ sb = Cardinality(Inodes \ imap) /\ dsb = sb
         /\ pc = "idle" /\ op = NoOp
         /\ dirs = {Root} /\ home = [ino \in Inodes |-> group_of(Root)]
         /\ failed = {} /\ exposed = {} /\ crashes = 0
  BY DEF Init
<1>2. Reserved \subseteq Inodes \ {Root} /\ Root \in Inodes
  BY InodeAssumption
<1>3. sb \in 0 .. U32 - 1 /\ dsb \in 0 .. U32 - 1
  BY <1>1, Counts
<1>4. bgd \in [Groups -> Desc]
  <2>1. \A g \in Groups : Cardinality(InodesOf(g) \ imap) \in 0 .. U16 - 1
    BY Counts
  <2>2. 0 \in 0 .. U16 - 1 /\ 1 \in 0 .. U16 - 1
    BY InodeAssumption, SMT
  <2> QED BY <1>1, <2>1, <2>2 DEF Desc
<1>5. crashes \in 0 .. MaxCrashes
  BY <1>1, InodeAssumption, SMT
<1>6. TypeOK
  BY <1>1, <1>2, <1>3, <1>4, <1>5, NoOpType, RootGroup DEF TypeOK
<1>7. ~op.late
  BY <1>1 DEF NoOp
<1>8. NamedMarked /\ AssertHolds /\ FailedOK /\ NamesOK
  BY <1>1, <1>2, <1>7 DEF NamedMarked, AssertHolds, FailedOK, NamesOK
<1>9. CreateOK /\ RemoveOK /\ WipedOK /\ LateOK /\ SeenFull
  BY <1>1, <1>7 DEF CreateOK, RemoveOK, WipedOK, LateOK, SeenFull
<1> QED BY <1>6, <1>8, <1>9 DEF IInv

(* The parts of the invariant that only an operation's record, the bitmap   *)
(* and the names matter to, when the record is put back.                    *)
LEMMA AtRest ==
  ASSUME IInv, pc' = "idle", op' = NoOp, TypeOK',
         UNCHANGED <<imap, failed>>, named' \cap Reserved = {},
         named' \ exposed' \subseteq imap, failed \cap (named' \ exposed') = {}
  PROVE  IInv'
<1>1. ~op'.late
  BY DEF NoOp
<1>2. NamedMarked' /\ AssertHolds' /\ FailedOK' /\ NamesOK'
  BY <1>1 DEF IInv, NamedMarked, AssertHolds, FailedOK, NamesOK
<1>3. CreateOK' /\ RemoveOK' /\ WipedOK' /\ LateOK' /\ SeenFull'
  BY <1>1 DEF CreateOK, RemoveOK, WipedOK, LateOK, SeenFull
<1> QED BY <1>2, <1>3 DEF IInv

LEMMA CreateStartIInv ==
  ASSUME IInv, NEW d \in Inodes, NEW isdir \in BOOLEAN, CreateStart(d, isdir)
  PROVE  IInv'
<1>1. /\ pc = "idle" /\ pc' = "scan"
      /\ op' = [NoOp EXCEPT !.goal = group_of(d), !.grp = group_of(d), !.isdir = isdir]
      /\ UNCHANGED <<imap, bgd, dsb, named, sb, dirs, home, failed, exposed, crashes>>
  BY DEF CreateStart, disk, ghost
<1>2. op' \in [goal : Groups, grp : Groups, isdir : BOOLEAN, ino : Inodes \cup {0},
               late : BOOLEAN, pbgd : Desc]
  BY <1>1, InodeRoundTrip, NoOpType
<1>3. TypeOK'
  BY <1>1, <1>2 DEF IInv, TypeOK
<1>4. ~op'.late /\ ~op.late /\ op'.goal = op'.grp
  BY <1>1 DEF NoOp, IInv, LateOK
<1>5. NamedMarked' /\ AssertHolds' /\ FailedOK' /\ NamesOK'
  BY <1>1, <1>4 DEF IInv, NamedMarked, AssertHolds, FailedOK, NamesOK
<1>6. CreateOK' /\ RemoveOK' /\ WipedOK' /\ LateOK'
  BY <1>1, <1>4 DEF CreateOK, RemoveOK, WipedOK, LateOK
<1>7. SeenFull'
  <2>1. \A g \in Groups : ~Seen(g)'
    <3>1. op'.goal \in Int /\ \A g \in Groups : g \in Int
      BY <1>2, SMT DEF Groups
    <3> QED BY <1>4, <3>1, SMT DEF Seen
  <2> QED BY <2>1 DEF SeenFull
<1> QED BY <1>3, <1>5, <1>6, <1>7 DEF IInv

(* What ScanHit takes.                                                      *)
LEMMA ScanHitTakes ==
  ASSUME IInv, ScanHit
  PROVE  \E ino \in Inodes \ imap :
            /\ op' = [op EXCEPT !.ino = ino]
            /\ imap' = imap \cup {ino}
<1>1. PICK ino \in Inodes :
         /\ Takes(ino)
         /\ op' = [op EXCEPT !.ino = get_first_inode_index_in_block_group(op.grp)
                                       + local_index(ino)]
         /\ imap' = imap \cup {ino}
  BY DEF ScanHit
<1>2. ino \notin imap /\ group_of(ino) = op.grp
  BY <1>1 DEF Takes, Free, InodesOf
<1> QED BY <1>1, <1>2, InodeRoundTrip

LEMMA ScanHitIInv ==
  ASSUME IInv, ScanHit
  PROVE  IInv'
<1>1. /\ pc = "scan" /\ pc' = "bgd"
      /\ UNCHANGED <<bgd, dsb, named, sb, dirs, home, failed, exposed, crashes>>
  BY DEF ScanHit, ghost
<1>2. PICK ino \in Inodes \ imap :
         op' = [op EXCEPT !.ino = ino] /\ imap' = imap \cup {ino}
  BY ScanHitTakes
<1>3. TypeOK'
  BY <1>1, <1>2 DEF IInv, TypeOK
<1>4. op'.ino = ino /\ ~op'.late /\ ~op.late
  BY <1>1, <1>2 DEF IInv, TypeOK, LateOK
<1>5. NamedMarked' /\ AssertHolds' /\ FailedOK' /\ NamesOK'
  BY <1>1, <1>2, <1>4 DEF IInv, NamedMarked, AssertHolds, FailedOK, NamesOK
<1>6. CreateOK'
  BY <1>1, <1>2, <1>4 DEF IInv, CreateOK, NamedMarked, FailedOK
<1>7. RemoveOK' /\ WipedOK' /\ LateOK' /\ SeenFull'
  BY <1>1, <1>4 DEF RemoveOK, WipedOK, LateOK, SeenFull
<1> QED BY <1>3, <1>5, <1>6, <1>7 DEF IInv

(* One more group has been searched in vain.                                *)
LEMMA SeenGrows ==
  ASSUME NEW goal \in Groups, NEW grp \in Groups, NEW g \in Groups,
         NextGroup(grp) # goal,
         IF goal <= NextGroup(grp) THEN goal <= g /\ g < NextGroup(grp)
                                   ELSE goal <= g \/ g < NextGroup(grp)
  PROVE  g = grp \/ IF goal <= grp THEN goal <= g /\ g < grp ELSE goal <= g \/ g < grp
<1>1. NumGroups \in Nat \ {0}
  BY InodeAssumption
<1> QED BY <1>1, SMT DEF Groups, NextGroup

(* All groups have.                                                         *)
LEMMA SeenAll ==
  ASSUME NEW goal \in Groups, NEW grp \in Groups, NEW g \in Groups,
         NextGroup(grp) = goal
  PROVE  g = grp \/ IF goal <= grp THEN goal <= g /\ g < grp ELSE goal <= g \/ g < grp
<1>1. NumGroups \in Nat \ {0}
  BY InodeAssumption
<1> QED BY <1>1, SMT DEF Groups, NextGroup

LEMMA ScanNextIInv ==
  ASSUME IInv, ScanNext
  PROVE  IInv'
<1>1. /\ pc = "scan" /\ pc' = "scan" /\ Free(op.grp) = {} /\ NextGroup(op.grp) # op.goal
      /\ op' = [op EXCEPT !.grp = NextGroup(op.grp)]
      /\ UNCHANGED <<imap, bgd, dsb, named, sb, dirs, home, failed, exposed, crashes>>
  BY DEF ScanNext, Wrapped, disk, ghost
<1>2. op.grp \in Groups /\ op.goal \in Groups /\ NextGroup(op.grp) \in Groups
  BY NextInGroups DEF IInv, TypeOK
<1>3. TypeOK'
  BY <1>1, <1>2 DEF IInv, TypeOK
<1>4. /\ ~op'.late /\ ~op.late
      /\ op'.goal = op.goal /\ op'.grp = NextGroup(op.grp)
  BY <1>1 DEF IInv, TypeOK, LateOK
<1>5. NamedMarked' /\ AssertHolds' /\ FailedOK' /\ NamesOK'
  BY <1>1, <1>4 DEF IInv, NamedMarked, AssertHolds, FailedOK, NamesOK
<1>6. CreateOK' /\ RemoveOK' /\ WipedOK' /\ LateOK'
  BY <1>1, <1>4 DEF CreateOK, RemoveOK, WipedOK, LateOK
<1>7. SeenFull'
  <2>1. SUFFICES ASSUME NEW g \in Groups, Seen(g)' PROVE Free(g)' = {}
    BY DEF SeenFull
  <2>2. IF op.goal <= NextGroup(op.grp) THEN op.goal <= g /\ g < NextGroup(op.grp)
                                        ELSE op.goal <= g \/ g < NextGroup(op.grp)
    BY <1>4, <2>1 DEF Seen
  <2>3. g = op.grp \/ Seen(g)
    BY <1>1, <1>2, <2>2, SeenGrows DEF Seen
  <2>4. Free(g) = {}
    BY <1>1, <2>3 DEF IInv, SeenFull
  <2> QED BY <1>1, <2>4 DEF Free
<1> QED BY <1>3, <1>5, <1>6, <1>7 DEF IInv

LEMMA ScanFailIInv ==
  ASSUME IInv, ScanFail
  PROVE  IInv'
<1>1. /\ pc = "scan" /\ pc' = "idle" /\ op' = NoOp
      /\ UNCHANGED <<imap, bgd, dsb, named, sb, dirs, home, failed, exposed, crashes>>
  BY DEF ScanFail, disk, ghost
<1>2. TypeOK'
  BY <1>1, NoOpType DEF IInv, TypeOK
<1>3. named \ exposed \subseteq imap
  BY <1>1 DEF IInv, NamedMarked, LateOK
<1> QED BY <1>1, <1>2, <1>3, AtRest DEF IInv, NamesOK, FailedOK

(* A step of an operation that leaves the bitmap, the names and its record  *)
(* alone.                                                                   *)
LEMMA CountStep ==
  ASSUME IInv, TypeOK', UNCHANGED <<imap, named, op, failed, exposed>>,
         \/ pc \in {"bgd", "super"} /\ pc' \in {"super", "entry"}
         \/ pc \in {"rm_bgd", "rm_super"} /\ pc' \in {"rm_super", "rm_entry"}
  PROVE  IInv'
<1>1. NamedMarked' /\ AssertHolds' /\ FailedOK' /\ NamesOK'
  BY DEF IInv, NamedMarked, AssertHolds, FailedOK, NamesOK
<1>2. CreateOK' /\ RemoveOK' /\ WipedOK' /\ LateOK' /\ SeenFull'
  BY DEF IInv, CreateOK, RemoveOK, WipedOK, LateOK, SeenFull
<1> QED BY <1>1, <1>2 DEF IInv

LEMMA AllocBgdIInv ==
  ASSUME IInv, AllocBgd
  PROVE  IInv'
<1>1. /\ pc = "bgd" /\ pc' = "super"
      /\ bgd' = [bgd EXCEPT ![op.grp] = Described(bgd[op.grp])]
      /\ dirs' = IF op.isdir THEN dirs \cup {op.ino} ELSE dirs \ {op.ino}
      /\ home' = IF op.isdir THEN [home EXCEPT ![op.ino] = op.goal] ELSE home
      /\ UNCHANGED <<imap, dsb, named, sb, op, failed, exposed, crashes>>
  BY DEF AllocBgd
<1>2. op.ino \in Inodes /\ op.grp \in Groups /\ op.goal \in Groups
  BY <1>1 DEF IInv, TypeOK, CreateOK
<1>3. bgd[op.grp] \in Desc
  BY <1>2 DEF IInv, TypeOK
<1>4. Described(bgd[op.grp]) \in Desc
  <2>1. /\ Dec(bgd[op.grp].free, U16) \in 0 .. U16 - 1
        /\ Inc(bgd[op.grp].dirs, U16) \in 0 .. U16 - 1
    BY <1>3, Wraps DEF Desc
  <2> QED BY <1>3, <2>1 DEF Desc, Described
<1>5. bgd' \in [Groups -> Desc] /\ dirs' \subseteq Inodes /\ home' \in [Inodes -> Groups]
  BY <1>1, <1>2, <1>4 DEF IInv, TypeOK
<1>6. TypeOK'
  BY <1>1, <1>5 DEF IInv, TypeOK
<1> QED BY <1>1, <1>6, CountStep

LEMMA AllocSuperIInv ==
  ASSUME IInv, AllocSuper
  PROVE  IInv'
<1>1. /\ pc = "super" /\ pc' = "entry"
      /\ sb' = Dec(sb, U32) /\ dsb' = sb'
      /\ UNCHANGED <<imap, bgd, named, op, dirs, home, failed, exposed, crashes>>
  BY DEF AllocSuper, ghost
<1>2. sb' \in 0 .. U32 - 1
  BY <1>1, Wraps DEF IInv, TypeOK
<1>3. TypeOK'
  BY <1>1, <1>2 DEF IInv, TypeOK
<1> QED BY <1>1, <1>3, CountStep

LEMMA NameEntryIInv ==
  ASSUME IInv, NameEntry
  PROVE  IInv'
<1>1. /\ pc = "entry" /\ pc' = "idle" /\ op' = NoOp
      /\ named' = named \cup {op.ino}
      /\ UNCHANGED <<imap, bgd, dsb, sb, dirs, home, failed, exposed, crashes>>
  BY DEF NameEntry, ghost
<1>2. op.ino \in imap \ (Reserved \cup failed)
  BY <1>1 DEF IInv, CreateOK
<1>3. TypeOK'
  BY <1>1, <1>2, NoOpType DEF IInv, TypeOK
<1>4. named \ exposed \subseteq imap
  BY <1>1 DEF IInv, NamedMarked, LateOK
<1> QED BY <1>1, <1>2, <1>3, <1>4, AtRest DEF IInv, NamesOK, FailedOK

LEMMA NameFailsIInv ==
  ASSUME IInv, NameFails
  PROVE  IInv'
<1>1. /\ pc = "entry" /\ pc' = "idle" /\ op' = NoOp
      /\ failed' = failed \cup {op.ino}
      /\ UNCHANGED <<imap, bgd, dsb, named, sb, dirs, home, exposed, crashes>>
  BY DEF NameFails, disk
<1>2. op.ino \in imap \ (named \ exposed) /\ op.ino \in Inodes
  BY <1>1 DEF IInv, CreateOK, TypeOK
<1>3. TypeOK'
  BY <1>1, <1>2, NoOpType DEF IInv, TypeOK
<1>4. ~op.late /\ ~op'.late
  BY <1>1 DEF IInv, LateOK, NoOp
<1>5. NamedMarked' /\ AssertHolds' /\ FailedOK' /\ NamesOK'
  BY <1>1, <1>2, <1>4 DEF IInv, NamedMarked, AssertHolds, FailedOK, NamesOK
<1>6. CreateOK' /\ RemoveOK' /\ WipedOK' /\ LateOK' /\ SeenFull'
  BY <1>1, <1>4 DEF CreateOK, RemoveOK, WipedOK, LateOK, SeenFull
<1> QED BY <1>3, <1>5, <1>6 DEF IInv

LEMMA RemoveStartIInv ==
  ASSUME IInv, NEW ino \in Inodes, NEW late \in BOOLEAN, RemoveStart(ino, late)
  PROVE  IInv'
<1>1. /\ pc = "idle" /\ pc' = "rm_bitmap" /\ ino \in named \ (exposed \cup {Root})
      /\ named' = IF late THEN named ELSE named \ {ino}
      /\ op' = [NoOp EXCEPT !.ino = ino, !.isdir = ino \in dirs, !.late = late,
                            !.goal = home[ino], !.pbgd = bgd[home[ino]]]
      /\ UNCHANGED <<imap, bgd, dsb, sb, dirs, home, failed, exposed, crashes>>
  BY DEF RemoveStart, ghost
<1>2. ~op.late /\ named \ exposed \subseteq imap /\ Reserved \cup {Root} \subseteq imap
  BY <1>1 DEF IInv, NamedMarked, LateOK
<1>3. home[ino] \in Groups /\ bgd[home[ino]] \in Desc
  BY DEF IInv, TypeOK
<1>4. /\ op' \in [goal : Groups, grp : Groups, isdir : BOOLEAN, ino : Inodes \cup {0},
                  late : BOOLEAN, pbgd : Desc]
      /\ op'.ino = ino /\ op'.late = late
  <2>1. (ino \in dirs) \in BOOLEAN
    OBVIOUS
  <2> QED BY <1>1, <1>3, <2>1, NoOpType
<1>5. TypeOK'
  BY <1>1, <1>4 DEF IInv, TypeOK
<1>6. ino \in imap \ (Reserved \cup {Root} \cup failed)
  BY <1>1, <1>2 DEF IInv, NamesOK, FailedOK
<1>7. NamedMarked' /\ AssertHolds' /\ FailedOK' /\ NamesOK'
  BY <1>1, <1>2, <1>4 DEF IInv, NamedMarked, AssertHolds, FailedOK, NamesOK
<1>8. CreateOK' /\ RemoveOK' /\ WipedOK' /\ LateOK' /\ SeenFull'
  BY <1>1, <1>4, <1>6 DEF CreateOK, RemoveOK, WipedOK, LateOK, SeenFull
<1> QED BY <1>5, <1>7, <1>8 DEF IInv

LEMMA FreeBitmapIInv ==
  ASSUME IInv, FreeBitmap
  PROVE  IInv'
<1>1. pc = "rm_bitmap" /\ op.ino \in imap /\ op.ino \in Inodes
  BY DEF FreeBitmap, IInv, RemoveOK
<1>2. /\ imap' = imap \ {op.ino} /\ pc' = "rm_bgd"
      /\ UNCHANGED <<bgd, dsb, named, sb, op, dirs, home, failed, exposed, crashes>>
  BY <1>1, Freed DEF FreeBitmap, ghost
<1>3. /\ op.ino \notin Reserved \cup {Root} \cup failed
      /\ ~op.late => op.ino \notin named \ exposed
  BY <1>1 DEF IInv, RemoveOK
<1>4. TypeOK'
  BY <1>2 DEF IInv, TypeOK
<1>5. NamedMarked'
  BY <1>2, <1>3 DEF IInv, NamedMarked
<1>6. AssertHolds' /\ FailedOK' /\ NamesOK'
  BY <1>2, <1>3 DEF IInv, AssertHolds, FailedOK, NamesOK
<1>7. CreateOK' /\ RemoveOK' /\ WipedOK' /\ LateOK' /\ SeenFull'
  BY <1>1, <1>2, <1>3 DEF CreateOK, RemoveOK, WipedOK, LateOK, SeenFull
<1> QED BY <1>4, <1>5, <1>6, <1>7 DEF IInv

LEMMA FreeBgdIInv ==
  ASSUME IInv, FreeBgd
  PROVE  IInv'
<1>1. /\ pc = "rm_bgd" /\ pc' = "rm_super"
      /\ bgd' = [bgd EXCEPT ![group_of(op.ino)].free = Inc(bgd[group_of(op.ino)].free, U16)]
      /\ UNCHANGED <<imap, dsb, named, sb, op, dirs, home, failed, exposed, crashes>>
  BY DEF FreeBgd, ghost
<1>2. op.ino \in Inodes /\ group_of(op.ino) \in Groups
  BY <1>1, InodeRoundTrip DEF IInv, RemoveOK
<1>3. bgd[group_of(op.ino)] \in Desc
  BY <1>2 DEF IInv, TypeOK
<1>4. Inc(bgd[group_of(op.ino)].free, U16) \in 0 .. U16 - 1
  BY <1>3, Wraps DEF Desc
<1>5. bgd' \in [Groups -> Desc]
  <2>1. [bgd[group_of(op.ino)] EXCEPT !.free = Inc(bgd[group_of(op.ino)].free, U16)] \in Desc
    BY <1>3, <1>4 DEF Desc
  <2> QED BY <1>1, <1>2, <2>1 DEF IInv, TypeOK
<1>6. TypeOK'
  BY <1>1, <1>5 DEF IInv, TypeOK
<1> QED BY <1>1, <1>6, CountStep

LEMMA FreeSuperIInv ==
  ASSUME IInv, FreeSuper
  PROVE  IInv'
<1>1. /\ pc = "rm_super" /\ pc' = "rm_entry"
      /\ sb' = Inc(sb, U32) /\ dsb' = sb'
      /\ UNCHANGED <<imap, bgd, named, op, dirs, home, failed, exposed, crashes>>
  BY DEF FreeSuper, ghost
<1>2. sb' \in 0 .. U32 - 1
  BY <1>1, Wraps DEF IInv, TypeOK
<1>3. TypeOK'
  BY <1>1, <1>2 DEF IInv, TypeOK
<1> QED BY <1>1, <1>3, CountStep

LEMMA WipeEntryIInv ==
  ASSUME IInv, WipeEntry
  PROVE  IInv'
<1>1. /\ pc = "rm_entry" /\ named' = named \ {op.ino}
      /\ \/ pc' = "rm_dirs" /\ op' = [op EXCEPT !.pbgd = Reread]
         \/ pc' = "idle" /\ op' = NoOp
      /\ UNCHANGED <<imap, bgd, dsb, sb, dirs, home, failed, exposed, crashes>>
  BY DEF WipeEntry, ghost
<1>2. op.goal \in Groups /\ Reread \in Desc
  BY DEF IInv, TypeOK, Reread
<1>3. TypeOK'
  BY <1>1, <1>2, NoOpType DEF IInv, TypeOK
<1>4. named' \ exposed \subseteq imap
  BY <1>1 DEF IInv, NamedMarked
<1>5. CASE pc' = "idle" /\ op' = NoOp
  BY <1>1, <1>3, <1>4, <1>5, AtRest DEF IInv, NamesOK, FailedOK
<1>6. CASE pc' = "rm_dirs" /\ op' = [op EXCEPT !.pbgd = Reread]
  <2>1. op'.ino = op.ino /\ op'.late = op.late
    BY <1>6 DEF IInv, TypeOK
  <2>2. NamedMarked' /\ AssertHolds' /\ FailedOK' /\ NamesOK'
    BY <1>1, <1>4, <1>6 DEF IInv, NamedMarked, AssertHolds, FailedOK, NamesOK
  <2>3. RemoveOK'
    BY <1>1, <1>6, <2>1 DEF IInv, RemoveOK
  <2>4. CreateOK' /\ WipedOK' /\ LateOK' /\ SeenFull'
    BY <1>1, <1>6, <2>1 DEF CreateOK, WipedOK, LateOK, SeenFull
  <2> QED BY <1>3, <2>2, <2>3, <2>4 DEF IInv
<1> QED BY <1>1, <1>5, <1>6

LEMMA UncountDirIInv ==
  ASSUME IInv, UncountDir
  PROVE  IInv'
<1>1. /\ pc = "rm_dirs" /\ pc' = "idle" /\ op' = NoOp
      /\ bgd' = [bgd EXCEPT ![op.goal] = [op.pbgd EXCEPT !.dirs = Dec(op.pbgd.dirs, U16)]]
      /\ dirs' = dirs \ {op.ino}
      /\ home' = [home EXCEPT ![op.ino] = group_of(Root)]
      /\ UNCHANGED <<imap, dsb, named, sb, failed, exposed, crashes>>
  BY DEF UncountDir
<1>2. op.goal \in Groups /\ op.pbgd \in Desc
  BY DEF IInv, TypeOK
<1>3. [op.pbgd EXCEPT !.dirs = Dec(op.pbgd.dirs, U16)] \in Desc
  <2>1. Dec(op.pbgd.dirs, U16) \in 0 .. U16 - 1
    BY <1>2, Wraps DEF Desc
  <2> QED BY <1>2, <2>1 DEF Desc
<1>4. bgd' \in [Groups -> Desc] /\ home' \in [Inodes -> Groups]
  BY <1>1, <1>2, <1>3, RootGroup DEF IInv, TypeOK
<1>5. TypeOK'
  BY <1>1, <1>4, NoOpType DEF IInv, TypeOK
<1>6. named \ exposed \subseteq imap
  <2>1. op.ino \in named \ exposed => op.ino \in imap
    BY <1>1 DEF IInv, WipedOK
  <2> QED BY <2>1 DEF IInv, NamedMarked
<1> QED BY <1>1, <1>5, <1>6, AtRest DEF IInv, NamesOK, FailedOK

LEMMA CrashIInv ==
  ASSUME IInv, Crash
  PROVE  IInv'
<1>1. /\ crashes < MaxCrashes /\ crashes' = crashes + 1
      /\ sb' = dsb /\ pc' = "idle" /\ op' = NoOp
      /\ exposed' = IF op.late THEN exposed \cup ({op.ino} \cap named) ELSE exposed
      /\ UNCHANGED <<imap, bgd, dsb, named, dirs, home, failed>>
  BY DEF Crash, disk
<1>2. crashes' \in 0 .. MaxCrashes
  BY <1>1, InodeAssumption, SMT DEF IInv, TypeOK
<1>3. TypeOK'
  BY <1>1, <1>2, NoOpType DEF IInv, TypeOK
<1>4. named \ exposed' \subseteq imap
  BY <1>1 DEF IInv, NamedMarked
<1> QED BY <1>1, <1>3, <1>4, AtRest DEF IInv, NamesOK, FailedOK

LEMMA StutterIInv ==
  ASSUME IInv, UNCHANGED vars
  PROVE  IInv'
<1>1. UNCHANGED <<imap, bgd, dsb, named, sb, pc, op, dirs, home, failed, exposed, crashes>>
  BY DEF vars, disk, ghost
<1>2. TypeOK'
  BY <1>1 DEF IInv, TypeOK
<1>3. NamedMarked' /\ AssertHolds' /\ FailedOK' /\ NamesOK'
  BY <1>1 DEF IInv, NamedMarked, AssertHolds, FailedOK, NamesOK
<1>4. CreateOK' /\ RemoveOK' /\ WipedOK' /\ LateOK'
  BY <1>1 DEF IInv, CreateOK, RemoveOK, WipedOK, LateOK
<1>5. SeenFull'
  BY <1>1 DEF IInv, SeenFull, Seen, Free
<1> QED BY <1>2, <1>3, <1>4, <1>5 DEF IInv

(* Every step keeps the invariant.                                          *)
LEMMA StepIInv == IInv /\ [Next]_vars => IInv'
<1> SUFFICES ASSUME IInv, [Next]_vars PROVE IInv'
  OBVIOUS
<1>1. ASSUME NEW d \in Inodes, NEW isdir \in BOOLEAN, CreateStart(d, isdir)
      PROVE  IInv'
  BY <1>1, CreateStartIInv
<1>2. ASSUME NEW ino \in Inodes, NEW late \in BOOLEAN, RemoveStart(ino, late)
      PROVE  IInv'
  BY <1>2, RemoveStartIInv
<1>3. CASE Step
  BY <1>3, ScanHitIInv, ScanNextIInv, ScanFailIInv, AllocBgdIInv, AllocSuperIInv,
     NameEntryIInv, NameFailsIInv, FreeBitmapIInv, FreeBgdIInv, FreeSuperIInv,
     WipeEntryIInv, UncountDirIInv DEF Step
<1>4. CASE Crash \/ UNCHANGED vars
  BY <1>4, CrashIInv, StutterIInv
<1> QED BY <1>1, <1>2, <1>3, <1>4 DEF Next

LEMMA SpecIInv == Spec => []IInv
BY InitIInv, StepIInv, PTL DEF Spec

-----------------------------------------------------------------------------
(* Counters, bitmap and the record of the operation keep their types; the   *)
(* descriptor written back by delete_directory is a descriptor.             *)
THEOREM InodeTypeCorrect == Spec => []TypeOK
<1>1. IInv => TypeOK
  BY DEF IInv
<1> QED BY <1>1, SpecIInv, PTL

(* A named inode stays marked in the bitmap, wherever the program is killed *)
(* but within a late removal.                                               *)
THEOREM NamedStaysMarked == Spec => []NamedMarked
<1>1. IInv => NamedMarked
  BY DEF IInv
<1> QED BY <1>1, SpecIInv, PTL

(* The ASSERT of deallocate_inode never fails, crashes or not.              *)
THEOREM InodeAssertHolds == Spec => []AssertHolds
<1>1. IInv => AssertHolds
  BY DEF IInv
<1> QED BY <1>1, SpecIInv, PTL

(* The scan step is the only one from "scan" to "bgd".                      *)
LEMMA OnlyScanHit ==
  ASSUME Next, pc = "scan", pc' = "bgd"
  PROVE  ScanHit
BY DEF Next, Step, CreateStart, RemoveStart, ScanNext, ScanFail, AllocBgd, AllocSuper,
       NameEntry, NameFails, FreeBitmap, FreeBgd, FreeSuper, WipeEntry, UncountDir, Crash

(* No inode is handed out twice.                                            *)
THEOREM NoInodeTwice == Spec => FreshInode
<1> DEFINE Fresh == pc = "scan" /\ pc' = "bgd" =>
              op'.ino \in Inodes \ (Reserved \cup {Root} \cup failed \cup (named \ exposed))
<1>1. IInv /\ [Next]_vars => [Fresh]_vars
  <2> SUFFICES ASSUME IInv, Next, pc = "scan", pc' = "bgd"
               PROVE  op'.ino \in Inodes \ (Reserved \cup {Root} \cup failed
                                              \cup (named \ exposed))
    BY DEF Fresh
  <2>1. PICK ino \in Inodes \ imap : op' = [op EXCEPT !.ino = ino]
    BY OnlyScanHit, ScanHitTakes
  <2>2. op'.ino = ino
    BY <2>1 DEF IInv, TypeOK
  <2>3. Reserved \cup {Root} \cup failed \cup (named \ exposed) \subseteq imap
    BY DEF IInv, NamedMarked, LateOK, FailedOK
  <2> QED BY <2>1, <2>2, <2>3
<1> QED BY <1>1, SpecIInv, PTL DEF Spec, FreshInode

LEMMA OnlyScanFail ==
  ASSUME TypeOK, Next, pc = "scan", pc' = "idle", crashes' = crashes
  PROVE  ScanFail
<1>1. ~Crash
  BY SMT DEF Crash, TypeOK
<1> QED BY <1>1 DEF Next, Step, CreateStart, RemoveStart, ScanNext, ScanHit, AllocBgd,
       AllocSuper, NameEntry, NameFails, FreeBitmap, FreeBgd, FreeSuper, WipeEntry, UncountDir

(* The search for an inode leaves no group out: it fails only when every    *)
(* inode of the volume is taken.                                            *)
THEOREM SearchComplete == Spec => FailsOnlyWhenFull
<1> DEFINE Full == pc = "scan" /\ pc' = "idle" /\ crashes' = crashes => imap = Inodes
<1>1. IInv /\ [Next]_vars => [Full]_vars
  <2> SUFFICES ASSUME IInv, Next, pc = "scan", pc' = "idle", crashes' = crashes
               PROVE  imap = Inodes
    BY DEF Full
  <2>1. ScanFail
    BY OnlyScanFail DEF IInv
  <2>2. /\ Free(op.grp) = {} /\ NextGroup(op.grp) = op.goal
        /\ op.grp \in Groups /\ op.goal \in Groups
    BY <2>1 DEF ScanFail, Wrapped, IInv, TypeOK
  <2>3. ASSUME NEW g \in Groups PROVE Free(g) = {}
    <3>1. g = op.grp \/ Seen(g)
      BY <2>2, SeenAll DEF Seen
    <3> QED BY <2>2, <3>1 DEF IInv, SeenFull
  <2>4. ASSUME NEW ino \in Inodes PROVE ino \in imap
    <3>1. group_of(ino) \in Groups
      BY InodeRoundTrip
    <3> QED BY <2>3, <3>1 DEF Free, InodesOf
  <2> QED BY <2>4 DEF IInv, TypeOK
<1> QED BY <1>1, SpecIInv, PTL DEF Spec, FailsOnlyWhenFull
-----------------------------------------------------------------------------
(* What a crash costs.  While an operation is in progress the counts are    *)
(* compared with the bitmap as if both were written together, the inode of  *)
(* the operation is no orphan, and its directory is not stale.              *)
Removing == pc \in {"rm_bitmap", "rm_bgd", "rm_super", "rm_entry", "rm_dirs"}

Uncounted == IF pc \in {"bgd", "super"} THEN 1
             ELSE IF pc \in {"rm_bgd", "rm_super"} THEN 0 - 1 ELSE 0

UncountedIn(g) == IF g # group_of(op.ino) THEN 0
                  ELSE IF pc = "bgd" THEN 1 ELSE IF pc = "rm_bgd" THEN 0 - 1 ELSE 0

FreeIn(M, g) == Cardinality(InodesOf(g) \ M)

Orphans == imap \ (Reserved \cup named \cup failed)

(* The directories that are counted and whose inode a crash left free: when *)
(* it is handed out again the count stays behind for good.                  *)
Stale == (dirs \ (imap \cup (IF Removing THEN {op.ino} ELSE {})))
           \cup (IF pc = "bgd" THEN dirs \cap {op.ino} ELSE {})

CountsNear ==
  /\ dsb = sb
  /\ Near(sb, Cardinality(Inodes \ imap) + Uncounted, U32, crashes)
  /\ \A g \in Groups : Near(bgd[g].free, FreeIn(imap, g) + UncountedIn(g), U16, crashes)

DirsNear ==
  \E k \in Nat : /\ k + Cardinality(Stale) <= crashes
                 /\ Near(SumDirs, Cardinality(dirs), U16, k)

FewOrphans == Cardinality(Orphans \ {op.ino}) <= crashes

(* What the writes rely on: the group of the inode, the directory bit, and  *)
(* that the parent's descriptor has been read again.                        *)
Stages ==
  /\ pc \in {"idle", "scan"} => op.ino = 0
  /\ pc = "bgd" => group_of(op.ino) = op.grp
  /\ pc = "rm_dirs" => op.pbgd = bgd[op.goal] /\ op.isdir
  /\ Removing => /\ op.isdir <=> op.ino \in dirs
                 /\ pc # "rm_bitmap" => op.ino \notin imap

Drift == CountsNear /\ DirsNear /\ FewOrphans /\ Stages

LEMMA InodeSets ==
  /\ IsFiniteSet(Inodes) /\ U16 \in Nat \ {0} /\ U32 \in Nat \ {0}
  /\ \A S \in SUBSET Inodes : IsFiniteSet(S) /\ Cardinality(S) \in Nat
  /\ \A M : \A g : IsFiniteSet(InodesOf(g) \ M) /\ FreeIn(M, g) \in Nat
<1>1. NumGroups * InodesPerGroup \in Nat
  BY InodeAssumption, SMT
<1>2. IsFiniteSet(Inodes)
  BY <1>1, FS_Interval DEF Inodes
<1>3. U16 \in Nat \ {0} /\ U32 \in Nat \ {0}
  BY InodeAssumption, U32Assumption, SMT
<1>4. \A S \in SUBSET Inodes : IsFiniteSet(S) /\ Cardinality(S) \in Nat
  BY <1>2, FS_Subset, FS_CardinalityType
<1>5. \A M : \A g : (InodesOf(g) \ M) \in SUBSET Inodes
  BY DEF InodesOf
<1>6. \A M : \A g : IsFiniteSet(InodesOf(g) \ M) /\ FreeIn(M, g) \in Nat
  BY <1>4, <1>5 DEF FreeIn
<1> QED BY <1>2, <1>3, <1>4, <1>6

(* An inode more is marked.                                                 *)
LEMMA OneInodeMore ==
  ASSUME NEW M \in SUBSET Inodes, NEW N \in SUBSET Inodes, NEW ino \in Inodes \ M,
         N = M \cup {ino}
  PROVE  /\ Cardinality(Inodes \ M) = Cardinality(Inodes \ N) + 1
         /\ \A g \in Groups : FreeIn(M, g) = FreeIn(N, g) + (IF g = group_of(ino) THEN 1 ELSE 0)
<1>1. Cardinality(Inodes \ M) = Cardinality(Inodes \ N) + 1
  <2>1. Inodes \ M = (Inodes \ N) \cup {ino} /\ ino \notin Inodes \ N
    OBVIOUS
  <2>2. IsFiniteSet(Inodes \ N)
    BY InodeSets
  <2> QED BY <2>1, <2>2, FS_AddElement
<1>2. ASSUME NEW g \in Groups
      PROVE  FreeIn(M, g) = FreeIn(N, g) + (IF g = group_of(ino) THEN 1 ELSE 0)
  <2>1. IsFiniteSet(InodesOf(g) \ N) /\ FreeIn(N, g) \in Nat
    BY InodeSets
  <2>2. CASE g = group_of(ino)
    <3>1. InodesOf(g) \ M = (InodesOf(g) \ N) \cup {ino} /\ ino \notin InodesOf(g) \ N
      BY <2>2 DEF InodesOf
    <3> QED BY <2>1, <2>2, <3>1, FS_AddElement DEF FreeIn
  <2>3. CASE g # group_of(ino)
    <3>1. InodesOf(g) \ M = InodesOf(g) \ N
      BY <2>3 DEF InodesOf
    <3>2. FreeIn(M, g) = FreeIn(N, g)
      BY <3>1 DEF FreeIn
    <3> QED BY <2>1, <2>3, <3>2
  <2> QED BY <2>2, <2>3
<1> QED BY <1>1, <1>2

LEMMA Numbers ==
  ASSUME TypeOK
  PROVE  /\ sb \in Int /\ Cardinality(Inodes \ imap) \in Int /\ Uncounted \in Int
         /\ crashes \in Nat
         /\ \A g \in Groups : /\ bgd[g] \in Desc
                              /\ bgd[g].free \in Int /\ bgd[g].dirs \in Nat
                              /\ FreeIn(imap, g) \in Int /\ UncountedIn(g) \in Int
<1>1. Cardinality(Inodes \ imap) \in Int
  BY InodeSets
<1>2. sb \in Int /\ crashes \in Nat /\ Uncounted \in Int
  BY InodeSets, InodeAssumption, SMT DEF TypeOK, Uncounted
<1>3. ASSUME NEW g \in Groups
      PROVE  /\ bgd[g] \in Desc /\ bgd[g].free \in Int /\ bgd[g].dirs \in Nat
             /\ FreeIn(imap, g) \in Int /\ UncountedIn(g) \in Int
  <2>1. bgd[g] \in Desc /\ FreeIn(imap, g) \in Nat
    BY InodeSets DEF TypeOK
  <2>2. bgd[g].free \in 0 .. U16 - 1 /\ bgd[g].dirs \in 0 .. U16 - 1
    BY <2>1 DEF Desc
  <2>3. bgd[g].free \in Int /\ bgd[g].dirs \in Nat
    BY <2>2, InodeSets, SMT
  <2>4. UncountedIn(g) \in Int
    BY SMT DEF UncountedIn
  <2> QED BY <2>1, <2>3, <2>4
<1> QED BY <1>1, <1>2, <1>3

(* The same after a step.                                                   *)
LEMMA NumbersNext ==
  ASSUME TypeOK'
  PROVE  /\ sb' \in Int /\ Cardinality(Inodes \ imap') \in Int /\ Uncounted' \in Int
         /\ \A g \in Groups : /\ bgd'[g] \in Desc
                              /\ bgd'[g].free \in Int /\ bgd'[g].dirs \in Nat
                              /\ FreeIn(imap', g) \in Int /\ UncountedIn(g)' \in Int
<1>1. Cardinality(Inodes \ imap') \in Int
  BY InodeSets
<1>2. sb' \in Int /\ Uncounted' \in Int
  BY InodeSets, SMT DEF TypeOK, Uncounted
<1>3. ASSUME NEW g \in Groups
      PROVE  /\ bgd'[g] \in Desc /\ bgd'[g].free \in Int /\ bgd'[g].dirs \in Nat
             /\ FreeIn(imap', g) \in Int /\ UncountedIn(g)' \in Int
  <2>1. bgd'[g] \in Desc /\ FreeIn(imap', g) \in Nat
    BY InodeSets DEF TypeOK
  <2>2. bgd'[g].free \in 0 .. U16 - 1 /\ bgd'[g].dirs \in 0 .. U16 - 1
    BY <2>1 DEF Desc
  <2>3. bgd'[g].free \in Int /\ bgd'[g].dirs \in Nat
    BY <2>2, InodeSets, SMT
  <2>4. UncountedIn(g)' \in Int
    BY SMT DEF UncountedIn
  <2> QED BY <2>1, <2>3, <2>4
<1> QED BY <1>1, <1>2, <1>3

(* How much the counts and their true values may move in a step.            *)
Moves(a, c, w) == a = c \/ a = c + w \/ a = c - w

LEMMA CountsMove ==
  ASSUME TypeOK, TypeOK', CountsNear, dsb' = sb', crashes' = crashes,
         Moves(sb' - sb, (Cardinality(Inodes \ imap') + Uncounted')
                           - (Cardinality(Inodes \ imap) + Uncounted), U32),
         \A g \in Groups : Moves(bgd'[g].free - bgd[g].free,
                                 (FreeIn(imap', g) + UncountedIn(g)')
                                   - (FreeIn(imap, g) + UncountedIn(g)), U16)
  PROVE  CountsNear'
<1> DEFINE c == Cardinality(Inodes \ imap) + Uncounted
           e == Cardinality(Inodes \ imap') + Uncounted'
<1>1. /\ c \in Int /\ e \in Int /\ sb \in Int /\ sb' \in Int
      /\ crashes \in Nat /\ U32 \in Nat \ {0}
  BY Numbers, NumbersNext, InodeSets
<1>2. Near(sb, c, U32, crashes)
  BY DEF CountsNear
<1>3. Moves(sb' - sb, e - c, U32)
  OBVIOUS
<1>4. Near(sb', e, U32, crashes)
  <2> HIDE DEF c, e
  <2> QED BY <1>1, <1>2, <1>3, NearTogether DEF Moves
<1>5. ASSUME NEW g \in Groups
      PROVE  Near(bgd'[g].free, FreeIn(imap', g) + UncountedIn(g)', U16, crashes)
  <2> DEFINE x == FreeIn(imap, g) + UncountedIn(g)
             y == FreeIn(imap', g) + UncountedIn(g)'
  <2>1. /\ x \in Int /\ y \in Int /\ bgd[g].free \in Int /\ bgd'[g].free \in Int
        /\ U16 \in Nat \ {0}
    <3>1. FreeIn(imap, g) \in Int /\ UncountedIn(g) \in Int /\ bgd[g].free \in Int
      BY Numbers
    <3>2. FreeIn(imap', g) \in Int /\ UncountedIn(g)' \in Int /\ bgd'[g].free \in Int
      BY NumbersNext
    <3> QED BY <3>1, <3>2, InodeSets
  <2>2. Near(bgd[g].free, x, U16, crashes)
    BY DEF CountsNear
  <2>3. Moves(bgd'[g].free - bgd[g].free, y - x, U16)
    OBVIOUS
  <2> HIDE DEF x, y
  <2>4. Near(bgd'[g].free, y, U16, crashes)
    BY <1>1, <2>1, <2>2, <2>3, NearTogether DEF Moves
  <2> QED BY <2>4 DEF y
<1> QED BY <1>4, <1>5 DEF CountsNear, FreeIn

(* Bitmap and counts stay.                                                  *)
LEMMA CountsQuiet ==
  ASSUME CountsNear, UNCHANGED <<imap, bgd, sb, dsb, crashes>>, Uncounted' = Uncounted,
         \A g \in Groups : UncountedIn(g)' = UncountedIn(g)
  PROVE  CountsNear'
BY DEF CountsNear, FreeIn

(* No directory is counted or uncounted, and none gets stale.               *)
LEMMA DirsQuiet ==
  ASSUME DirsNear, TypeOK, crashes' = crashes, dirs' = dirs,
         \A g \in Groups : bgd'[g].dirs = bgd[g].dirs, Stale' \subseteq Stale
  PROVE  DirsNear'
<1>1. PICK k \in Nat : /\ k + Cardinality(Stale) <= crashes
                       /\ Near(SumDirs, Cardinality(dirs), U16, k)
  BY DEF DirsNear
<1>2. Stale \in SUBSET Inodes
  BY DEF Stale, TypeOK
<1>3. /\ Cardinality(Stale') <= Cardinality(Stale)
      /\ Cardinality(Stale) \in Nat /\ Cardinality(Stale') \in Nat
  <2>1. IsFiniteSet(Stale) /\ Stale' \in SUBSET Inodes
    BY <1>2, InodeSets
  <2> QED BY <1>2, <2>1, InodeSets, FS_Subset
<1>4. k + Cardinality(Stale') <= crashes
  BY <1>1, <1>3, Numbers, SMT
<1>5. SumDirs' = SumDirs
  BY DEF SumDirs
<1>6. Near(SumDirs', Cardinality(dirs'), U16, k)
  BY <1>1, <1>5
<1> QED BY <1>4, <1>6 DEF DirsNear

LEMMA OrphansQuiet ==
  ASSUME FewOrphans, TypeOK, crashes' = crashes,
         Orphans' \ {op'.ino} \subseteq Orphans \ {op.ino}
  PROVE  FewOrphans'
<1>1. Orphans \ {op.ino} \in SUBSET Inodes
  BY DEF Orphans, TypeOK
<1>2. /\ Cardinality(Orphans' \ {op'.ino}) <= Cardinality(Orphans \ {op.ino})
      /\ Cardinality(Orphans \ {op.ino}) \in Nat /\ Cardinality(Orphans' \ {op'.ino}) \in Nat
  <2>1. IsFiniteSet(Orphans \ {op.ino}) /\ Orphans' \ {op'.ino} \in SUBSET Inodes
    BY <1>1, InodeSets
  <2> QED BY <1>1, <2>1, InodeSets, FS_Subset
<1> QED BY <1>2, Numbers, SMT DEF FewOrphans

-----------------------------------------------------------------------------
(* The steps that write neither bitmap nor counts: the search, the names,   *)
(* and the beginning of an operation.                                       *)
LEMMA CreateStartDrift ==
  ASSUME IInv, Drift, NEW d \in Inodes, NEW isdir \in BOOLEAN, CreateStart(d, isdir)
  PROVE  Drift'
<1>1. /\ pc = "idle" /\ pc' = "scan"
      /\ op' = [NoOp EXCEPT !.goal = group_of(d), !.grp = group_of(d), !.isdir = isdir]
      /\ UNCHANGED <<imap, bgd, dsb, named, sb, dirs, home, failed, exposed, crashes>>
  BY DEF CreateStart, disk, ghost
<1>2. TypeOK /\ op'.ino = 0 /\ op.ino = 0
  BY <1>1 DEF IInv, NoOp, Drift, Stages
<1>3. CountsNear'
  BY <1>1, CountsQuiet DEF Drift, Uncounted, UncountedIn
<1>4. DirsNear'
  <2>1. Stale' \subseteq Stale
    BY <1>1 DEF Stale, Removing
  <2> QED BY <1>1, <1>2, <2>1, DirsQuiet DEF Drift
<1>5. FewOrphans'
  BY <1>1, <1>2, OrphansQuiet DEF Drift, Orphans
<1>6. Stages'
  BY <1>1, <1>2 DEF Stages, Removing
<1> QED BY <1>3, <1>4, <1>5, <1>6 DEF Drift

LEMMA RemoveStartDrift ==
  ASSUME IInv, Drift, NEW ino \in Inodes, NEW late \in BOOLEAN, RemoveStart(ino, late)
  PROVE  Drift'
<1>1. /\ pc = "idle" /\ pc' = "rm_bitmap"
      /\ named' = IF late THEN named ELSE named \ {ino}
      /\ op' = [NoOp EXCEPT !.ino = ino, !.isdir = ino \in dirs, !.late = late,
                            !.goal = home[ino], !.pbgd = bgd[home[ino]]]
      /\ UNCHANGED <<imap, bgd, dsb, sb, dirs, home, failed, exposed, crashes>>
  BY DEF RemoveStart, ghost
<1>2. TypeOK /\ op'.ino = ino /\ (op'.isdir <=> ino \in dirs) /\ op.ino = 0
  BY <1>1 DEF IInv, NoOp, Drift, Stages
<1>3. CountsNear'
  BY <1>1, CountsQuiet DEF Drift, Uncounted, UncountedIn
<1>4. DirsNear'
  <2>1. Stale' \subseteq Stale
    BY <1>1, <1>2 DEF Stale, Removing
  <2> QED BY <1>1, <1>2, <2>1, DirsQuiet DEF Drift
<1>5. FewOrphans'
  <2>1. 0 \notin imap
    BY <1>2, InodeAssumption, SMT DEF TypeOK, Inodes
  <2>2. Orphans' \ {op'.ino} \subseteq Orphans \ {op.ino}
    BY <1>1, <1>2, <2>1 DEF Orphans
  <2> QED BY <1>1, <1>2, <2>2, OrphansQuiet DEF Drift
<1>6. Stages'
  BY <1>1, <1>2 DEF Stages, Removing
<1> QED BY <1>3, <1>4, <1>5, <1>6 DEF Drift

LEMMA ScanDrift ==
  ASSUME IInv, Drift, ScanNext \/ ScanFail
  PROVE  Drift'
<1>1. /\ pc = "scan" /\ pc' \in {"scan", "idle"} /\ op'.ino = op.ino
      /\ UNCHANGED <<imap, bgd, dsb, named, sb, dirs, home, failed, exposed, crashes>>
  <2>1. CASE ScanNext
    BY <2>1 DEF ScanNext, disk, ghost, IInv, TypeOK
  <2>2. CASE ScanFail
    BY <2>2 DEF ScanFail, disk, ghost, Drift, Stages, NoOp
  <2> QED BY <2>1, <2>2
<1>2. TypeOK /\ op.ino = 0
  BY <1>1 DEF IInv, Drift, Stages
<1>3. CountsNear'
  BY <1>1, CountsQuiet DEF Drift, Uncounted, UncountedIn
<1>4. DirsNear'
  <2>1. Stale' \subseteq Stale
    BY <1>1 DEF Stale, Removing
  <2> QED BY <1>1, <1>2, <2>1, DirsQuiet DEF Drift
<1>5. FewOrphans'
  BY <1>1, <1>2, OrphansQuiet DEF Drift, Orphans
<1>6. Stages'
  BY <1>1, <1>2 DEF Stages, Removing
<1> QED BY <1>3, <1>4, <1>5, <1>6 DEF Drift

LEMMA NameDrift ==
  ASSUME IInv, Drift, NameEntry \/ NameFails
  PROVE  Drift'
<1>1. /\ pc = "entry" /\ pc' = "idle" /\ op' = NoOp
      /\ \/ named' = named \cup {op.ino} /\ failed' = failed
         \/ failed' = failed \cup {op.ino} /\ named' = named
      /\ UNCHANGED <<imap, bgd, dsb, sb, dirs, home, exposed, crashes>>
  BY DEF NameEntry, NameFails, disk, ghost
<1>2. TypeOK /\ op'.ino = 0
  BY <1>1 DEF IInv, NoOp
<1>3. CountsNear'
  BY <1>1, CountsQuiet DEF Drift, Uncounted, UncountedIn
<1>4. DirsNear'
  <2>1. Stale' \subseteq Stale
    BY <1>1 DEF Stale, Removing
  <2> QED BY <1>1, <1>2, <2>1, DirsQuiet DEF Drift
<1>5. FewOrphans'
  <2>1. Orphans' \ {op'.ino} \subseteq Orphans \ {op.ino}
    BY <1>1 DEF Orphans
  <2> QED BY <1>1, <1>2, <2>1, OrphansQuiet DEF Drift
<1>6. Stages'
  BY <1>1, <1>2 DEF Stages, Removing
<1> QED BY <1>3, <1>4, <1>5, <1>6 DEF Drift

LEMMA WipeEntryDrift ==
  ASSUME IInv, Drift, WipeEntry
  PROVE  Drift'
<1>1. /\ pc = "rm_entry" /\ named' = named \ {op.ino}
      /\ IF op.isdir THEN pc' = "rm_dirs" /\ op' = [op EXCEPT !.pbgd = bgd[op.goal]]
                     ELSE pc' = "idle" /\ op' = NoOp
      /\ UNCHANGED <<imap, bgd, dsb, sb, dirs, home, failed, exposed, crashes>>
  BY DEF WipeEntry, ghost, Reread
<1>2. TypeOK /\ (op.isdir <=> op.ino \in dirs) /\ op.ino \notin imap
  BY <1>1 DEF IInv, Drift, Stages, Removing
<1>3. op.isdir => /\ op'.ino = op.ino /\ op'.goal = op.goal /\ op'.isdir
                  /\ op'.pbgd = bgd[op.goal]
  BY <1>1, <1>2 DEF TypeOK
<1>4. ~op.isdir => op'.ino = 0
  BY <1>1 DEF NoOp
<1>5. CountsNear'
  <2>1. Uncounted' = Uncounted /\ \A g \in Groups : UncountedIn(g)' = UncountedIn(g)
    BY <1>1 DEF Uncounted, UncountedIn
  <2> QED BY <1>1, <2>1, CountsQuiet DEF Drift
<1>6. DirsNear'
  <2>1. Stale' \subseteq Stale
    <3>1. CASE op.isdir
      BY <1>1, <1>3, <3>1 DEF Stale, Removing
    <3>2. CASE ~op.isdir
      BY <1>1, <1>2, <3>2 DEF Stale, Removing
    <3> QED BY <3>1, <3>2
  <2> QED BY <1>1, <1>2, <2>1, DirsQuiet DEF Drift
<1>7. FewOrphans'
  <2>1. Orphans' \ {op'.ino} \subseteq Orphans \ {op.ino}
    BY <1>1, <1>2 DEF Orphans
  <2> QED BY <1>1, <1>2, <2>1, OrphansQuiet DEF Drift
<1>8. Stages'
  <2>1. CASE op.isdir
    BY <1>1, <1>2, <1>3, <2>1 DEF Stages, Removing
  <2>2. CASE ~op.isdir
    BY <1>1, <1>4, <2>2 DEF Stages, Removing
  <2> QED BY <2>1, <2>2
<1> QED BY <1>5, <1>6, <1>7, <1>8 DEF Drift

LEMMA StutterDrift ==
  ASSUME Drift, UNCHANGED vars
  PROVE  Drift'
<1>1. UNCHANGED <<imap, bgd, dsb, named, sb, pc, op, dirs, home, failed, exposed, crashes>>
  BY DEF vars, disk, ghost
<1>2. CountsNear'
  BY <1>1, CountsQuiet DEF Drift, Uncounted, UncountedIn
<1>3. DirsNear'
  BY <1>1 DEF Drift, DirsNear, Stale, Removing, SumDirs
<1>4. FewOrphans'
  BY <1>1 DEF Drift, FewOrphans, Orphans
<1>5. Stages'
  BY <1>1 DEF Drift, Stages, Removing
<1> QED BY <1>2, <1>3, <1>4, <1>5 DEF Drift

-----------------------------------------------------------------------------
(* The bitmap is written: the counts are behind until they follow.          *)
LEMMA ScanHitDrift ==
  ASSUME IInv, IInv', Drift, ScanHit
  PROVE  Drift'
<1>1. /\ pc = "scan" /\ pc' = "bgd"
      /\ UNCHANGED <<bgd, dsb, named, sb, dirs, home, failed, exposed, crashes>>
  BY DEF ScanHit, ghost
<1>2. PICK ino \in Inodes \ imap :
         /\ op' = [op EXCEPT !.ino = ino] /\ imap' = imap \cup {ino}
         /\ group_of(ino) = op.grp
  <2>1. PICK ino \in Inodes :
           /\ Takes(ino)
           /\ op' = [op EXCEPT !.ino = get_first_inode_index_in_block_group(op.grp)
                                         + local_index(ino)]
           /\ imap' = imap \cup {ino}
    BY DEF ScanHit
  <2>2. ino \notin imap /\ group_of(ino) = op.grp
    BY <2>1 DEF Takes, Free, InodesOf
  <2> QED BY <2>1, <2>2, InodeRoundTrip
<1>3. /\ TypeOK /\ TypeOK' /\ op.ino = 0 /\ op'.ino = ino /\ op'.grp = op.grp
      /\ imap \in SUBSET Inodes /\ imap' \in SUBSET Inodes
  BY <1>1, <1>2 DEF IInv, TypeOK, Drift, Stages
<1>4. /\ Cardinality(Inodes \ imap) = Cardinality(Inodes \ imap') + 1
      /\ \A g \in Groups : FreeIn(imap, g) = FreeIn(imap', g)
                                               + (IF g = group_of(ino) THEN 1 ELSE 0)
  BY <1>2, <1>3, OneInodeMore
<1>5. Uncounted = 0 /\ Uncounted' = 1
  BY <1>1 DEF Uncounted
<1>6. \A g : UncountedIn(g) = 0 /\ UncountedIn(g)' = IF g = group_of(ino) THEN 1 ELSE 0
  BY <1>1, <1>3 DEF UncountedIn, group_of
<1>7. CountsNear'
  <2>1. dsb' = sb'
    BY <1>1 DEF Drift, CountsNear
  <2>2. Moves(sb' - sb, (Cardinality(Inodes \ imap') + Uncounted')
                          - (Cardinality(Inodes \ imap) + Uncounted), U32)
    <3>1. sb \in Int /\ Cardinality(Inodes \ imap') \in Int
      BY <1>3, Numbers, NumbersNext
    <3> QED BY <1>1, <1>4, <1>5, <3>1, SMT DEF Moves
  <2>3. ASSUME NEW g \in Groups
        PROVE  Moves(bgd'[g].free - bgd[g].free, (FreeIn(imap', g) + UncountedIn(g)')
                                                   - (FreeIn(imap, g) + UncountedIn(g)), U16)
    <3>1. bgd[g].free \in Int /\ FreeIn(imap', g) \in Int /\ bgd'[g].free = bgd[g].free
      BY <1>1, <1>3, Numbers, NumbersNext
    <3>2. CASE g = group_of(ino)
      <4>1. /\ UncountedIn(g) = 0 /\ UncountedIn(g)' = 1
            /\ FreeIn(imap, g) = FreeIn(imap', g) + 1
        BY <1>4, <1>6, <3>2
      <4> QED BY <3>1, <4>1, SMT DEF Moves
    <3>3. CASE g # group_of(ino)
      <4>1. /\ UncountedIn(g) = 0 /\ UncountedIn(g)' = 0
            /\ FreeIn(imap, g) = FreeIn(imap', g) + 0
        BY <1>4, <1>6, <3>3
      <4> QED BY <3>1, <4>1, SMT DEF Moves
    <3> QED BY <3>2, <3>3
  <2> QED BY <1>1, <1>3, <2>1, <2>2, <2>3, CountsMove DEF Drift
<1>8. DirsNear'
  <2>1. Stale' \subseteq Stale
    BY <1>1, <1>2, <1>3 DEF Stale, Removing
  <2> QED BY <1>1, <1>3, <2>1, DirsQuiet DEF Drift
<1>9. FewOrphans'
  <2>1. 0 \notin imap
    BY <1>3, InodeAssumption, SMT DEF Inodes
  <2>2. Orphans' \ {op'.ino} \subseteq Orphans \ {op.ino}
    BY <1>1, <1>2, <1>3, <2>1 DEF Orphans
  <2> QED BY <1>1, <1>3, <2>2, OrphansQuiet DEF Drift
<1>10. Stages'
  BY <1>1, <1>2, <1>3 DEF Stages, Removing, group_of
<1> QED BY <1>7, <1>8, <1>9, <1>10 DEF Drift

LEMMA FreeBitmapDrift ==
  ASSUME IInv, IInv', Drift, FreeBitmap
  PROVE  Drift'
<1>1. pc = "rm_bitmap" /\ op.ino \in imap /\ op.ino \in Inodes
  BY DEF FreeBitmap, IInv, RemoveOK
<1>2. /\ imap' = imap \ {op.ino} /\ pc' = "rm_bgd"
      /\ UNCHANGED <<bgd, dsb, named, sb, op, dirs, home, failed, exposed, crashes>>
  BY <1>1, Freed DEF FreeBitmap, ghost
<1>3. TypeOK /\ TypeOK' /\ imap \in SUBSET Inodes /\ imap' \in SUBSET Inodes
  BY DEF IInv, TypeOK
<1>4. PICK ino \in Inodes \ imap' : ino = op.ino
  BY <1>1, <1>2
<1>5. /\ Cardinality(Inodes \ imap') = Cardinality(Inodes \ imap) + 1
      /\ \A g \in Groups : FreeIn(imap', g) = FreeIn(imap, g)
                                                + (IF g = group_of(ino) THEN 1 ELSE 0)
  <2>1. imap = imap' \cup {ino}
    BY <1>1, <1>2, <1>4
  <2> QED BY <1>3, <2>1, OneInodeMore
<1>6. Uncounted = 0 /\ Uncounted' = 0 - 1
  BY <1>1, <1>2 DEF Uncounted
<1>7. \A g : UncountedIn(g) = 0 /\ UncountedIn(g)' = IF g = group_of(ino) THEN 0 - 1 ELSE 0
  BY <1>1, <1>2, <1>4 DEF UncountedIn, group_of
<1>8. CountsNear'
  <2>1. dsb' = sb'
    BY <1>2 DEF Drift, CountsNear
  <2>2. Moves(sb' - sb, (Cardinality(Inodes \ imap') + Uncounted')
                          - (Cardinality(Inodes \ imap) + Uncounted), U32)
    <3>1. sb \in Int /\ Cardinality(Inodes \ imap) \in Int
      BY <1>3, Numbers
    <3> QED BY <1>2, <1>5, <1>6, <3>1, SMT DEF Moves
  <2>3. ASSUME NEW g \in Groups
        PROVE  Moves(bgd'[g].free - bgd[g].free, (FreeIn(imap', g) + UncountedIn(g)')
                                                   - (FreeIn(imap, g) + UncountedIn(g)), U16)
    <3>1. bgd[g].free \in Int /\ FreeIn(imap, g) \in Int /\ bgd'[g].free = bgd[g].free
      BY <1>2, <1>3, Numbers
    <3>2. CASE g = group_of(ino)
      <4>1. /\ UncountedIn(g) = 0 /\ UncountedIn(g)' = 0 - 1
            /\ FreeIn(imap', g) = FreeIn(imap, g) + 1
        BY <1>5, <1>7, <3>2
      <4> QED BY <3>1, <4>1, SMT DEF Moves
    <3>3. CASE g # group_of(ino)
      <4>1. /\ UncountedIn(g) = 0 /\ UncountedIn(g)' = 0
            /\ FreeIn(imap', g) = FreeIn(imap, g) + 0
        BY <1>5, <1>7, <3>3
      <4> QED BY <3>1, <4>1, SMT DEF Moves
    <3> QED BY <3>2, <3>3
  <2> QED BY <1>2, <1>3, <2>1, <2>2, <2>3, CountsMove DEF Drift
<1>9. DirsNear'
  <2>1. Stale' \subseteq Stale
    BY <1>1, <1>2 DEF Stale, Removing
  <2> QED BY <1>2, <1>3, <2>1, DirsQuiet DEF Drift
<1>10. FewOrphans'
  <2>1. Orphans' \ {op'.ino} \subseteq Orphans \ {op.ino}
    BY <1>2 DEF Orphans
  <2> QED BY <1>2, <1>3, <2>1, OrphansQuiet DEF Drift
<1>11. Stages'
  BY <1>1, <1>2 DEF Drift, Stages, Removing
<1> QED BY <1>8, <1>9, <1>10, <1>11 DEF Drift

-----------------------------------------------------------------------------
(* The sum of the directory counts: a cell for every directory counted.     *)
Cells(B)     == UNION {{g} \X (1 .. B[g].dirs) : g \in Groups}
Others(B, g) == UNION {{h} \X (1 .. B[h].dirs) : h \in Groups \ {g}}

LEMMA CellsFinite ==
  ASSUME NEW B, \A g \in Groups : B[g].dirs \in Nat, NEW G \in SUBSET Groups
  PROVE  IsFiniteSet(UNION {{g} \X (1 .. B[g].dirs) : g \in G})
<1> DEFINE F == {{g} \X (1 .. B[g].dirs) : g \in G}
           f == [g \in G |-> {g} \X (1 .. B[g].dirs)]
<1>1. IsFiniteSet(Groups)
  <2>1. NumGroups - 1 \in Int /\ 0 \in Int
    BY InodeAssumption, SMT
  <2> QED BY <2>1, FS_Interval DEF Groups
<1>2. IsFiniteSet(G)
  BY <1>1, FS_Subset
<1>3. f \in Surjection(G, F)
  BY Zenon DEF Surjection
<1>4. IsFiniteSet(F)
  BY <1>2, <1>3, FS_Surjection, Zenon
<1>5. \A T \in F : IsFiniteSet(T)
  <2> SUFFICES ASSUME NEW g \in G PROVE IsFiniteSet({g} \X (1 .. B[g].dirs))
    OBVIOUS
  <2>1. B[g].dirs \in Int /\ 1 \in Int
    <3>1. B[g].dirs \in Nat
      OBVIOUS
    <3> QED BY <3>1, SMT
  <2>2. IsFiniteSet(1 .. B[g].dirs) /\ IsFiniteSet({g})
    BY <2>1, FS_Interval, FS_Singleton
  <2> QED BY <2>2, FS_Product
<1> QED BY <1>4, <1>5, FS_UNION

LEMMA CellsSplit ==
  ASSUME NEW B, \A h \in Groups : B[h].dirs \in Nat, NEW g \in Groups
  PROVE  /\ Cardinality(Others(B, g)) \in Nat
         /\ Cardinality(Cells(B)) = Cardinality(Others(B, g)) + B[g].dirs
<1> DEFINE Own == {g} \X (1 .. B[g].dirs)
<1>1. IsFiniteSet(Others(B, g))
  <2>1. (Groups \ {g}) \in SUBSET Groups
    OBVIOUS
  <2> QED BY <2>1, CellsFinite DEF Others
<1>2. PICK n \in Nat : n = B[g].dirs
  OBVIOUS
<1>3. IsFiniteSet(Own) /\ Cardinality(Own) = n
  <2>1. IsFiniteSet(1 .. n) /\ Cardinality(1 .. n) = n
    <3>1. /\ IsFiniteSet(1 .. n)
          /\ Cardinality(1 .. n) = IF 1 > n THEN 0 ELSE n - 1 + 1
      BY FS_Interval
    <3> QED BY <3>1, SMT
  <2>2. IsFiniteSet({g}) /\ Cardinality({g}) = 1
    BY FS_Singleton
  <2>3. IsFiniteSet({g} \X (1 .. n)) /\ Cardinality({g} \X (1 .. n)) = 1 * n
    BY <2>1, <2>2, FS_Product
  <2> QED BY <1>2, <2>3
<1>4. Cells(B) = Others(B, g) \cup Own
  BY DEF Cells, Others
<1>5. Others(B, g) \cap Own = {}
  BY DEF Others
<1> HIDE DEF Own
<1>6. Cardinality(Cells(B)) = Cardinality(Others(B, g)) + Cardinality(Own)
  <2>1. Cardinality(Others(B, g) \cup Own)
          = Cardinality(Others(B, g)) + Cardinality(Own) - Cardinality(Others(B, g) \cap Own)
    BY <1>1, <1>3, FS_Union
  <2>2. Cardinality(Others(B, g) \cap Own) = 0
    BY <1>5, FS_EmptySet
  <2>3. Cardinality(Others(B, g)) \in Nat
    BY <1>1, FS_CardinalityType
  <2> QED BY <1>3, <1>4, <2>1, <2>2, <2>3, SMT
<1> QED BY <1>1, <1>2, <1>3, <1>6, FS_CardinalityType

(* The sum moves as the count of one group does.                            *)
LEMMA SumMoves ==
  ASSUME NEW B, \A h \in Groups : B[h].dirs \in Nat,
         NEW C, \A h \in Groups : C[h].dirs \in Nat, NEW g \in Groups,
         \A h \in Groups \ {g} : C[h].dirs = B[h].dirs
  PROVE  /\ Cardinality(Cells(B)) \in Int /\ Cardinality(Cells(C)) \in Int
         /\ Cardinality(Cells(C)) - Cardinality(Cells(B)) = C[g].dirs - B[g].dirs
<1>1. Others(C, g) = Others(B, g)
  BY DEF Others
<1>2. PICK n \in Nat : n = Cardinality(Others(B, g))
  BY CellsSplit
<1>3. Cardinality(Cells(B)) = n + B[g].dirs /\ Cardinality(Cells(C)) = n + C[g].dirs
  BY <1>1, <1>2, CellsSplit
<1>4. B[g].dirs \in Nat /\ C[g].dirs \in Nat
  OBVIOUS
<1> QED BY <1>2, <1>3, <1>4, SMT

(* Counts and directories change together, but for j of them, and j fewer   *)
(* are stale.                                                               *)
LEMMA DirsMove ==
  ASSUME DirsNear, TypeOK, TypeOK', crashes' = crashes,
         NEW g \in Groups, \A h \in Groups \ {g} : bgd'[h].dirs = bgd[h].dirs,
         NEW m \in Int, Moves(bgd'[g].dirs - bgd[g].dirs, m, U16),
         NEW j \in Nat,
         LET c == Cardinality(dirs') - Cardinality(dirs) IN 0 - j <= c - m /\ c - m <= j,
         Cardinality(Stale') + j <= Cardinality(Stale)
  PROVE  DirsNear'
<1>1. PICK k \in Nat : /\ k + Cardinality(Stale) <= crashes
                       /\ Near(SumDirs, Cardinality(dirs), U16, k)
  BY DEF DirsNear
<1>2. /\ SumDirs \in Int /\ SumDirs' \in Int
      /\ SumDirs' - SumDirs = bgd'[g].dirs - bgd[g].dirs
  <2>1. (\A h \in Groups : bgd[h].dirs \in Nat) /\ (\A h \in Groups : bgd'[h].dirs \in Nat)
    BY Numbers, NumbersNext
  <2>2. SumDirs = Cardinality(Cells(bgd)) /\ SumDirs' = Cardinality(Cells(bgd'))
    BY DEF SumDirs, Cells
  <2> QED BY <2>1, <2>2, SumMoves
<1>3. /\ Cardinality(dirs) \in Int /\ Cardinality(dirs') \in Int
      /\ Cardinality(Stale) \in Nat /\ Cardinality(Stale') \in Nat /\ crashes \in Nat
  <2>1. dirs \in SUBSET Inodes /\ dirs' \in SUBSET Inodes
    BY DEF TypeOK
  <2>2. Stale \in SUBSET Inodes /\ Stale' \in SUBSET Inodes
    BY <2>1 DEF Stale
  <2>3. \A n \in Nat : n \in Int
    OBVIOUS
  <2> QED BY <2>1, <2>2, <2>3, InodeSets, Numbers
<1>4. PICK t \in Int : t = Cardinality(dirs) + m
  BY <1>3
<1>5. Near(SumDirs', t, U16, k)
  <2>1. t - Cardinality(dirs) = m
    BY <1>3, <1>4, SMT
  <2> QED BY <1>1, <1>2, <1>3, <2>1, InodeSets, NearTogether DEF Moves
<1>6. Near(SumDirs', Cardinality(dirs'), U16, k + j)
  <2>1. 0 - j <= Cardinality(dirs') - t /\ Cardinality(dirs') - t <= j
    BY <1>3, <1>4, SMT
  <2>2. k + j \in Nat /\ k + j <= k + j
    BY SMT
  <2> QED BY <1>2, <1>3, <1>5, <2>1, <2>2, InodeSets, NearBehind
<1>7. k + j \in Nat /\ (k + j) + Cardinality(Stale') <= crashes
  BY <1>1, <1>3, SMT
<1> QED BY <1>6, <1>7 DEF DirsNear

(* The counts of free inodes when one descriptor is written.                *)
LEMMA DescriptorFollows ==
  ASSUME TypeOK, TypeOK', CountsNear, UNCHANGED <<imap, dsb, sb, crashes>>,
         Uncounted' = Uncounted, NEW g \in Groups, NEW d \in Int,
         Moves(bgd'[g].free - bgd[g].free, d, U16), UncountedIn(g)' = UncountedIn(g) + d,
         \A h \in Groups \ {g} : bgd'[h].free = bgd[h].free
                                 /\ UncountedIn(h)' = UncountedIn(h)
  PROVE  CountsNear'
<1>1. dsb' = sb'
  BY DEF CountsNear
<1>2. Moves(sb' - sb, (Cardinality(Inodes \ imap') + Uncounted')
                        - (Cardinality(Inodes \ imap) + Uncounted), U32)
  BY Numbers, SMT DEF Moves
<1>3. ASSUME NEW h \in Groups
      PROVE  Moves(bgd'[h].free - bgd[h].free, (FreeIn(imap', h) + UncountedIn(h)')
                                                 - (FreeIn(imap, h) + UncountedIn(h)), U16)
  <2>1. /\ bgd[h].free \in Int /\ bgd'[h].free \in Int
        /\ FreeIn(imap, h) \in Int /\ UncountedIn(h) \in Int
    BY Numbers, NumbersNext
  <2>2. FreeIn(imap', h) = FreeIn(imap, h)
    BY DEF FreeIn
  <2>3. CASE h = g
    BY <2>1, <2>2, <2>3, InodeSets, SMT DEF Moves
  <2>4. CASE h # g
    <3>1. bgd'[h].free = bgd[h].free /\ UncountedIn(h)' = UncountedIn(h)
      BY <2>4
    <3> QED BY <2>1, <2>2, <3>1, SMT DEF Moves
  <2> QED BY <2>3, <2>4
<1> QED BY <1>1, <1>2, <1>3, CountsMove

LEMMA Wrapping ==
  ASSUME NEW w \in Nat \ {0}, NEW n \in 0 .. w - 1
  PROVE  Moves(Dec(n, w) - n, 0 - 1, w) /\ Moves(Inc(n, w) - n, 1, w)
BY SMT DEF Moves, Dec, Inc

(* One element more or less.                                                *)
LEMMA SizeMoves ==
  ASSUME NEW S \in SUBSET Inodes, NEW ino \in Inodes
  PROVE  /\ ino \notin S => Cardinality(S \cup {ino}) = Cardinality(S) + 1
         /\ ino \in S => Cardinality(S) = Cardinality(S \ {ino}) + 1
<1>1. IsFiniteSet(S) /\ IsFiniteSet(S \ {ino}) /\ ino \notin S \ {ino}
  BY InodeSets, FS_Subset
<1>2. ino \notin S => Cardinality(S \cup {ino}) = Cardinality(S) + 1
  BY <1>1, FS_AddElement
<1>3. ASSUME ino \in S PROVE Cardinality(S) = Cardinality(S \ {ino}) + 1
  <2>1. S = (S \ {ino}) \cup {ino}
    BY <1>3
  <2>2. Cardinality((S \ {ino}) \cup {ino}) = Cardinality(S \ {ino}) + 1
    BY <1>1, FS_AddElement
  <2> QED BY <2>1, <2>2
<1> QED BY <1>2, <1>3

-----------------------------------------------------------------------------
(* The steps that write a descriptor or the superblock.                     *)
LEMMA AllocBgdDrift ==
  ASSUME IInv, IInv', Drift, AllocBgd
  PROVE  Drift'
<1>1. /\ pc = "bgd" /\ pc' = "super"
      /\ bgd' = [bgd EXCEPT ![op.grp] = Described(bgd[op.grp])]
      /\ dirs' = IF op.isdir THEN dirs \cup {op.ino} ELSE dirs \ {op.ino}
      /\ UNCHANGED <<imap, dsb, named, sb, op, failed, exposed, crashes>>
  BY DEF AllocBgd
<1>2. /\ TypeOK /\ TypeOK' /\ op.ino \in imap /\ op.ino \in Inodes
      /\ op.grp \in Groups /\ group_of(op.ino) = op.grp
  BY <1>1 DEF IInv, TypeOK, CreateOK, Drift, Stages
<1>3. PICK g \in Groups : g = op.grp
  BY <1>2
<1>4. PICK ino \in Inodes : ino = op.ino
  BY <1>2
<1>5. bgd[g] \in Desc /\ bgd \in [Groups -> Desc]
  BY <1>2 DEF TypeOK
<1>6. /\ bgd'[g].free = Dec(bgd[g].free, U16)
      /\ bgd'[g].dirs = IF op.isdir THEN Inc(bgd[g].dirs, U16) ELSE bgd[g].dirs
      /\ \A h \in Groups \ {g} : bgd'[h] = bgd[h]
  BY <1>1, <1>3, <1>5 DEF Described, Desc
<1>7. /\ Moves(Dec(bgd[g].free, U16) - bgd[g].free, 0 - 1, U16)
      /\ Moves(Inc(bgd[g].dirs, U16) - bgd[g].dirs, 1, U16)
  <2>1. bgd[g].free \in 0 .. U16 - 1 /\ bgd[g].dirs \in 0 .. U16 - 1
    BY <1>5 DEF Desc
  <2> QED BY <2>1, InodeSets, Wrapping
<1>8. CountsNear'
  <2>1. Uncounted' = Uncounted
    BY <1>1 DEF Uncounted
  <2>2. UncountedIn(g) = 1 /\ UncountedIn(g)' = 0
    BY <1>1, <1>2, <1>3 DEF UncountedIn, group_of
  <2>3. \A h \in Groups \ {g} : UncountedIn(h)' = UncountedIn(h)
    BY <1>1, <1>2, <1>3 DEF UncountedIn, group_of
  <2>4. 0 - 1 \in Int /\ UncountedIn(g)' = UncountedIn(g) + (0 - 1)
    BY <2>2, SMT
  <2> QED BY <1>1, <1>2, <1>6, <1>7, <2>1, <2>3, <2>4, DescriptorFollows DEF Drift
<1>9. DirsNear'
  <2>1. /\ dirs \in SUBSET Inodes /\ dirs' \in SUBSET Inodes
        /\ Stale \in SUBSET Inodes /\ Stale' \in SUBSET Inodes
    BY <1>2 DEF TypeOK, Stale
  <2>2. /\ Cardinality(dirs) \in Int /\ Cardinality(dirs') \in Int
        /\ Cardinality(Stale) \in Nat /\ Cardinality(Stale') \in Nat
    BY <2>1, InodeSets
  <2>3. DirsNear /\ crashes' = crashes
        /\ \A h \in Groups \ {g} : bgd'[h].dirs = bgd[h].dirs
    BY <1>1, <1>6 DEF Drift
  <2>4. PICK m \in Int : m = IF op.isdir THEN 1 ELSE 0
    OBVIOUS
  <2>5. Moves(bgd'[g].dirs - bgd[g].dirs, m, U16)
    <3>1. CASE op.isdir
      BY <1>6, <1>7, <2>4, <3>1
    <3>2. CASE ~op.isdir
      <4>1. bgd'[g].dirs = bgd[g].dirs /\ m = 0 /\ bgd[g].dirs \in Int
        BY <1>2, <1>6, <2>4, <3>2, Numbers
      <4> QED BY <4>1, SMT DEF Moves
    <3> QED BY <3>1, <3>2
  <2>6. CASE ino \in dirs
    <3>1. Cardinality(dirs') - Cardinality(dirs) - m = 0 - 1
      <4>1. CASE op.isdir
        <5>1. dirs' = dirs /\ m = 1
          BY <1>1, <1>4, <2>4, <2>6, <4>1
        <5> QED BY <2>2, <5>1, SMT
      <4>2. CASE ~op.isdir
        <5>1. Cardinality(dirs) = Cardinality(dirs') + 1 /\ m = 0
          BY <1>1, <1>4, <2>1, <2>4, <2>6, <4>2, SizeMoves
        <5> QED BY <2>2, <5>1, SMT
      <4> QED BY <4>1, <4>2
    <3>2. Cardinality(Stale') + 1 <= Cardinality(Stale)
      <4>1. ino \notin Stale' /\ Stale' \cup {ino} \subseteq Stale
        BY <1>1, <1>2, <1>4, <2>6 DEF Stale, Removing
      <4>2. Cardinality(Stale' \cup {ino}) = Cardinality(Stale') + 1
        BY <2>1, <4>1, SizeMoves
      <4>3. Cardinality(Stale' \cup {ino}) <= Cardinality(Stale)
        BY <2>1, <4>1, InodeSets, FS_Subset
      <4> QED BY <4>2, <4>3
    <3>3. LET c == Cardinality(dirs') - Cardinality(dirs) IN 0 - 1 <= c - m /\ c - m <= 1
      BY <2>2, <3>1, SMT
    <3>4. 1 \in Nat
      OBVIOUS
    <3> QED BY <1>2, <2>3, <2>5, <3>2, <3>3, <3>4, DirsMove
  <2>7. CASE ino \notin dirs
    <3>1. Cardinality(dirs') - Cardinality(dirs) - m = 0
      <4>1. CASE op.isdir
        <5>1. Cardinality(dirs') = Cardinality(dirs) + 1 /\ m = 1
          BY <1>1, <1>4, <2>1, <2>4, <2>7, <4>1, SizeMoves
        <5> QED BY <2>2, <5>1, SMT
      <4>2. CASE ~op.isdir
        <5>1. dirs' = dirs /\ m = 0
          BY <1>1, <1>4, <2>4, <2>7, <4>2
        <5> QED BY <2>2, <5>1, SMT
      <4> QED BY <4>1, <4>2
    <3>2. Stale' = Stale
      BY <1>1, <1>2, <1>4, <2>7 DEF Stale, Removing
    <3>3. LET c == Cardinality(dirs') - Cardinality(dirs) IN 0 - 0 <= c - m /\ c - m <= 0
      BY <2>2, <3>1, SMT
    <3>4. 0 \in Nat /\ Cardinality(Stale') + 0 <= Cardinality(Stale)
      BY <2>2, <3>2, SMT
    <3> QED BY <1>2, <2>3, <2>5, <3>3, <3>4, DirsMove
  <2> QED BY <2>6, <2>7
<1>10. FewOrphans'
  BY <1>1, <1>2, OrphansQuiet DEF Drift, Orphans
<1>11. Stages'
  BY <1>1 DEF Stages, Removing
<1> QED BY <1>8, <1>9, <1>10, <1>11 DEF Drift

LEMMA FreeBgdDrift ==
  ASSUME IInv, IInv', Drift, FreeBgd
  PROVE  Drift'
<1>1. /\ pc = "rm_bgd" /\ pc' = "rm_super"
      /\ bgd' = [bgd EXCEPT ![group_of(op.ino)].free = Inc(bgd[group_of(op.ino)].free, U16)]
      /\ UNCHANGED <<imap, dsb, named, sb, op, dirs, home, failed, exposed, crashes>>
  BY DEF FreeBgd, ghost
<1>2. TypeOK /\ TypeOK' /\ op.ino \in Inodes
  BY <1>1 DEF IInv, RemoveOK
<1>3. PICK g \in Groups : g = group_of(op.ino)
  BY <1>2, InodeRoundTrip
<1>4. bgd[g] \in Desc /\ bgd \in [Groups -> Desc]
  BY <1>2 DEF TypeOK
<1>5. /\ bgd'[g].free = Inc(bgd[g].free, U16) /\ bgd'[g].dirs = bgd[g].dirs
      /\ \A h \in Groups \ {g} : bgd'[h] = bgd[h]
  BY <1>1, <1>3, <1>4 DEF Desc
<1>6. Moves(Inc(bgd[g].free, U16) - bgd[g].free, 1, U16)
  <2>1. bgd[g].free \in 0 .. U16 - 1
    BY <1>4 DEF Desc
  <2> QED BY <2>1, InodeSets, Wrapping
<1>7. CountsNear'
  <2>1. Uncounted' = Uncounted
    BY <1>1 DEF Uncounted
  <2>2. UncountedIn(g) = 0 - 1 /\ UncountedIn(g)' = 0
    BY <1>1, <1>3 DEF UncountedIn, group_of
  <2>3. \A h \in Groups \ {g} : UncountedIn(h)' = UncountedIn(h)
    BY <1>1, <1>3 DEF UncountedIn, group_of
  <2>4. 1 \in Int /\ UncountedIn(g)' = UncountedIn(g) + 1
    BY <2>2, SMT
  <2> QED BY <1>1, <1>2, <1>5, <1>6, <2>1, <2>3, <2>4, DescriptorFollows DEF Drift
<1>8. DirsNear'
  <2>1. Stale' \subseteq Stale
    BY <1>1 DEF Stale, Removing
  <2>2. \A h \in Groups : bgd'[h].dirs = bgd[h].dirs
    BY <1>5
  <2> QED BY <1>1, <1>2, <2>1, <2>2, DirsQuiet DEF Drift
<1>9. FewOrphans'
  BY <1>1, <1>2, OrphansQuiet DEF Drift, Orphans
<1>10. Stages'
  BY <1>1 DEF Drift, Stages, Removing
<1> QED BY <1>7, <1>8, <1>9, <1>10 DEF Drift

LEMMA SuperDrift ==
  ASSUME IInv, IInv', Drift, AllocSuper \/ FreeSuper
  PROVE  Drift'
<1>1. /\ \/ pc = "super" /\ pc' = "entry" /\ sb' = Dec(sb, U32)
         \/ pc = "rm_super" /\ pc' = "rm_entry" /\ sb' = Inc(sb, U32)
      /\ dsb' = sb'
      /\ UNCHANGED <<imap, bgd, named, op, dirs, home, failed, exposed, crashes>>
  BY DEF AllocSuper, FreeSuper, ghost
<1>2. TypeOK /\ TypeOK'
  BY DEF IInv
<1>3. CountsNear'
  <2>1. Moves(sb' - sb, Uncounted' - Uncounted, U32)
    <3>1. sb \in 0 .. U32 - 1
      BY <1>2 DEF TypeOK
    <3>2. CASE pc = "super" /\ pc' = "entry" /\ sb' = Dec(sb, U32)
      <4>1. Uncounted' - Uncounted = 0 - 1
        BY <3>2 DEF Uncounted
      <4> QED BY <3>1, <3>2, <4>1, InodeSets, Wrapping
    <3>3. CASE pc = "rm_super" /\ pc' = "rm_entry" /\ sb' = Inc(sb, U32)
      <4>1. Uncounted' - Uncounted = 1
        <5>1. Uncounted' = 0 /\ Uncounted = 0 - 1
          BY <3>3 DEF Uncounted
        <5> QED BY <5>1, SMT
      <4> QED BY <3>1, <3>3, <4>1, InodeSets, Wrapping
    <3> QED BY <1>1, <3>2, <3>3
  <2>2. Moves(sb' - sb, (Cardinality(Inodes \ imap') + Uncounted')
                          - (Cardinality(Inodes \ imap) + Uncounted), U32)
    <3>1. PICK n \in Int : n = Cardinality(Inodes \ imap) /\ n = Cardinality(Inodes \ imap')
      BY <1>1, <1>2, Numbers
    <3>2. (n + Uncounted') - (n + Uncounted) = Uncounted' - Uncounted
      BY <1>2, Numbers, NumbersNext, SMT
    <3> QED BY <2>1, <3>1, <3>2
  <2>3. ASSUME NEW g \in Groups
        PROVE  Moves(bgd'[g].free - bgd[g].free, (FreeIn(imap', g) + UncountedIn(g)')
                                                   - (FreeIn(imap, g) + UncountedIn(g)), U16)
    <3>1. bgd[g].free \in Int /\ FreeIn(imap, g) \in Int /\ UncountedIn(g) \in Int
      BY <1>2, Numbers
    <3>2. /\ bgd'[g].free = bgd[g].free /\ FreeIn(imap', g) = FreeIn(imap, g)
          /\ UncountedIn(g)' = UncountedIn(g)
      BY <1>1 DEF FreeIn, UncountedIn
    <3> QED BY <3>1, <3>2, SMT DEF Moves
  <2> QED BY <1>1, <1>2, <2>2, <2>3, CountsMove DEF Drift
<1>4. DirsNear'
  <2>1. Stale' \subseteq Stale
    BY <1>1 DEF Stale, Removing
  <2> QED BY <1>1, <1>2, <2>1, DirsQuiet DEF Drift
<1>5. FewOrphans'
  BY <1>1, <1>2, OrphansQuiet DEF Drift, Orphans
<1>6. Stages'
  BY <1>1 DEF Drift, Stages, Removing
<1> QED BY <1>3, <1>4, <1>5, <1>6 DEF Drift

LEMMA UncountDirDrift ==
  ASSUME IInv, IInv', Drift, UncountDir
  PROVE  Drift'
<1>1. /\ pc = "rm_dirs" /\ pc' = "idle" /\ op' = NoOp
      /\ bgd' = [bgd EXCEPT ![op.goal] = [op.pbgd EXCEPT !.dirs = Dec(op.pbgd.dirs, U16)]]
      /\ dirs' = dirs \ {op.ino}
      /\ UNCHANGED <<imap, dsb, named, sb, failed, exposed, crashes>>
  BY DEF UncountDir
<1>2. /\ TypeOK /\ TypeOK' /\ op.goal \in Groups /\ op.pbgd = bgd[op.goal]
      /\ op.ino \in dirs /\ op.ino \notin imap /\ op.ino \in Inodes /\ op'.ino = 0
  BY <1>1 DEF IInv, TypeOK, Drift, Stages, Removing, NoOp
<1>3. PICK g \in Groups : g = op.goal
  BY <1>2
<1>4. bgd[g] \in Desc /\ bgd \in [Groups -> Desc]
  BY <1>2 DEF TypeOK
<1>5. /\ bgd'[g].free = bgd[g].free /\ bgd'[g].dirs = Dec(bgd[g].dirs, U16)
      /\ \A h \in Groups \ {g} : bgd'[h] = bgd[h]
  BY <1>1, <1>2, <1>3, <1>4 DEF Desc
<1>6. Moves(bgd'[g].dirs - bgd[g].dirs, 0 - 1, U16)
  <2>1. bgd[g].dirs \in 0 .. U16 - 1
    BY <1>4 DEF Desc
  <2> QED BY <1>5, <2>1, InodeSets, Wrapping
<1>7. CountsNear'
  <2>1. Uncounted' = Uncounted
    BY <1>1 DEF Uncounted
  <2>2. \A h : UncountedIn(h) = 0 /\ UncountedIn(h)' = 0
    BY <1>1 DEF UncountedIn
  <2>3. /\ 0 \in Int /\ UncountedIn(g)' = UncountedIn(g) + 0
        /\ Moves(bgd'[g].free - bgd[g].free, 0, U16)
    <3>1. bgd[g].free \in Int
      BY <1>2, Numbers
    <3> QED BY <1>5, <2>2, <3>1, SMT DEF Moves
  <2> QED BY <1>1, <1>2, <1>5, <2>1, <2>2, <2>3, DescriptorFollows DEF Drift
<1>8. DirsNear'
  <2>1. /\ dirs \in SUBSET Inodes /\ dirs' \in SUBSET Inodes
        /\ Stale \in SUBSET Inodes /\ Stale' \in SUBSET Inodes
    BY <1>2 DEF TypeOK, Stale
  <2>2. /\ Cardinality(dirs) = Cardinality(dirs') + 1
        /\ Cardinality(dirs) \in Int /\ Cardinality(dirs') \in Int
        /\ Cardinality(Stale) \in Nat /\ Cardinality(Stale') \in Nat
    BY <1>1, <1>2, <2>1, InodeSets, SizeMoves
  <2>3. Stale' \subseteq Stale
    BY <1>1, <1>2 DEF Stale, Removing
  <2>4. Cardinality(Stale') + 0 <= Cardinality(Stale) /\ 0 \in Nat /\ 0 - 1 \in Int
    <3>1. Cardinality(Stale') <= Cardinality(Stale)
      BY <2>1, <2>3, InodeSets, FS_Subset
    <3> QED BY <2>2, <3>1, SMT
  <2>5. LET c == Cardinality(dirs') - Cardinality(dirs)
        IN  0 - 0 <= c - (0 - 1) /\ c - (0 - 1) <= 0
    BY <2>2, SMT
  <2>6. crashes' = crashes /\ \A h \in Groups \ {g} : bgd'[h].dirs = bgd[h].dirs
    BY <1>1, <1>5
  <2> QED BY <1>2, <1>6, <2>4, <2>5, <2>6, DirsMove DEF Drift
<1>9. FewOrphans'
  <2>1. Orphans' \ {op'.ino} \subseteq Orphans \ {op.ino}
    BY <1>1, <1>2 DEF Orphans
  <2> QED BY <1>1, <1>2, <2>1, OrphansQuiet DEF Drift
<1>10. Stages'
  BY <1>1, <1>2 DEF Stages, Removing
<1> QED BY <1>7, <1>8, <1>9, <1>10 DEF Drift

LEMMA AtMostOneMore ==
  ASSUME NEW S \in SUBSET Inodes, NEW T \in SUBSET Inodes, NEW x, T \subseteq S \cup {x}
  PROVE  Cardinality(T) <= Cardinality(S) + 1
<1>1. Cardinality(S) \in Nat /\ Cardinality(T) \in Nat
  BY InodeSets
<1>2. CASE x \in Inodes /\ x \notin S
  <2>1. S \cup {x} \in SUBSET Inodes /\ Cardinality(S \cup {x}) = Cardinality(S) + 1
    BY <1>2, SizeMoves
  <2>2. Cardinality(T) <= Cardinality(S \cup {x})
    BY <2>1, InodeSets, FS_Subset
  <2> QED BY <2>1, <2>2
<1>3. CASE ~(x \in Inodes /\ x \notin S)
  <2>1. T \subseteq S
    BY <1>3
  <2>2. Cardinality(T) <= Cardinality(S)
    BY <2>1, InodeSets, FS_Subset
  <2> QED BY <1>1, <2>2, SMT
<1> QED BY <1>2, <1>3

(* A crash costs each of the counts one, and one inode.                     *)
LEMMA CrashDrift ==
  ASSUME IInv, IInv', Drift, Crash
  PROVE  Drift'
<1>1. /\ crashes' = crashes + 1 /\ sb' = dsb /\ pc' = "idle" /\ op' = NoOp
      /\ UNCHANGED <<imap, bgd, dsb, named, dirs, home, failed>>
  BY DEF Crash, disk
<1>2. /\ TypeOK /\ TypeOK' /\ op'.ino = 0 /\ crashes \in Nat /\ crashes + 1 \in Nat
      /\ 1 \in Nat /\ crashes + 1 <= crashes + 1
  BY <1>1, Numbers, SMT DEF IInv, NoOp
<1>3. CountsNear'
  <2>1. dsb = sb /\ dsb' = sb' /\ sb' = sb
    BY <1>1 DEF Drift, CountsNear
  <2>2. Near(sb', Cardinality(Inodes \ imap') + Uncounted', U32, crashes')
    <3>1. PICK n \in Int : n = Cardinality(Inodes \ imap)
      BY <1>2, Numbers
    <3>2. PICK u \in Int : u = Uncounted /\ u \in {0 - 1, 0, 1}
      BY <1>2, Numbers, SMT DEF Uncounted
    <3>3. Uncounted' = 0
      BY <1>1 DEF Uncounted
    <3>4. Near(sb, n + u, U32, crashes)
      BY <3>1, <3>2 DEF Drift, CountsNear
    <3>5. /\ n + u \in Int /\ n + 0 \in Int
          /\ 0 - 1 <= (n + 0) - (n + u) /\ (n + 0) - (n + u) <= 1
      BY <3>1, <3>2, SMT
    <3>6. Near(sb, n + 0, U32, crashes + 1)
      BY <1>2, <3>4, <3>5, InodeSets, Numbers, NearBehind
    <3> QED BY <1>1, <2>1, <3>1, <3>3, <3>6
  <2>3. ASSUME NEW g \in Groups
        PROVE  Near(bgd'[g].free, FreeIn(imap', g) + UncountedIn(g)', U16, crashes')
    <3>1. PICK n \in Int : n = FreeIn(imap, g)
      BY <1>2, Numbers
    <3>2. PICK u \in Int : u = UncountedIn(g) /\ u \in {0 - 1, 0, 1}
      BY <1>2, Numbers, SMT DEF UncountedIn
    <3>3. UncountedIn(g)' = 0
      BY <1>1 DEF UncountedIn
    <3>4. Near(bgd[g].free, n + u, U16, crashes)
      BY <3>1, <3>2 DEF Drift, CountsNear
    <3>5. /\ n + u \in Int /\ n + 0 \in Int
          /\ 0 - 1 <= (n + 0) - (n + u) /\ (n + 0) - (n + u) <= 1
      BY <3>1, <3>2, SMT
    <3>6. Near(bgd[g].free, n + 0, U16, crashes + 1)
      BY <1>2, <3>4, <3>5, InodeSets, Numbers, NearBehind
    <3> QED BY <1>1, <3>1, <3>3, <3>6 DEF FreeIn
  <2> QED BY <2>1, <2>2, <2>3 DEF CountsNear
<1>4. DirsNear'
  <2>1. PICK k \in Nat : /\ k + Cardinality(Stale) <= crashes
                         /\ Near(SumDirs, Cardinality(dirs), U16, k)
    BY DEF Drift, DirsNear
  <2>2. Stale \in SUBSET Inodes /\ Stale' \in SUBSET Inodes
    BY <1>2 DEF Stale, TypeOK
  <2>3. Stale' \subseteq Stale \cup {op.ino}
    BY <1>1 DEF Stale, Removing
  <2>4. Cardinality(Stale') <= Cardinality(Stale) + 1
    BY <2>2, <2>3, AtMostOneMore
  <2>5. k + Cardinality(Stale') <= crashes'
    <3>1. Cardinality(Stale) \in Nat /\ Cardinality(Stale') \in Nat
      BY <2>2, InodeSets
    <3> QED BY <1>1, <1>2, <2>1, <2>4, <3>1, SMT
  <2>6. SumDirs' = SumDirs
    BY <1>1 DEF SumDirs
  <2> QED BY <1>1, <2>1, <2>5, <2>6 DEF DirsNear
<1>5. FewOrphans'
  <2>1. Orphans \ {op.ino} \in SUBSET Inodes /\ Orphans' \ {op'.ino} \in SUBSET Inodes
    BY <1>2 DEF Orphans, TypeOK
  <2>2. Orphans' \ {op'.ino} \subseteq (Orphans \ {op.ino}) \cup {op.ino}
    BY <1>1 DEF Orphans
  <2>3. Cardinality(Orphans' \ {op'.ino}) <= Cardinality(Orphans \ {op.ino}) + 1
    BY <2>1, <2>2, AtMostOneMore
  <2>4. /\ Cardinality(Orphans \ {op.ino}) \in Nat
        /\ Cardinality(Orphans' \ {op'.ino}) \in Nat
    BY <2>1, InodeSets
  <2>5. Cardinality(Orphans \ {op.ino}) <= crashes
    BY DEF Drift, FewOrphans
  <2>6. Cardinality(Orphans' \ {op'.ino}) <= crashes'
    BY <1>1, <1>2, <2>3, <2>4, <2>5, SMT
  <2> QED BY <2>6 DEF FewOrphans
<1>6. Stages'
  BY <1>1, <1>2 DEF Stages, Removing
<1> QED BY <1>3, <1>4, <1>5, <1>6 DEF Drift

LEMMA InitDrift == Init => Drift
<1> SUFFICES ASSUME Init PROVE Drift
  OBVIOUS
<1>1. PICK used \in SUBSET (Inodes \ (Reserved \cup {Root})) :
         /\ imap = Reserved \cup {Root} \cup used
         /\ named = {Root} \cup used
  BY DEF Init
<1>2. /\ bgd = [g \in Groups |-> [free |-> Cardinality(InodesOf(g) \ imap),
                                  dirs |-> IF g = group_of(Root) THEN 1 ELSE 0]]
      /\ sb = Cardinality(Inodes \ imap) /\ dsb = sb
      /\ pc = "idle" /\ op = NoOp /\ dirs = {Root} /\ failed = {} /\ crashes = 0
  BY DEF Init
<1>3. TypeOK /\ op.ino = 0 /\ 0 \in Nat
  BY <1>2, InitIInv DEF IInv, NoOp
<1>4. CountsNear
  <2>1. Uncounted = 0 /\ \A g : UncountedIn(g) = 0
    BY <1>2 DEF Uncounted, UncountedIn
  <2>2. Near(sb, Cardinality(Inodes \ imap) + Uncounted, U32, crashes)
    <3>1. sb \in Int /\ Cardinality(Inodes \ imap) + Uncounted = sb
      BY <1>2, <1>3, <2>1, Numbers
    <3> QED BY <1>2, <3>1, InodeSets, NearItself
  <2>3. ASSUME NEW g \in Groups
        PROVE  Near(bgd[g].free, FreeIn(imap, g) + UncountedIn(g), U16, crashes)
    <3>1. bgd[g].free \in Int /\ FreeIn(imap, g) + UncountedIn(g) = bgd[g].free
      <4>1. bgd[g].free = FreeIn(imap, g) /\ FreeIn(imap, g) \in Int
        BY <1>2, <1>3, Numbers DEF FreeIn
      <4> QED BY <2>1, <4>1
    <3> QED BY <1>2, <3>1, InodeSets, NearItself
  <2> QED BY <1>2, <2>2, <2>3 DEF CountsNear
<1>5. DirsNear
  <2>1. PICK r \in Groups : r = group_of(Root)
    BY RootGroup
  <2>2. /\ bgd[r].dirs = 1 /\ \A h \in Groups \ {r} : bgd[h].dirs = 0
        /\ \A h \in Groups : bgd[h].dirs \in Nat
    BY <1>2, <2>1
  <2>3. Others(bgd, r) = {}
    <3>1. \A h \in Groups \ {r} : 1 .. bgd[h].dirs = {}
      BY <2>2, SMT
    <3> QED BY <3>1 DEF Others
  <2>4. Cardinality(Cells(bgd)) = 0 + 1
    BY <2>2, <2>3, CellsSplit, FS_EmptySet
  <2>5. SumDirs = 1 /\ 1 \in Int
    BY <2>4 DEF SumDirs, Cells
  <2>6. Cardinality(dirs) = 1
    BY <1>2, FS_Singleton
  <2>7. Cardinality(Stale) = 0
    <3>1. Stale = {}
      BY <1>1, <1>2 DEF Stale, Removing
    <3> QED BY <3>1, FS_EmptySet
  <2>8. Near(SumDirs, Cardinality(dirs), U16, 0) /\ 0 + Cardinality(Stale) <= crashes
    BY <1>2, <2>5, <2>6, <2>7, InodeSets, NearItself
  <2> QED BY <1>3, <2>8 DEF DirsNear
<1>6. FewOrphans
  <2>1. Orphans \ {op.ino} = {}
    BY <1>1 DEF Orphans
  <2>2. Cardinality(Orphans \ {op.ino}) = 0 /\ 0 <= 0
    BY <2>1, FS_EmptySet, SMT
  <2> QED BY <1>2, <2>2 DEF FewOrphans
<1>7. Stages
  BY <1>2, <1>3 DEF Stages, Removing
<1> QED BY <1>4, <1>5, <1>6, <1>7 DEF Drift

LEMMA StepDrift == IInv /\ Drift /\ [Next]_vars => Drift'
<1> SUFFICES ASSUME IInv, Drift, [Next]_vars PROVE Drift'
  OBVIOUS
<1>1. IInv'
  BY StepIInv
<1>2. ASSUME NEW d \in Inodes, NEW isdir \in BOOLEAN, CreateStart(d, isdir)
      PROVE  Drift'
  BY <1>2, CreateStartDrift
<1>3. ASSUME NEW ino \in Inodes, NEW late \in BOOLEAN, RemoveStart(ino, late)
      PROVE  Drift'
  BY <1>3, RemoveStartDrift
<1>4. CASE Step
  BY <1>1, <1>4, ScanHitDrift, ScanDrift, AllocBgdDrift, SuperDrift, NameDrift,
     FreeBitmapDrift, FreeBgdDrift, WipeEntryDrift, UncountDirDrift DEF Step
<1>5. CASE Crash \/ UNCHANGED vars
  BY <1>1, <1>5, CrashDrift, StutterDrift
<1> QED BY <1>2, <1>3, <1>4, <1>5 DEF Next

(* However often the program has been killed, at rest the free counts of    *)
(* superblock and descriptors and the directory counts, which wrap, are off *)
(* by no more than the number of crashes, and no more inodes are lost.      *)
THEOREM InodeDriftBounded == Spec => []InodeDrift
<1>1. IInv /\ Drift => InodeDrift
  <2> SUFFICES ASSUME IInv, Drift, pc = "idle"
               PROVE  /\ dsb = sb
                      /\ Off(sb, Cardinality(Inodes \ imap), U32) <= crashes
                      /\ \A g \in Groups : Off(bgd[g].free, Cardinality(Free(g)), U16) <= crashes
                      /\ Cardinality(imap \ (Reserved \cup named \cup failed)) <= crashes
                      /\ Off(SumDirs, Cardinality(dirs), U16) <= crashes
    BY DEF InodeDrift
  <2>1. TypeOK /\ CountsNear /\ DirsNear /\ FewOrphans /\ op.ino = 0
    BY DEF IInv, Drift, Stages
  <2>2. Uncounted = 0 /\ \A g : UncountedIn(g) = 0
    BY DEF Uncounted, UncountedIn
  <2>3. \A a, b, w : Off(a, b, w) = Distance(a, b, w)
    BY DEF Off, Distance
  <2>4. Off(sb, Cardinality(Inodes \ imap), U32) <= crashes
    <3>1. /\ sb \in Int /\ Cardinality(Inodes \ imap) \in Int /\ crashes \in Nat
          /\ Cardinality(Inodes \ imap) + Uncounted = Cardinality(Inodes \ imap)
      BY <2>1, <2>2, Numbers
    <3>2. Near(sb, Cardinality(Inodes \ imap), U32, crashes)
      BY <2>1, <3>1 DEF CountsNear
    <3> QED BY <2>3, <3>1, <3>2, InodeSets, NearDistance
  <2>5. ASSUME NEW g \in Groups
        PROVE  Off(bgd[g].free, Cardinality(Free(g)), U16) <= crashes
    <3>1. /\ bgd[g].free \in Int /\ FreeIn(imap, g) \in Int /\ crashes \in Nat
          /\ FreeIn(imap, g) + UncountedIn(g) = FreeIn(imap, g)
      BY <2>1, <2>2, Numbers
    <3>2. Near(bgd[g].free, FreeIn(imap, g), U16, crashes)
      BY <2>1, <3>1 DEF CountsNear
    <3> QED BY <2>3, <3>1, <3>2, InodeSets, NearDistance DEF FreeIn, Free
  <2>6. Cardinality(imap \ (Reserved \cup named \cup failed)) <= crashes
    <3>1. 0 \notin imap
      BY <2>1, InodeAssumption, SMT DEF TypeOK, Inodes
    <3>2. Orphans \ {op.ino} = imap \ (Reserved \cup named \cup failed)
      BY <2>1, <3>1 DEF Orphans
    <3> QED BY <2>1, <3>2 DEF FewOrphans
  <2>7. Off(SumDirs, Cardinality(dirs), U16) <= crashes
    <3>1. PICK k \in Nat : /\ k + Cardinality(Stale) <= crashes
                           /\ Near(SumDirs, Cardinality(dirs), U16, k)
      BY <2>1 DEF DirsNear
    <3>2. Cardinality(dirs) \in Int /\ Cardinality(Stale) \in Nat /\ crashes \in Nat
      <4>1. dirs \in SUBSET Inodes /\ Stale \in SUBSET Inodes
        BY <2>1 DEF TypeOK, Stale
      <4>2. Cardinality(dirs) \in Nat /\ Cardinality(Stale) \in Nat
        BY <4>1, InodeSets
      <4> QED BY <2>1, <4>2, Numbers
    <3>3. SumDirs \in Int
      <4>1. \A h \in Groups : bgd[h].dirs \in Nat
        BY <2>1, Numbers
      <4>2. PICK h \in Groups : TRUE
        BY RootGroup
      <4> QED BY <4>1, <4>2, SumMoves DEF SumDirs, Cells
    <3>4. PICK d \in Int : d = Distance(SumDirs, Cardinality(dirs), U16) /\ d <= k
      <4>1. SumDirs - Cardinality(dirs) \in Int /\ Cardinality(dirs) - SumDirs \in Int
        BY <3>2, <3>3, SMT
      <4>2. Distance(SumDirs, Cardinality(dirs), U16) \in Int
        BY <4>1, InodeSets, SMT DEF Distance
      <4> QED BY <3>1, <3>2, <3>3, <4>2, InodeSets, NearDistance
    <3>5. d <= crashes
      BY <3>1, <3>2, <3>4, SMT
    <3> QED BY <2>3, <3>4, <3>5
  <2> QED BY <2>1, <2>4, <2>5, <2>6, <2>7 DEF CountsNear
<1> QED BY <1>1, InitDrift, StepDrift, SpecIInv, PTL DEF Spec
=============================================================================
