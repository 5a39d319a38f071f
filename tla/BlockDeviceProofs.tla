------------------------- MODULE BlockDeviceProofs -------------------------
(***************************************************************************)
(* The device files for every sector size, partition boundary and set of   *)
(* requests.                                                               *)
(***************************************************************************)
EXTENDS BlockDevice, TLAPS

LEMMA Division ==
  ASSUME NEW n \in Nat, NEW B \in Nat \ {0}
  PROVE  /\ n \div B \in Nat /\ n % B \in 0 .. B - 1
         /\ (n \div B) * B + (n % B) = n
BY SMT

LEMMA SmallModulo ==
  ASSUME NEW n \in Nat, NEW m \in Nat, n < m
  PROVE  n % m = n
BY SMT

LEMMA Constants ==
  /\ BlkSize \in Nat \ {0} /\ PartStart \in Nat \ {0}
  /\ Half \in Nat \ {0} /\ U32 \in Nat \ {0} /\ Half <= U32
  /\ PartStart * BlkSize \in Nat /\ PartStart * BlkSize < Half
<1>1. /\ BlkSize \in Nat \ {0} /\ PartStart \in Nat \ {0} /\ U32 \in Nat
      /\ PartStart * BlkSize < Half
  BY DeviceAssumption
<1>2. PartStart * BlkSize \in Nat
  BY <1>1, SMT
<1>3. Half \in Nat /\ Half <= U32
  BY <1>1, SMT DEF Half
<1> QED BY <1>1, <1>2, <1>3, SMT

LEMMA RequestType ==
  ASSUME NEW r \in Writes \cup Reads \cup {NoRequest}
  PROVE  /\ r.minor \in {0, 1} /\ r.off \in Nat /\ r.len \in Nat
         /\ r.off + r.len < U32 /\ r.val \in Vals
<1>1. CASE r \in Writes \cup Reads
  BY <1>1, DeviceAssumption
<1>2. CASE r = NoRequest
  BY <1>2, DeviceAssumption, Constants, SMT DEF NoRequest
<1> QED BY <1>1, <1>2

(* Positions that lseek reports are below INT_MAX.                          *)
LEMMA LseekType ==
  ASSUME NEW minor \in {0, 1}, NEW index \in Nat
  PROVE  /\ lseek(minor, index) \in 0 .. Half - 1 \/ lseek(minor, index) = -1
         /\ lseek(minor, index) >= 0
              => lseek(minor, index) = ((index + First(minor)) * BlkSize) % U32
<1> DEFINE n == (index + First(minor)) * BlkSize
<1>1. First(minor) \in Nat
  BY Constants DEF First
<1>2. index + First(minor) \in Nat
  BY <1>1, SMT
<1>3. n \in Nat
  BY <1>2, Constants, SMT
<1>4. n % U32 \in Nat
  BY <1>3, Constants, SMT
<1>5. lseek(minor, index) = IF n % U32 >= Half THEN -1 ELSE n % U32
  BY DEF lseek
<1> HIDE DEF n
<1>6. QED BY <1>4, <1>5, Constants, SMT DEF n

LEMMA ReadType ==
  ASSUME TypeOK, NEW minor \in {0, 1}, NEW index \in Nat
  PROVE  /\ readblk_ret(minor, index) \in 0 .. BlkSize \/ readblk_ret(minor, index) = -1
         /\ readblk_buf(minor, index) \in [0 .. BlkSize - 1 -> Vals \cup {Junk}]
<1>1. size \in Nat /\ image \in [Positions -> Vals \cup {Junk}]
      /\ blk_buf \in [0 .. BlkSize - 1 -> Vals \cup {Junk}]
  BY Constants, SMT DEF TypeOK
<1>2. readblk_ret(minor, index) \in 0 .. BlkSize \/ readblk_ret(minor, index) = -1
  BY <1>1, LseekType, Constants, SMT DEF readblk_ret, Smaller, Larger
<1>3. ASSUME NEW i \in 0 .. BlkSize - 1, i < readblk_ret(minor, index)
      PROVE  lseek(minor, index) + i \in Positions
  BY <1>3, LseekType, Constants, SMT DEF readblk_ret, Positions
<1>4. ASSUME NEW i \in 0 .. BlkSize - 1
      PROVE  (IF i < readblk_ret(minor, index) THEN image[lseek(minor, index) + i] ELSE blk_buf[i])
               \in Vals \cup {Junk}
  <2>1. CASE i < readblk_ret(minor, index)
    BY <2>1, <1>1, <1>3
  <2>2. CASE ~(i < readblk_ret(minor, index))
    BY <2>2, <1>1
  <2> QED BY <2>1, <2>2
<1>5. readblk_buf(minor, index) \in [0 .. BlkSize - 1 -> Vals \cup {Junk}]
  BY <1>4 DEF readblk_buf
<1> QED BY <1>2, <1>5

(* Where a pass is: inside a sector, with at least one byte to move.        *)
LEMMA PassType ==
  ASSUME TypeOK, count > 0
  PROVE  /\ req.minor \in {0, 1} /\ req.val \in Vals
         /\ Index \in Nat /\ At \in 0 .. BlkSize - 1 /\ Index * BlkSize + At = off
         /\ Part \in 1 .. BlkSize /\ Part <= count /\ At + Part <= BlkSize
<1>1. off \in Nat /\ count \in Nat
  BY Constants, SMT DEF TypeOK
<1>2. req.minor \in {0, 1} /\ req.val \in Vals
  BY RequestType DEF TypeOK
<1>3. Index \in Nat /\ At \in 0 .. BlkSize - 1 /\ Index * BlkSize + At = off
  BY <1>1, Constants, Division DEF Index, At
<1>4. Part \in 1 .. BlkSize /\ Part <= count /\ At + Part <= BlkSize
  BY <1>1, <1>3, Constants, SMT DEF Part, Smaller
<1> QED BY <1>2, <1>3, <1>4

LEMMA AdvanceType ==
  ASSUME TypeOK, NEW n \in Nat, n <= count, Advance(n)
  PROVE  /\ off' \in 0 .. U32 - 1 /\ count' \in 0 .. U32 - 1
         /\ off' + count' = req.off + req.len
<1>1. off \in Nat /\ count \in Nat /\ off + count = req.off + req.len
  BY Constants, SMT DEF TypeOK
<1>2. req.off + req.len < U32 /\ req.off \in Nat /\ req.len \in Nat
  BY RequestType DEF TypeOK
<1>3. off' = off + n /\ count' = count - n
  BY DEF Advance
<1> QED BY <1>1, <1>2, <1>3, Constants, SMT

LEMMA StoreType ==
  ASSUME TypeOK, NEW pos \in 0 .. Half - 1,
         NEW data \in [0 .. BlkSize - 1 -> Vals \cup {Junk}], Store(pos, data)
  PROVE  image' \in [Positions -> Vals \cup {Junk}] /\ size' \in 0 .. Half + BlkSize
<1>1. ASSUME NEW p \in Positions
      PROVE  (IF p \in pos .. pos + BlkSize - 1 THEN data[p - pos] ELSE image[p])
               \in Vals \cup {Junk}
  <2>1. CASE p \in pos .. pos + BlkSize - 1
    <3>1. p - pos \in 0 .. BlkSize - 1
      BY <2>1, Constants, SMT
    <3> QED BY <2>1, <3>1
  <2>2. CASE p \notin pos .. pos + BlkSize - 1
    BY <2>2 DEF TypeOK
  <2> QED BY <2>1, <2>2
<1>2. image' \in [Positions -> Vals \cup {Junk}]
  BY <1>1 DEF Store
<1>3. size' \in 0 .. Half + BlkSize
  <2>1. size \in 0 .. Half + BlkSize
    BY DEF TypeOK
  <2>2. size' = Larger(size, pos + BlkSize)
    BY DEF Store
  <2> QED BY <2>1, <2>2, Constants, SMT DEF Larger
<1> QED BY <1>2, <1>3

-----------------------------------------------------------------------------
LEMMA InitType == Init => TypeOK
<1> SUFFICES ASSUME Init PROVE TypeOK
  OBVIOUS
<1>1. image \in [Positions -> Vals \cup {Junk}] /\ size \in 0 .. Half + BlkSize
  BY DeviceAssumption, Constants, SMT DEF Init
<1>2. blk_buf \in [0 .. BlkSize - 1 -> Vals \cup {Junk}]
  BY DEF Init
<1>3. req = NoRequest /\ pc = "idle" /\ off = 0 /\ count = 0 /\ got = <<>>
  BY DEF Init
<1>4. off + count = req.off + req.len
  BY <1>3 DEF NoRequest
<1>5. got \in Seq(Vals \cup {Junk})
  BY <1>3
<1> QED BY <1>1, <1>2, <1>3, <1>4, <1>5, Constants, SMT DEF TypeOK

LEMMA StartType ==
  ASSUME TypeOK, NEW r \in Writes \cup Reads, NEW o \in {"read", "write"}, Start(r, o)
  PROVE  TypeOK'
<1>1. r.off \in Nat /\ r.len \in Nat /\ r.off + r.len < U32
  BY RequestType
<1>2. blk_buf' \in [0 .. BlkSize - 1 -> Vals \cup {Junk}]
  BY DEF Start
<1>3. off' \in 0 .. U32 - 1 /\ count' \in 0 .. U32 - 1
      /\ off' + count' = req'.off + req'.len
  BY <1>1, Constants, SMT DEF Start
<1>4. pc' \in {"idle", "read", "write", "killed"} /\ got' \in Seq(Vals \cup {Junk})
      /\ req' \in Writes \cup Reads \cup {NoRequest}
      /\ UNCHANGED <<image, size>>
  BY DEF Start
<1> QED BY <1>2, <1>3, <1>4 DEF TypeOK

LEMMA ReadBlkType ==
  ASSUME TypeOK, ReadBlk
  PROVE  TypeOK'
<1> DEFINE n == Smaller(readblk_ret(req.minor, Index), Part)
           b == readblk_buf(req.minor, Index)
           d == [i \in 1 .. n |-> b[At + i - 1]]
<1>1. count > 0 /\ readblk_ret(req.minor, Index) >= 0
      /\ blk_buf' = b /\ got' = got \o d /\ Advance(n)
      /\ UNCHANGED <<image, size, pc, req>>
  BY DEF ReadBlk
<1>2. /\ req.minor \in {0, 1} /\ Index \in Nat /\ At \in 0 .. BlkSize - 1
      /\ Part \in 1 .. BlkSize /\ Part <= count /\ At + Part <= BlkSize
  BY <1>1, PassType
<1>3. /\ readblk_ret(req.minor, Index) \in 0 .. BlkSize
      /\ b \in [0 .. BlkSize - 1 -> Vals \cup {Junk}]
  BY <1>1, <1>2, ReadType, Constants, SMT
<1> HIDE DEF b
<1>4. count \in Nat
  BY Constants, SMT DEF TypeOK
<1>5. n \in Nat /\ n <= Part /\ n <= count
  BY <1>2, <1>3, <1>4, Constants, SMT DEF Smaller
<1> HIDE DEF n
<1>6. ASSUME NEW i \in 1 .. n PROVE b[At + i - 1] \in Vals \cup {Junk}
  <2>1. At + i - 1 \in 0 .. BlkSize - 1
    BY <1>2, <1>5, Constants, SMT
  <2> QED BY <2>1, <1>3
<1>7. d \in Seq(Vals \cup {Junk})
  BY <1>5, <1>6, SMT
<1> HIDE DEF d
<1>8. got \in Seq(Vals \cup {Junk})
  BY DEF TypeOK
<1>8a. got' \in Seq(Vals \cup {Junk})
  BY <1>1, <1>7, <1>8, SMT
<1>9. off' \in 0 .. U32 - 1 /\ count' \in 0 .. U32 - 1 /\ off' + count' = req.off + req.len
  BY <1>1, <1>5, AdvanceType
<1> QED BY <1>1, <1>3, <1>8a, <1>9 DEF TypeOK

LEMMA WriteBlkType ==
  ASSUME TypeOK, WriteBlk
  PROVE  TypeOK'
<1>1. count > 0 /\ Advance(Part) /\ UNCHANGED <<pc, req, got>>
      /\ blk_buf' = [i \in 0 .. BlkSize - 1 |->
                       IF i \in At .. At + Part - 1 THEN req.val ELSE Before[i]]
  BY DEF WriteBlk
<1>2. req.minor \in {0, 1} /\ req.val \in Vals /\ Index \in Nat
      /\ Part \in 1 .. BlkSize /\ Part <= count
  BY <1>1, PassType
<1>3. Before \in [0 .. BlkSize - 1 -> Vals \cup {Junk}]
  BY <1>2, ReadType DEF Before, TypeOK
<1>4. blk_buf' \in [0 .. BlkSize - 1 -> Vals \cup {Junk}]
  BY <1>1, <1>2, <1>3
<1>5. image' \in [Positions -> Vals \cup {Junk}] /\ size' \in 0 .. Half + BlkSize
  <2>1. CASE Accepts(req.minor, Index)
    <3>1. Store(lseek(req.minor, Index), blk_buf')
      BY <2>1 DEF WriteBlk
    <3>2. lseek(req.minor, Index) \in 0 .. Half - 1
      BY <2>1, <1>2, LseekType, SMT DEF Accepts
    <3> QED BY <3>1, <3>2, <1>4, StoreType
  <2>2. CASE ~Accepts(req.minor, Index)
    BY <2>2 DEF WriteBlk, TypeOK
  <2> QED BY <2>1, <2>2
<1>6. Part \in Nat
  BY <1>2, Constants, SMT
<1>7. off' \in 0 .. U32 - 1 /\ count' \in 0 .. U32 - 1 /\ off' + count' = req.off + req.len
  BY <1>1, <1>2, <1>6, AdvanceType
<1> QED BY <1>1, <1>4, <1>5, <1>7 DEF TypeOK

LEMMA TypeInductive == TypeOK /\ [Next]_vars => TypeOK'
<1> SUFFICES ASSUME TypeOK, [Next]_vars PROVE TypeOK'
  OBVIOUS
<1>1. CASE ReadStart
  BY <1>1, StartType DEF ReadStart
<1>2. CASE WriteStart
  BY <1>2, StartType DEF WriteStart
<1>3. CASE ReadBlk
  BY <1>3, ReadBlkType
<1>4. CASE WriteBlk
  BY <1>4, WriteBlkType
<1>5. CASE ReadRefused \/ WriteRefused \/ End \/ Kill
  BY <1>5 DEF ReadRefused, WriteRefused, End, Kill, TypeOK
<1>6. CASE Restart
  <2>1. /\ pc' = "idle" /\ req' = NoRequest /\ off' = 0 /\ count' = 0 /\ got' = <<>>
        /\ UNCHANGED <<image, size, blk_buf>>
    BY <1>6 DEF Restart
  <2>2. off' + count' = req'.off + req'.len
    BY <2>1 DEF NoRequest
  <2>3. got' \in Seq(Vals \cup {Junk}) /\ off' \in 0 .. U32 - 1 /\ count' \in 0 .. U32 - 1
    BY <2>1, Constants, SMT
  <2> QED BY <2>1, <2>2, <2>3 DEF TypeOK
<1>7. CASE UNCHANGED vars
  BY <1>7 DEF vars, TypeOK
<1> QED BY <1>1, <1>2, <1>3, <1>4, <1>5, <1>6, <1>7 DEF Next, Step

(* Type correctness of the device layer.                                    *)
THEOREM DeviceTypeCorrect == Spec => []TypeOK
<1> QED BY InitType, TypeInductive, PTL DEF Spec

-----------------------------------------------------------------------------
(* A sector of /dev/ide that writeblk_ide accepts ends before the volume.   *)
LEMMA SectorBelow ==
  ASSUME NEW index \in Nat, Accepts(0, index)
  PROVE  lseek(0, index) + BlkSize <= PartStart * BlkSize
<1> DEFINE n == (index + First(0)) * BlkSize
<1>1. index + 1 <= PartStart /\ lseek(0, index) >= 0
  BY Constants, SMT DEF Accepts
<1>2. n = index * BlkSize
  BY Constants, SMT DEF First
<1>3. n \in Nat /\ n + BlkSize = (index + 1) * BlkSize
  BY <1>2, Constants, SMT
<1>4. (index + 1) * BlkSize <= PartStart * BlkSize
  BY <1>1, Constants, SMT
<1>5. n < U32
  BY <1>3, <1>4, Constants, SMT
<1>6. lseek(0, index) = n % U32
  BY <1>1, LseekType
<1> HIDE DEF n
<1>7. n % U32 = n
  BY <1>3, <1>5, Constants, SmallModulo
<1> QED BY <1>3, <1>4, <1>6, <1>7, Constants, SMT

(* A sector of /dev/ide1 that does not wrap begins behind /dev/ide.         *)
LEMMA SectorAbove ==
  ASSUME NEW index \in Nat, (index + PartStart) * BlkSize < U32, lseek(1, index) >= 0
  PROVE  lseek(1, index) >= PartStart * BlkSize
<1> DEFINE n == (index + First(1)) * BlkSize
<1>1. n = (index + PartStart) * BlkSize
  BY DEF First
<1>2. n \in Nat /\ n >= PartStart * BlkSize
  BY <1>1, Constants, SMT
<1>3. lseek(1, index) = n % U32
  BY LseekType
<1>4. n < U32
  BY <1>1
<1> HIDE DEF n
<1>5. n % U32 = n
  BY <1>2, <1>4, Constants, SmallModulo
<1> QED BY <1>2, <1>3, <1>5

LEMMA WritePartitioned ==
  ASSUME TypeOK, WriteBlk, ~Wraps(req), NEW p \in Positions, image'[p] # image[p]
  PROVE  p < PartStart * BlkSize <=> req.minor = 0
<1>1. count > 0
  BY DEF WriteBlk
<1>2. req.minor \in {0, 1} /\ Index \in Nat /\ At \in 0 .. BlkSize - 1
      /\ Index * BlkSize + At = off
  BY <1>1, PassType
<1>3. Accepts(req.minor, Index)
  <2> SUFFICES ASSUME ~Accepts(req.minor, Index) PROVE FALSE
    OBVIOUS
  <2> QED BY DEF WriteBlk
<1>4. Store(lseek(req.minor, Index), blk_buf')
  BY <1>3 DEF WriteBlk
<1>5. p \in lseek(req.minor, Index) .. lseek(req.minor, Index) + BlkSize - 1
  <2> SUFFICES ASSUME p \notin lseek(req.minor, Index) .. lseek(req.minor, Index) + BlkSize - 1
               PROVE  FALSE
    OBVIOUS
  <2> QED BY <1>4 DEF Store
<1>6. lseek(req.minor, Index) \in 0 .. Half - 1
  BY <1>2, <1>3, LseekType, SMT DEF Accepts
<1>7. p \in Int /\ p >= lseek(req.minor, Index) /\ p <= lseek(req.minor, Index) + BlkSize - 1
  BY <1>5, <1>6, Constants, SMT
<1>8. CASE req.minor = 0
  <2>1. lseek(0, Index) + BlkSize <= PartStart * BlkSize
    BY <1>2, <1>3, <1>8, SectorBelow
  <2> QED BY <2>1, <1>6, <1>7, <1>8, Constants, SMT
<1>9. CASE req.minor = 1
  <2>1. off <= req.off + req.len /\ req.off + req.len \in Nat /\ off \in Nat
    <3>1. off \in Nat /\ count \in Nat /\ off + count = req.off + req.len
      BY Constants, SMT DEF TypeOK
    <3> QED BY <3>1, SMT
  <2>2. PartStart * BlkSize + (req.off + req.len) < U32
    BY <1>9, <2>1, Constants, SMT DEF Wraps, ImagePos, First
  <2>3. (Index + PartStart) * BlkSize = Index * BlkSize + PartStart * BlkSize
    BY <1>2, Constants, SMT
  <2>4. Index * BlkSize \in Nat /\ Index * BlkSize <= off
    BY <1>2, <2>1, Constants, SMT
  <2>5. (Index + PartStart) * BlkSize < U32
    BY <2>1, <2>2, <2>3, <2>4, Constants, SMT
  <2>6. lseek(1, Index) >= PartStart * BlkSize
    BY <1>2, <1>6, <1>9, <2>5, SectorAbove, SMT
  <2> QED BY <2>6, <1>6, <1>7, <1>9, Constants, SMT
<1> QED BY <1>2, <1>8, <1>9

(* Neither device file is ever written through into the part of the image   *)
(* that belongs to the other.                                               *)
THEOREM PartsKeptApart == Spec => Partitioned
<1>1. TypeOK /\ [Next]_vars =>
        [~Wraps(req) =>
           \A p \in Positions :
              image'[p] # image[p] => (p < PartStart * BlkSize <=> req.minor = 0)]_vars
  <2> SUFFICES ASSUME TypeOK, Next, ~Wraps(req), NEW p \in Positions, image'[p] # image[p]
               PROVE  p < PartStart * BlkSize <=> req.minor = 0
    OBVIOUS
  <2>1. CASE WriteBlk
    BY <2>1, WritePartitioned
  <2>2. CASE ~WriteBlk
    <3>1. UNCHANGED image
      BY <2>2 DEF Next, Step, ReadStart, WriteStart, Start, ReadBlk, ReadRefused,
                  WriteRefused, End, Kill, Restart
    <3> QED BY <3>1
  <2> QED BY <2>1, <2>2
<1> QED BY <1>1, DeviceTypeCorrect, PTL DEF Spec, Partitioned

-----------------------------------------------------------------------------
(* An image of whole sectors, and requests of which none comes so close to  *)
(* 4 GB that a position wraps.                                              *)
Sectors == /\ ImageSize % BlkSize = 0 /\ Half % BlkSize = 0
           /\ \A r \in Writes \cup Reads : ~Wraps(r)

LEMMA Multiple ==
  ASSUME NEW n \in Nat, NEW B \in Nat \ {0}
  PROVE  n * B \in Nat /\ (n * B) % B = 0
BY SMT

LEMMA NextMultiple ==
  ASSUME NEW B \in Nat \ {0}, NEW a \in Nat, a % B = 0
  PROVE  /\ (a + B) % B = 0
         /\ \A b \in Nat : b % B = 0 /\ a < b => a + B <= b
<1> DEFINE p == a \div B
<1>1. p \in Nat /\ a = p * B
  BY Division, SMT
<1> HIDE DEF p
<1>2. (p + 1) * B = a + B /\ p + 1 \in Nat
  BY <1>1, SMT
<1>3. (a + B) % B = 0
  BY <1>2, Multiple
<1>4. ASSUME NEW b \in Nat, b % B = 0, a < b PROVE a + B <= b
  <2> DEFINE q == b \div B
  <2>1. q \in Nat /\ b = q * B
    BY <1>4, Division, SMT
  <2> HIDE DEF q
  <2>2. q >= p + 1
    BY <1>1, <1>4, <2>1, SMT
  <2>3. q - (p + 1) \in Nat /\ q * B = (p + 1) * B + (q - (p + 1)) * B
    BY <1>1, <2>1, <2>2, SMT
  <2>4. (q - (p + 1)) * B \in Nat
    BY <2>3, Multiple
  <2> QED BY <1>2, <2>1, <2>3, <2>4, SMT
<1> QED BY <1>3, <1>4

(* The sector of a pass: b is where the image has it. *)
LEMMA PassSector ==
  ASSUME Sectors, TypeOK, count > 0
  PROVE  \E b \in Nat : /\ b % BlkSize = 0 /\ b + At = ImagePos(req.minor, off)
                        /\ lseek(req.minor, Index) = IF b >= Half THEN -1 ELSE b
                        /\ req.minor = 0 => b = Index * BlkSize
<1>1. PICK minor, index : minor = req.minor /\ index = Index
  OBVIOUS
<1>2. /\ minor \in {0, 1} /\ index \in Nat /\ At \in 0 .. BlkSize - 1 /\ index * BlkSize + At = off
  BY <1>1, PassType
<1>3. PICK f : f = First(minor)
  OBVIOUS
<1>4. f \in Nat /\ BlkSize \in Nat \ {0} /\ (minor = 0 => f = 0)
  BY <1>3, Constants DEF First
<1>5. PICK b : b = (index + f) * BlkSize
  OBVIOUS
<1>6. index + f \in Nat
  BY <1>2, <1>4
<1>7. b \in Nat /\ b % BlkSize = 0
  BY <1>4, <1>5, <1>6, Multiple
<1>8. b = index * BlkSize + f * BlkSize /\ index * BlkSize \in Nat /\ f * BlkSize \in Nat
  BY <1>2, <1>4, <1>5, SMT
<1>9. b + At = f * BlkSize + off
  BY <1>2, <1>4, <1>8, SMT
<1>10. b < U32
  <2>1. ~Wraps(req)
    <3>1. CASE req = NoRequest
      <4>1. req.off + req.len = 0
        BY <3>1 DEF NoRequest
      <4>2. off + count = 0 /\ off \in Nat /\ count \in Nat
        BY <4>1, Constants, SMT DEF TypeOK
      <4> QED BY <4>2, SMT
    <3> QED BY <3>1 DEF TypeOK, Sectors
  <2>2. f * BlkSize + (req.off + req.len) < U32
    <3>1. ~(f * BlkSize + (req.off + req.len) >= U32)
      BY <1>1, <1>3, <2>1 DEF Wraps, ImagePos
    <3>2. req.off + req.len \in Nat
      BY RequestType DEF TypeOK
    <3> QED BY <1>8, <3>1, <3>2, Constants, SMT
  <2>3. off \in Nat /\ count \in Nat /\ off + count = req.off + req.len
    BY Constants, SMT DEF TypeOK
  <2>4. f * BlkSize + (off + count) < U32
    BY <2>2, <2>3
  <2> QED BY <1>2, <1>4, <1>7, <1>8, <1>9, <2>3, <2>4, Constants, SMT
<1>11. lseek(minor, index) = IF b >= Half THEN -1 ELSE b
  <2>1. b % U32 = b
    BY <1>7, <1>10, Constants, SmallModulo
  <2> QED BY <1>3, <1>5, <2>1 DEF lseek
<1>12. minor = 0 => b = index * BlkSize
  BY <1>4, <1>8, SMT
<1>13. b + At = ImagePos(minor, off)
  BY <1>3, <1>9 DEF ImagePos
<1> QED BY <1>1, <1>7, <1>11, <1>12, <1>13

(* read(2) returns a sector, or nothing behind the end of the image.        *)
LEMMA WholeRead ==
  ASSUME NEW minor, NEW index, NEW b \in Nat, b % BlkSize = 0, b < Half, lseek(minor, index) = b,
         size \in Nat, size % BlkSize = 0
  PROVE  /\ b < size => /\ readblk_ret(minor, index) = BlkSize /\ b + BlkSize <= size
                        /\ \A i \in 0 .. BlkSize - 1 : readblk_buf(minor, index)[i] = image[b + i]
         /\ size <= b => readblk_ret(minor, index) = 0
<1>1. BlkSize \in Nat \ {0}
  BY Constants
<1>2. readblk_ret(minor, index) = Smaller(BlkSize, Larger(size - b, 0))
  BY SMT DEF readblk_ret
<1>3. CASE b < size
  <2>1. b + BlkSize <= size
    BY <1>1, <1>3, NextMultiple
  <2>2. Smaller(BlkSize, Larger(size - b, 0)) = BlkSize
    BY <1>1, <2>1, SMT DEF Smaller, Larger
  <2>3. \A i \in 0 .. BlkSize - 1 : readblk_buf(minor, index)[i] = image[b + i]
    <3>1. \A i \in 0 .. BlkSize - 1 : i < BlkSize
      BY <1>1, SMT
    <3> QED BY <1>2, <2>2, <3>1 DEF readblk_buf
  <2> QED BY <1>2, <1>3, <2>1, <2>2, <2>3, SMT
<1>4. CASE size <= b
  <2>1. Smaller(BlkSize, Larger(size - b, 0)) = 0
    BY <1>1, <1>4, SMT DEF Smaller, Larger
  <2> QED BY <1>2, <1>4, <2>1, SMT
<1> QED BY <1>3, <1>4, SMT

-----------------------------------------------------------------------------
(* The bytes of a write that the device takes, and those among them that    *)
(* the passes so far have stored.                                           *)
Own(o) == ImagePos(req.minor, o) < Half /\ (req.minor = 0 => o < PartStart * BlkSize)

Stored == \A o \in req.off .. off - 1 : Own(o) => image[ImagePos(req.minor, o)] = req.val

Passes ==
  /\ size % BlkSize = 0 /\ ImageSize <= size /\ req.off <= off
  /\ pc = "read" => Len(got) = off - req.off
  /\ pc = "write" => got = <<>> /\ req \in Writes /\ Stored
  /\ ReadsImage

LEMMA PassesInit ==
  ASSUME Sectors, Init
  PROVE  Passes
<1>1. ImageSize \in Nat
  BY DeviceAssumption, Constants, SMT
<1>2. size = ImageSize /\ pc = "idle" /\ req = NoRequest /\ off = 0 /\ got = <<>>
  BY DEF Init
<1>3. req.off = 0
  BY <1>2 DEF NoRequest
<1> QED BY <1>1, <1>2, <1>3, SMT DEF Passes, Sectors, ReadsImage

LEMMA PassesStart ==
  ASSUME TypeOK, Passes, NEW r \in Writes \cup Reads, NEW o \in {"read", "write"}, Start(r, o),
         o = "write" => r \in Writes
  PROVE  Passes'
<1>1. /\ pc' = o /\ req' = r /\ off' = r.off /\ got' = <<>> /\ size' = size /\ image' = image
  BY DEF Start
<1>2. r.off \in Nat
  BY RequestType
<1>3. Stored'
  <2>1. \A n \in r.off .. r.off - 1 : FALSE
    BY <1>2, SMT
  <2> QED BY <1>1, <2>1 DEF Stored
<1>4. ReadsImage'
  BY <1>1 DEF ReadsImage
<1>5. Len(got') = off' - req'.off /\ req'.off <= off'
  BY <1>1, <1>2, SMT
<1> QED BY <1>1, <1>3, <1>4, <1>5 DEF Passes

LEMMA Joined ==
  ASSUME NEW V, NEW s \in Seq(V), NEW t \in Seq(V)
  PROVE  /\ DOMAIN s = 1 .. Len(s)
         /\ Len(s \o t) = Len(s) + Len(t) /\ DOMAIN (s \o t) = 1 .. Len(s) + Len(t)
         /\ \A i \in 1 .. Len(s) : (s \o t)[i] = s[i]
         /\ \A i \in 1 .. Len(s) + Len(t) : i > Len(s) => (s \o t)[i] = t[i - Len(s)]
BY SMT

LEMMA PassesRead ==
  ASSUME Sectors, TypeOK, Passes, ReadBlk
  PROVE  Passes'
<1>1. PICK m, idx : m = req.minor /\ idx = Index
  OBVIOUS
<1>2. /\ count > 0 /\ readblk_ret(m, idx) >= 0 /\ pc = "read"
      /\ UNCHANGED <<image, size, pc, req>>
  BY <1>1 DEF ReadBlk
<1>3. PICK b \in Nat : /\ b % BlkSize = 0 /\ b + At = ImagePos(m, off)
                       /\ lseek(m, idx) = IF b >= Half THEN -1 ELSE b
  BY <1>1, <1>2, PassSector
<1>4. BlkSize \in Nat \ {0} /\ size \in Nat /\ size % BlkSize = 0
      /\ off \in Nat /\ req.off \in Nat /\ req.off <= off
  BY Constants, RequestType, SMT DEF TypeOK, Passes
<1>5. /\ At \in 0 .. BlkSize - 1 /\ Part \in 1 .. BlkSize /\ At + Part <= BlkSize
  BY <1>2, PassType
<1>6. b < Half /\ lseek(m, idx) = b
  <2>1. lseek(m, idx) >= 0
    BY <1>2, <1>3, SMT DEF readblk_ret
  <2> QED BY <1>3, <2>1, Constants, SMT
<1>7. PICK n, d : /\ n = Smaller(readblk_ret(m, idx), Part)
                  /\ d = [i \in 1 .. n |-> blk_buf'[At + i - 1]]
  OBVIOUS
<1>8. got' = got \o d /\ Advance(n) /\ blk_buf' = readblk_buf(m, idx)
  BY <1>1, <1>7 DEF ReadBlk
<1>9. n \in Nat /\ n <= Part
  <2>1. readblk_ret(m, idx) = BlkSize \/ readblk_ret(m, idx) = 0
    BY <1>3, <1>4, <1>6, WholeRead, SMT
  <2> QED BY <1>4, <1>5, <1>7, <2>1, SMT DEF Smaller
<1>10. ASSUME NEW i \in 1 .. n
       PROVE  d[i] = image[ImagePos(m, off) + i - 1]
  <2>1. readblk_ret(m, idx) # 0
    BY <1>4, <1>5, <1>7, <1>9, SMT DEF Smaller
  <2>2. b < size
    BY <1>3, <1>4, <1>6, <2>1, WholeRead, SMT
  <2>3. At + i - 1 \in 0 .. BlkSize - 1
    BY <1>4, <1>5, <1>9, SMT
  <2>4. readblk_buf(m, idx)[At + i - 1] = image[b + (At + i - 1)]
    BY <1>3, <1>4, <1>6, <2>2, <2>3, WholeRead
  <2>5. b + (At + i - 1) = b + At + i - 1
    BY <1>4, <1>5, <1>9, SMT
  <2> QED BY <1>3, <1>7, <1>8, <2>4, <2>5
<1>11. PICK g : g = Len(got)
  OBVIOUS
<1>12. g = off - req.off /\ g \in Nat /\ got \in Seq(Vals \cup {Junk})
  BY <1>2, <1>4, <1>11, SMT DEF Passes, TypeOK
<1>13. d \in Seq(Vals \cup {Junk}) /\ Len(d) = n
  <2>1. \A i \in 1 .. n : At + i - 1 \in 0 .. BlkSize - 1
    BY <1>4, <1>5, <1>9, SMT
  <2>2. \A i \in 1 .. n : blk_buf'[At + i - 1] \in Vals \cup {Junk}
    BY <2>1, ReadBlkType DEF TypeOK
  <2> QED BY <1>7, <1>9, <2>2, SMT
<1>14. /\ Len(got') = g + n /\ DOMAIN got' = 1 .. g + n
       /\ \A i \in 1 .. g : got'[i] = got[i]
       /\ \A i \in 1 .. g + n : i > g => got'[i] = d[i - g]
  <2>1. /\ Len(got \o d) = Len(got) + Len(d) /\ DOMAIN (got \o d) = 1 .. Len(got) + Len(d)
        /\ \A i \in 1 .. Len(got) : (got \o d)[i] = got[i]
        /\ \A i \in 1 .. Len(got) + Len(d) : i > Len(got) => (got \o d)[i] = d[i - Len(got)]
    BY <1>12, <1>13, Joined, ZenonT(60)
  <2> QED BY <1>8, <1>11, <1>13, <2>1
<1>15. PICK f : f = First(m) * BlkSize
  OBVIOUS
<1>16. f \in Nat /\ \A o : ImagePos(m, o) = f + o
  <2>1. First(m) \in Nat
    BY Constants DEF First
  <2> QED BY <1>15, <2>1, Constants, SMT DEF ImagePos
<1>17. ASSUME NEW i \in 1 .. g + n
       PROVE  got'[i] = image[ImagePos(m, req.off + i - 1)]
  <2>1. CASE i <= g
    <3>1. i \in 1 .. g
      BY <1>9, <1>12, <2>1, SMT
    <3>2. DOMAIN got = 1 .. g
      BY <1>11, <1>12, Joined
    <3> QED BY <1>1, <1>14, <3>1, <3>2 DEF Passes, ReadsImage
  <2>2. CASE i > g
    <3>0. PICK r : r = req.off
      OBVIOUS
    <3>1. i - g \in 1 .. n /\ f + off + (i - g) - 1 = f + (req.off + i - 1)
      <4>1. r \in Nat /\ off \in Nat /\ g = off - r /\ g \in Nat /\ f \in Nat /\ n \in Nat
        BY <1>4, <1>9, <1>12, <1>16, <3>0
      <4>2. i - g \in 1 .. n /\ f + off + (i - g) - 1 = f + (r + i - 1)
        BY <2>2, <4>1, SMT
      <4> QED BY <3>0, <4>2
    <3>2. got'[i] = image[ImagePos(m, off) + (i - g) - 1]
      BY <1>10, <1>14, <2>2, <3>1
    <3> QED BY <1>16, <3>1, <3>2
  <2> QED BY <1>9, <1>12, <2>1, <2>2, SMT
<1>18. ReadsImage'
  BY <1>1, <1>2, <1>14, <1>17 DEF ReadsImage
<1>19. off' = off + n
  BY <1>8 DEF Advance
<1>20. Len(got') = off' - req.off /\ req.off <= off'
  BY <1>4, <1>9, <1>12, <1>14, <1>19, SMT
<1> QED BY <1>2, <1>18, <1>20 DEF Passes

-----------------------------------------------------------------------------
(* No write reaches behind the end of the image. *)
InImage == \A r \in Writes : AsFlat(r).at \subseteq 0 .. ImageSize - 1

LEMMA Places ==
  ASSUME Sectors, req \in Writes
  PROVE  /\ \E f \in Nat : \A o : ImagePos(req.minor, o) = f + o
         /\ \A p : p \in AsFlat(req).at <=>
                     /\ p \in 0 .. Half - 1
                     /\ \E o \in req.off .. req.off + req.len - 1 :
                           Own(o) /\ p = ImagePos(req.minor, o)
<1>1. PICK f : f = First(req.minor) * BlkSize
  OBVIOUS
<1>2. f \in Nat /\ \A o : ImagePos(req.minor, o) = f + o
  <2>1. First(req.minor) \in Nat
    BY Constants DEF First
  <2> QED BY <1>1, <2>1, Constants, SMT DEF ImagePos
<1>3. PICK a, n : a = req.off /\ n = req.len
  OBVIOUS
<1>4. a \in Nat /\ n \in Nat /\ f + (a + n) < U32
  <2>1. a \in Nat /\ n \in Nat
    BY <1>3, RequestType
  <2>2. ~(f + (a + n) >= U32)
    BY <1>2, <1>3 DEF Sectors, Wraps
  <2> QED BY <1>2, <2>1, <2>2, Constants, SMT
<1>5. \A o \in a .. a + n - 1 : ImagePos(req.minor, o) % U32 = ImagePos(req.minor, o)
                                /\ ImagePos(req.minor, o) \in Nat
  <2> SUFFICES ASSUME NEW o \in a .. a + n - 1
               PROVE  (f + o) % U32 = f + o /\ f + o \in Nat
    BY <1>2
  <2>1. f \in Nat /\ U32 \in Nat
    BY <1>2, Constants
  <2>2. f + o \in Nat /\ f + o < U32
    BY <1>4, <2>1, SMT
  <2> QED BY <2>1, <2>2, SmallModulo
<1>6. AsFlat(req).at = {p \in 0 .. Half - 1 :
                          \E o \in a .. a + n - 1 :
                             /\ p = ImagePos(req.minor, o) % U32
                             /\ req.minor = 0 => o < PartStart * BlkSize}
  BY <1>3 DEF AsFlat
<1>7. ASSUME NEW p
      PROVE  p \in AsFlat(req).at <=>
               p \in 0 .. Half - 1 /\ \E o \in a .. a + n - 1 : Own(o) /\ p = ImagePos(req.minor, o)
  <2>1. \A o \in a .. a + n - 1 :
           p \in 0 .. Half - 1 =>
             (/\ p = ImagePos(req.minor, o) % U32
              /\ req.minor = 0 => o < PartStart * BlkSize)
             <=> (Own(o) /\ p = ImagePos(req.minor, o))
    BY <1>5, Constants, SMT DEF Own
  <2> QED BY <1>6, <2>1
<1> QED BY <1>2, <1>3, <1>7

(* A pass stores the bytes of the request that its sector has, or none of   *)
(* them.                                                                    *)
LEMMA WriteEffect ==
  ASSUME Sectors, InImage, TypeOK, Passes, WriteBlk
  PROVE  \E q \in Nat :
           /\ q = ImagePos(req.minor, off)
           /\ \A p \in Positions :
                image'[p] = IF Accepts(req.minor, Index) /\ q <= p /\ p < q + Part
                            THEN req.val ELSE image[p]
           /\ Accepts(req.minor, Index) => /\ q + Part <= Half
                                           /\ req.minor = 0 => off + Part <= PartStart * BlkSize
           /\ ~Accepts(req.minor, Index) => q >= Half \/ (req.minor = 0 /\ off >= PartStart * BlkSize)
           /\ size' % BlkSize = 0 /\ ImageSize <= size'
<1>1. PICK m, idx : m = req.minor /\ idx = Index
  OBVIOUS
<1>2. /\ count > 0 /\ pc = "write" /\ req \in Writes /\ req.off <= off
      /\ size % BlkSize = 0 /\ ImageSize <= size
  BY DEF WriteBlk, Passes
<1>3. /\ m \in {0, 1} /\ idx \in Nat /\ At \in 0 .. BlkSize - 1 /\ idx * BlkSize + At = off
      /\ Part \in 1 .. BlkSize /\ Part <= count /\ At + Part <= BlkSize
  BY <1>1, <1>2, PassType
<1>4. PICK b \in Nat : /\ b % BlkSize = 0 /\ b + At = ImagePos(m, off)
                       /\ lseek(m, idx) = IF b >= Half THEN -1 ELSE b
                       /\ m = 0 => b = idx * BlkSize
  BY <1>1, <1>2, PassSector
<1>5. PICK q : q = b + At
  OBVIOUS
<1>6. /\ BlkSize \in Nat \ {0} /\ size \in Nat /\ off \in Nat /\ count \in Nat
      /\ req.off \in Nat /\ req.len \in Nat /\ off + count = req.off + req.len
      /\ Half \in Nat /\ PartStart \in Nat /\ ImageSize \in Nat
  BY Constants, RequestType, DeviceAssumption, SMT DEF TypeOK
<1>7. q \in Nat /\ q = ImagePos(m, off)
  BY <1>3, <1>4, <1>5, <1>6, SMT
<1>8. Accepts(m, idx) <=> (m = 0 => idx < PartStart) /\ b < Half
  BY <1>4, <1>6, SMT DEF Accepts
<1>9. ASSUME Accepts(m, idx)
      PROVE  b + BlkSize <= Half /\ (m = 0 => idx * BlkSize + BlkSize <= PartStart * BlkSize)
  <2>1. b + BlkSize <= Half
    BY <1>4, <1>6, <1>8, <1>9, NextMultiple DEF Sectors
  <2>2. CASE m = 0
    <3>1. (idx + 1) * BlkSize <= PartStart * BlkSize
      BY <1>3, <1>6, <1>8, <1>9, <2>2, SMT
    <3>2. (idx + 1) * BlkSize = idx * BlkSize + BlkSize
      BY <1>3, <1>6, SMT
    <3> QED BY <2>1, <3>1, <3>2
  <2> QED BY <2>1, <2>2
<1>10. Accepts(m, idx) => q + Part <= Half /\ (m = 0 => off + Part <= PartStart * BlkSize)
  <2> SUFFICES ASSUME Accepts(m, idx)
               PROVE  q + Part <= Half /\ (m = 0 => off + Part <= PartStart * BlkSize)
    OBVIOUS
  <2>1. b + BlkSize <= Half
    BY <1>9
  <2>2. q + Part <= Half
    BY <1>3, <1>5, <1>6, <2>1, SMT
  <2>3. CASE m = 0
    <3>1. PICK k, e : k = idx * BlkSize /\ e = PartStart * BlkSize
      OBVIOUS
    <3>2. k \in Nat /\ e \in Nat /\ k + BlkSize <= e /\ k + At = off
      BY <1>3, <1>6, <1>9, <2>3, <3>1, Constants, Multiple
    <3>3. off + Part <= e
      BY <1>3, <1>6, <3>2, SMT
    <3> QED BY <2>2, <3>1, <3>3
  <2> QED BY <2>2, <2>3
<1>11. ~Accepts(m, idx) => q >= Half \/ (m = 0 /\ off >= PartStart * BlkSize)
  <2> SUFFICES ASSUME ~Accepts(m, idx), ~(q >= Half)
               PROVE  m = 0 /\ off >= PartStart * BlkSize
    OBVIOUS
  <2>1. b < Half
    BY <1>3, <1>5, <1>6, SMT
  <2>2. m = 0 /\ idx >= PartStart
    BY <1>3, <1>6, <1>8, <2>1, SMT
  <2>3. idx * BlkSize >= PartStart * BlkSize
    BY <1>3, <1>6, <2>2, SMT
  <2>4. PICK k, e : k = idx * BlkSize /\ e = PartStart * BlkSize
    OBVIOUS
  <2>5. k \in Nat /\ e \in Nat /\ k >= e /\ k + At = off
    BY <1>3, <1>6, <2>3, <2>4, Constants, Multiple
  <2>6. off >= e
    BY <1>3, <1>6, <2>5, SMT
  <2> QED BY <2>2, <2>4, <2>6
<1>12. CASE ~Accepts(m, idx)
  <2>1. UNCHANGED <<image, size>>
    BY <1>1, <1>12 DEF WriteBlk
  <2> QED BY <1>1, <1>2, <1>7, <1>11, <1>12, <2>1
<1>13. CASE Accepts(m, idx)
  <2>1. Store(b, blk_buf')
    BY <1>1, <1>4, <1>6, <1>8, <1>13, SMT DEF WriteBlk
  <2>2. blk_buf' = [i \in 0 .. BlkSize - 1 |-> IF i \in At .. At + Part - 1 THEN req.val ELSE Before[i]]
    BY DEF WriteBlk
  <2>3. b + BlkSize <= Half /\ b < Half
    BY <1>8, <1>9, <1>13
  <2>4. ASSUME Part < BlkSize PROVE \A i \in 0 .. BlkSize - 1 : Before[i] = image[b + i]
    <3>1. q \in AsFlat(req).at
      <4>1. Own(off)
        <5>1. q < Half
          BY <1>3, <1>6, <1>7, <1>10, <1>13, SMT
        <5>2. m = 0 => off < PartStart * BlkSize
          <6>1. PICK e : e = PartStart * BlkSize
            OBVIOUS
          <6>2. e \in Nat /\ (m = 0 => off + Part <= e)
            BY <1>10, <1>13, <6>1, Constants
          <6>3. m = 0 => off < e
            BY <1>3, <1>6, <6>2, SMT
          <6> QED BY <6>1, <6>3
        <5> QED BY <1>1, <1>7, <5>1, <5>2 DEF Own
      <4>2. off \in req.off .. req.off + req.len - 1
        BY <1>2, <1>6, SMT
      <4>3. q \in 0 .. Half - 1
        BY <1>3, <1>6, <1>7, <1>10, <1>13, SMT
      <4> QED BY <1>1, <1>2, <1>7, <4>1, <4>2, <4>3, Places
    <3>2. q \in 0 .. ImageSize - 1
      BY <1>2, <3>1 DEF InImage
    <3>3. b < size
      BY <1>2, <1>3, <1>5, <1>6, <3>2, SMT
    <3>4. lseek(m, idx) = b
      BY <1>4, <1>6, <2>3, SMT
    <3>5. \A i \in 0 .. BlkSize - 1 : readblk_buf(m, idx)[i] = image[b + i]
      BY <1>2, <1>4, <1>6, <2>3, <3>3, <3>4, WholeRead
    <3> QED BY <1>1, <2>4, <3>5 DEF Before
  <2>5. ASSUME NEW p \in Positions
        PROVE  image'[p] = IF q <= p /\ p < q + Part THEN req.val ELSE image[p]
    <3>1. p \in Nat
      BY Constants, SMT DEF Positions
    <3>2. image'[p] = IF p \in b .. b + BlkSize - 1 THEN blk_buf'[p - b] ELSE image[p]
      BY <2>1 DEF Store
    <3>3. CASE p \in b .. b + BlkSize - 1
      <4>1. p - b \in 0 .. BlkSize - 1 /\ b + (p - b) = p
        BY <1>6, <3>1, <3>3, SMT
      <4>2. image'[p] = IF p - b \in At .. At + Part - 1 THEN req.val ELSE Before[p - b]
        BY <2>2, <3>2, <3>3, <4>1
      <4>3. p - b \in At .. At + Part - 1 <=> q <= p /\ p < q + Part
        BY <1>3, <1>5, <1>6, <3>1, <4>1, SMT
      <4>4. CASE Part < BlkSize
        BY <2>4, <4>1, <4>2, <4>3, <4>4
      <4>5. CASE ~(Part < BlkSize)
        <5>1. Part = BlkSize /\ At = 0
          BY <1>3, <1>6, <4>5, SMT
        <5>2. p - b \in At .. At + Part - 1
          BY <1>6, <4>1, <5>1, SMT
        <5> QED BY <4>2, <4>3, <5>2
      <4> QED BY <4>4, <4>5
    <3>4. CASE p \notin b .. b + BlkSize - 1
      <4>1. ~(q <= p /\ p < q + Part)
        BY <1>3, <1>5, <1>6, <3>1, <3>4, SMT
      <4> QED BY <3>2, <3>4, <4>1
    <3> QED BY <3>3, <3>4
  <2>6. size' % BlkSize = 0 /\ ImageSize <= size'
    <3>1. size' = Larger(size, b + BlkSize)
      BY <2>1 DEF Store
    <3>2. (b + BlkSize) % BlkSize = 0
      BY <1>4, <1>6, NextMultiple
    <3>3. Larger(size, b + BlkSize) \in {size, b + BlkSize} /\ ImageSize <= Larger(size, b + BlkSize)
      BY <1>2, <1>6, SMT DEF Larger
    <3> QED BY <1>2, <3>1, <3>2, <3>3
  <2> QED BY <1>1, <1>7, <1>10, <1>13, <2>5, <2>6
<1> QED BY <1>12, <1>13

LEMMA PassesWrite ==
  ASSUME Sectors, InImage, TypeOK, Passes, WriteBlk
  PROVE  Passes'
<1>1. PICK q \in Nat :
        /\ q = ImagePos(req.minor, off)
        /\ \A p \in Positions :
             image'[p] = IF Accepts(req.minor, Index) /\ q <= p /\ p < q + Part
                         THEN req.val ELSE image[p]
        /\ Accepts(req.minor, Index) => /\ q + Part <= Half
                                        /\ req.minor = 0 => off + Part <= PartStart * BlkSize
        /\ ~Accepts(req.minor, Index) => q >= Half \/ (req.minor = 0 /\ off >= PartStart * BlkSize)
        /\ size' % BlkSize = 0 /\ ImageSize <= size'
  BY WriteEffect
<1>2. /\ pc' = pc /\ req' = req /\ got' = got /\ off' = off + Part /\ count > 0
      /\ pc = "write" /\ req \in Writes /\ got = <<>> /\ req.off <= off /\ Stored
  BY DEF WriteBlk, Advance, Passes
<1>3. Part \in Nat /\ off \in Nat /\ req.off \in Nat /\ Half \in Nat
  BY <1>2, PassType, RequestType, Constants, SMT DEF TypeOK
<1>4. PICK f \in Nat : \A o : ImagePos(req.minor, o) = f + o
  BY <1>2, Places
<1>5. PICK a, n, e : a = req.off /\ n = Part /\ e = PartStart * BlkSize
  OBVIOUS
<1>6. a \in Nat /\ n \in Nat /\ a <= off /\ e \in Nat
  BY <1>2, <1>3, <1>5, Constants
<1>7. ASSUME NEW o \in a .. (off + n) - 1, Own(o)
      PROVE  image'[f + o] = req.val
  <2>1. o \in Nat /\ f + o \in Nat /\ f + o < Half /\ (req.minor = 0 => o < e)
    BY <1>4, <1>5, <1>6, <1>7, SMT DEF Own
  <2>2. f + o \in Positions
    <3>1. f + o \in Nat
      BY <2>1
    <3> QED BY <2>1, <3>1, Constants, SMT DEF Positions
  <2>3. q = f + off
    BY <1>1, <1>4
  <2>4. CASE o < off
    <3>1. o \in a .. off - 1
      BY <1>3, <1>6, <2>1, <2>4, SMT
    <3>2. image[f + o] = req.val
      BY <1>2, <1>4, <1>5, <1>7, <3>1 DEF Stored
    <3> QED BY <1>1, <2>2, <3>2
  <2>5. CASE o >= off
    <3>1. q <= f + o /\ f + o < q + n
      BY <1>3, <1>6, <2>1, <2>3, <2>5, SMT
    <3>2. q < Half
      BY <1>3, <2>1, <3>1, SMT
    <3>3. req.minor = 0 => off < e
      BY <1>3, <1>6, <2>1, <2>5, SMT
    <3>4. Accepts(req.minor, Index)
      <4>1. ~(q >= Half)
        BY <1>3, <3>2, SMT
      <4>2. req.minor = 0 => ~(off >= e)
        BY <1>3, <1>6, <3>3, SMT
      <4> QED BY <1>1, <1>5, <4>1, <4>2
    <3> QED BY <1>1, <1>5, <2>2, <3>1, <3>4
  <2> QED BY <1>3, <2>1, <2>4, <2>5, SMT
<1>8. Stored'
  <2>1. \A o : Own(o)' <=> Own(o)
    BY <1>2 DEF Own
  <2>2. \A o \in req.off .. off' - 1 : Own(o) => image'[ImagePos(req.minor, o)] = req.val
    <3> SUFFICES ASSUME NEW o \in req.off .. off' - 1, Own(o)
                 PROVE  image'[ImagePos(req.minor, o)] = req.val
      OBVIOUS
    <3>1. o \in a .. (off + n) - 1
      BY <1>2, <1>5
    <3>2. image'[f + o] = req.val
      BY <1>7, <3>1
    <3> QED BY <1>4, <3>2
  <2> QED BY <1>2, <2>1, <2>2 DEF Stored, ImagePos, First
<1>9. req'.off <= off' /\ ReadsImage'
  <2>1. a <= off + n
    BY <1>3, <1>6, SMT
  <2> QED BY <1>2, <1>5, <2>1 DEF ReadsImage
<1> QED BY <1>1, <1>2, <1>8, <1>9 DEF Passes

LEMMA PassesNext ==
  ASSUME Sectors, InImage, TypeOK, Passes, [Next]_vars
  PROVE  Passes'
<1>1. CASE ReadStart
  BY <1>1, PassesStart DEF ReadStart
<1>2. CASE WriteStart
  BY <1>2, PassesStart DEF WriteStart
<1>3. CASE ReadBlk
  BY <1>3, PassesRead
<1>4. CASE WriteBlk
  BY <1>4, PassesWrite
<1>5. CASE ReadRefused \/ WriteRefused \/ End \/ Kill
  <2>1. UNCHANGED <<image, size, req, off, got>> /\ pc' \in {"idle", "killed"}
    BY <1>5 DEF ReadRefused, WriteRefused, End, Kill
  <2> QED BY <2>1 DEF Passes, ReadsImage
<1>6. CASE Restart
  <2>1. pc' = "idle" /\ req'.off = 0 /\ off' = 0 /\ got' = <<>> /\ size' = size
    BY <1>6 DEF Restart, NoRequest
  <2> QED BY <2>1, SMT DEF Passes, ReadsImage
<1>7. CASE UNCHANGED vars
  BY <1>7 DEF vars, Passes, ReadsImage, Stored, Own
<1> QED BY <1>1, <1>2, <1>3, <1>4, <1>5, <1>6, <1>7 DEF Next, Step

LEMMA PassesAlways ==
  ASSUME Sectors, InImage
  PROVE  Spec => [](TypeOK /\ Passes)
<1>1. Init => TypeOK /\ Passes
  BY InitType, PassesInit
<1>2. TypeOK /\ Passes /\ [Next]_vars => (TypeOK /\ Passes)'
  BY TypeInductive, PassesNext
<1> QED BY <1>1, <1>2, PTL DEF Spec

(* A read delivers what the image holds, however it is cut into sectors,    *)
(* for every set of requests that stay in an image of whole sectors.        *)
THEOREM ReadsAreTrue ==
  ASSUME Sectors, InImage
  PROVE  Spec => []ReadsImage
<1>1. Passes => ReadsImage
  BY DEF Passes
<1> QED BY <1>1, PassesAlways, PTL

-----------------------------------------------------------------------------
LEMMA FlatFields ==
  /\ Flat!NoRequest = [at |-> {}, val |-> -1]
  /\ \A r \in Writes : AsFlat(r).val = r.val /\ AsFlat(r) # Flat!NoRequest
<1>1. Flat!NoRequest = [at |-> {}, val |-> -1]
  BY DEF Flat!NoRequest
<1>2. ASSUME NEW r \in Writes PROVE AsFlat(r).val = r.val /\ AsFlat(r) # Flat!NoRequest
  <2>1. AsFlat(r).val = r.val
    BY DEF AsFlat
  <2>2. r.val \in Nat
    BY RequestType, DeviceAssumption
  <2>3. [at |-> {}, val |-> -1].val = -1
    OBVIOUS
  <2>4. r.val # -1
    BY <2>2, SMT
  <2> QED BY <1>1, <2>1, <2>3, <2>4
<1> QED BY <1>1, <1>2

(* When a write ends or is refused, all bytes are stored that the device    *)
(* takes.                                                                   *)
LEMMA EndMaps ==
  ASSUME Sectors, TypeOK, Passes, pc = "write", count = 0 \/ WriteRefused
  PROVE  \A p \in AsFlat(req).at : image[p] = req.val
<1>1. req \in Writes /\ Stored /\ req.off <= off
  BY DEF Passes
<1>2. PICK f \in Nat : \A o : ImagePos(req.minor, o) = f + o
  BY <1>1, Places
<1>3. PICK a, n : a = req.off /\ n = req.len
  OBVIOUS
<1>4. a \in Nat /\ n \in Nat /\ off \in Nat /\ count \in Nat /\ off + count = a + n /\ a <= off
  BY <1>1, <1>3, RequestType, Constants, SMT DEF TypeOK
<1>5. ASSUME NEW o \in a .. a + n - 1, Own(o) PROVE o < off
  <2>1. o \in Nat
    BY <1>4, SMT
  <2>2. CASE count = 0
    BY <1>4, <2>1, <2>2, SMT
  <2>3. CASE WriteRefused
    <3>1. PICK m, idx : m = req.minor /\ idx = Index
      OBVIOUS
    <3>2. count > 0 /\ readblk_ret(m, idx) < 0
      BY <2>3, <3>1 DEF WriteRefused
    <3>3. PICK b \in Nat : /\ b % BlkSize = 0 /\ b + At = ImagePos(m, off)
                           /\ lseek(m, idx) = IF b >= Half THEN -1 ELSE b
      BY <3>1, <3>2, PassSector
    <3>4. b >= Half
      <4> SUFFICES ASSUME ~(b >= Half) PROVE FALSE
        OBVIOUS
      <4>1. b < Half /\ lseek(m, idx) = b
        BY <3>3, Constants, SMT
      <4>2. size \in Nat /\ size % BlkSize = 0
        BY Constants, SMT DEF TypeOK, Passes
      <4>3. readblk_ret(m, idx) = BlkSize \/ readblk_ret(m, idx) = 0
        BY <3>3, <4>1, <4>2, WholeRead, SMT
      <4> QED BY <3>2, <4>3, Constants, SMT
    <3>5. At \in Nat /\ b + At = f + off
      BY <1>2, <3>1, <3>2, <3>3, PassType, Constants, SMT
    <3>6. f + o < Half
      BY <1>2, <1>5 DEF Own
    <3>7. Half \in Nat /\ f \in Nat
      BY Constants
    <3> QED BY <1>4, <2>1, <3>4, <3>5, <3>6, <3>7, SMT
  <2> QED BY <2>2, <2>3
<1>6. ASSUME NEW o \in a .. a + n - 1, Own(o) PROVE image[ImagePos(req.minor, o)] = req.val
  <2>1. o \in a .. off - 1
    BY <1>4, <1>5, <1>6, SMT
  <2> QED BY <1>1, <1>3, <1>6, <2>1 DEF Stored
<1> QED BY <1>1, <1>3, <1>6, Places

LEMMA PutMaps ==
  ASSUME Sectors, InImage, TypeOK, Passes, WriteBlk
  PROVE  \A p \in Positions : image'[p] = image[p] \/ (p \in AsFlat(req).at /\ image'[p] = req.val)
<1>1. PICK q \in Nat :
        /\ q = ImagePos(req.minor, off)
        /\ \A p \in Positions :
             image'[p] = IF Accepts(req.minor, Index) /\ q <= p /\ p < q + Part
                         THEN req.val ELSE image[p]
        /\ Accepts(req.minor, Index) => /\ q + Part <= Half
                                        /\ req.minor = 0 => off + Part <= PartStart * BlkSize
  BY WriteEffect
<1>2. count > 0 /\ pc = "write" /\ req \in Writes /\ req.off <= off
  BY DEF WriteBlk, Passes
<1>3. PICK f \in Nat : \A o : ImagePos(req.minor, o) = f + o
  BY <1>2, Places
<1>4. PICK a, n, len, e : a = req.off /\ n = Part /\ len = req.len /\ e = PartStart * BlkSize
  OBVIOUS
<1>5. /\ a \in Nat /\ n \in Nat /\ len \in Nat /\ a <= off /\ e \in Nat /\ off \in Nat
      /\ count \in Nat /\ n <= count /\ off + count = a + len /\ Half \in Nat
  BY <1>2, <1>4, PassType, RequestType, Constants, SMT DEF TypeOK
<1>6. ASSUME NEW p \in Positions, Accepts(req.minor, Index), q <= p, p < q + n
      PROVE  p \in AsFlat(req).at
  <2>1. p \in Nat
    BY Constants, SMT DEF Positions
  <2>2. PICK o : o = p - f
    OBVIOUS
  <2>3. q = f + off
    BY <1>1, <1>3
  <2>4. /\ o \in a .. a + len - 1 /\ p = f + o /\ o < off + n
    BY <1>3, <1>5, <1>6, <2>1, <2>2, <2>3, SMT
  <2>5. p \in 0 .. Half - 1 /\ p < Half
    BY <1>1, <1>4, <1>5, <1>6, <2>1, SMT
  <2>6. req.minor = 0 => o < e
    <3>1. o \in Int
      BY <1>3, <2>1, <2>2, SMT
    <3>2. req.minor = 0 => off + n <= e
      BY <1>1, <1>4, <1>6
    <3> QED BY <1>5, <2>4, <3>1, <3>2, SMT
  <2>7. Own(o) /\ p = ImagePos(req.minor, o)
    BY <1>3, <1>4, <2>4, <2>5, <2>6 DEF Own
  <2> QED BY <1>2, <1>4, <2>4, <2>5, <2>7, Places
<1> QED BY <1>1, <1>4, <1>6

(* Through whichever device file, whatever the sectors, and whenever the    *)
(* program is killed, the image is an array of bytes: a write changes only  *)
(* the bytes that it names and the device has, and when it is over it has   *)
(* changed them all.                                                        *)
THEOREM DeviceImplementsFlat ==
  ASSUME Sectors, InImage
  PROVE  Spec => ImplementsFlat
<1>1. Init => Flat!Init
  BY FlatFields DEF Init, Flat!Init
<1>2. TypeOK /\ Passes /\ [Next]_vars => [Flat!Next]_Flat!vars
  <2> SUFFICES ASSUME TypeOK, Passes, [Next]_vars PROVE [Flat!Next]_Flat!vars
    OBVIOUS
  <2>2. CASE ReadStart
    BY <2>2 DEF ReadStart, Start, Flat!vars
  <2>3. CASE WriteStart
    <3>1. PICK r \in Writes : Start(r, "write")
      BY <2>3 DEF WriteStart
    <3>2. pc = "idle" /\ pc' = "write" /\ req' = r /\ image' = image
      BY <3>1 DEF Start
    <3>3. AsFlat(r) \in {AsFlat(w) : w \in Writes} /\ AsFlat(req)' = AsFlat(r)
      BY <3>2 DEF AsFlat, ImagePos, First
    <3>4. Flat!Begin(AsFlat(r))
      BY <3>2, <3>3, FlatFields DEF Flat!Begin
    <3> QED BY <3>3, <3>4 DEF Flat!Next
  <2>4. CASE ReadBlk \/ ReadRefused \/ (End /\ pc = "read")
    BY <2>4 DEF ReadBlk, ReadRefused, End, Flat!vars
  <2>5. CASE WriteBlk
    <3>1. pc = "write" /\ UNCHANGED <<pc, req>> /\ req \in Writes
      BY <2>5 DEF WriteBlk, Passes
    <3>2. AsFlat(req)' = AsFlat(req)
      BY <3>1 DEF AsFlat, ImagePos, First
    <3>3. \A p \in Positions : image'[p] = image[p] \/ (p \in AsFlat(req).at /\ image'[p] = AsFlat(req).val)
      BY <2>5, <3>1, PutMaps, FlatFields
    <3>4. Flat!Put
      BY <3>1, <3>2, <3>3, FlatFields DEF Flat!Put
    <3> QED BY <3>4 DEF Flat!Next
  <2>6. CASE WriteRefused \/ (End /\ pc = "write")
    <3>1. pc = "write" /\ pc' = "idle" /\ image' = image /\ req \in Writes /\ (count = 0 \/ WriteRefused)
      BY <2>6 DEF WriteRefused, End, Passes
    <3>2. \A p \in AsFlat(req).at : image[p] = AsFlat(req).val
      BY <3>1, EndMaps, FlatFields
    <3>3. Flat!End
      BY <3>1, <3>2, FlatFields DEF Flat!End
    <3> QED BY <3>3 DEF Flat!Next
  <2>7. CASE Kill
    <3>1. Flat!Kill
      BY <2>7, FlatFields DEF Kill, Flat!Kill
    <3> QED BY <3>1 DEF Flat!Next
  <2>8. CASE Restart
    <3>1. Flat!Restart
      BY <2>8 DEF Restart, Flat!Restart
    <3> QED BY <3>1 DEF Flat!Next
  <2>9. CASE UNCHANGED vars
    BY <2>9 DEF vars, Flat!vars, AsFlat, ImagePos, First
  <2> QED BY <2>2, <2>3, <2>4, <2>5, <2>6, <2>7, <2>8, <2>9 DEF Next, Step, End
<1> QED BY <1>1, <1>2, PassesAlways, PTL DEF Spec, ImplementsFlat, Flat!Spec
=============================================================================
