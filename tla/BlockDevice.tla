---------------------------- MODULE BlockDevice ----------------------------
(***************************************************************************)
(* The device files /dev/ide (minor 0) and /dev/ide1 (minor 1) of          *)
(* fs/vfs.c: reads and writes of byte ranges (ddriv_read_blk,              *)
(* ddriv_write_blk) on top of the sectors of fs/gendrivers.c (readblk_ide, *)
(* writeblk_ide).  Both are views of one image file; /dev/ide1, which      *)
(* holds the volume, begins PartStart sectors behind /dev/ide.             *)
(*                                                                         *)
(* A step is one pass of a loop: at most one sector is written in it.  The *)
(* process may be killed between passes.                                   *)
(***************************************************************************)
EXTENDS Integers, Sequences

CONSTANTS
  BlkSize,     \* dd_blksize, 512
  PartStart,   \* the 4096 of readblk_ide and writeblk_ide
  U32,         \* the number of uint32_t values; an int holds half of them
  ImageSize,   \* size of the image file at the start
  Vals,        \* values of a byte
  Junk,        \* whatever malloc leaves in a buffer
  Writes,      \* the write requests: [minor, off, len, val]
  Reads        \* the read requests, val unused

Half      == U32 \div 2
Positions == 0 .. Half + BlkSize - 1    \* all that lseek can reach and its sector

ASSUME DeviceAssumption ==
  /\ BlkSize \in Nat \ {0} /\ PartStart \in Nat \ {0} /\ U32 \in Nat
  /\ PartStart * BlkSize < Half
  /\ ImageSize \in 0 .. Half
  /\ 0 \in Vals /\ Vals \subseteq Nat /\ Junk \notin Vals
  /\ \A r \in Writes \cup Reads :
        /\ r.minor \in {0, 1} /\ r.off \in Nat /\ r.len \in Nat \ {0}
        /\ r.off + r.len < U32 /\ r.val \in Vals

VARIABLES
  image,    \* the bytes of the image file, 0 where it has none
  size,     \* its size
  blk_buf,  \* the sector buffer of the operation
  pc,       \* "idle", "read", "write" or "killed"
  req,      \* the request in progress or last done
  off,      \* offset_akt
  count,    \* akt_count
  got       \* what a read has delivered

vars == <<image, size, blk_buf, pc, req, off, count, got>>

NoRequest == [minor |-> 1, off |-> 0, len |-> 0, val |-> 0]
Smaller(a, b) == IF a <= b THEN a ELSE b
Larger(a, b)  == IF a >= b THEN a ELSE b

First(minor) == IF minor = 1 THEN PartStart ELSE 0

(* Deviation: the volume is looked for at the beginning of the image.       *)
M_lseek(minor, index) ==
  IF index * BlkSize >= Half THEN -1 ELSE index * BlkSize

(* The product wraps as a uint32_t; the result of lseek is kept in an int,  *)
(* so that a position above INT_MAX is taken for an error.                  *)
lseek(minor, index) ==
  LET pos == ((index + First(minor)) * BlkSize) % U32
  IN  IF pos >= Half THEN -1 ELSE pos

(* readblk_ide: what read(2) returns, and the buffer after it.              *)
readblk_ret(minor, index) ==
  LET pos == lseek(minor, index)
  IN  IF pos < 0 THEN -1 ELSE Smaller(BlkSize, Larger(size - pos, 0))

readblk_buf(minor, index) ==
  [i \in 0 .. BlkSize - 1 |->
     IF i < readblk_ret(minor, index) THEN image[lseek(minor, index) + i] ELSE blk_buf[i]]

(* writeblk_ide writes the sector, or returns -1.                           *)
Accepts(minor, index) ==
  /\ minor = 0 => index < PartStart
  /\ lseek(minor, index) >= 0

Store(pos, data) ==
  /\ image' = [p \in Positions |->
                 IF p \in pos .. pos + BlkSize - 1 THEN data[p - pos] ELSE image[p]]
  /\ size' = Larger(size, pos + BlkSize)

Init ==
  /\ image = [p \in Positions |-> 0] /\ size = ImageSize
  /\ blk_buf = [i \in 0 .. BlkSize - 1 |-> Junk]
  /\ pc = "idle" /\ req = NoRequest /\ off = 0 /\ count = 0 /\ got = <<>>

(* read_from_dev and write_to_dev: llseek, and the buffer is allocated.     *)
Start(r, op) ==
  /\ pc = "idle"
  /\ pc' = op /\ req' = r /\ off' = r.off /\ count' = r.len /\ got' = <<>>
  /\ blk_buf' = [i \in 0 .. BlkSize - 1 |-> Junk]
  /\ UNCHANGED <<image, size>>

ReadStart  == \E r \in Reads : Start(r, "read")
WriteStart == \E r \in Writes : Start(r, "write")

(* Deviation: the sector is computed once, before the loop.                 *)
M_Index == req.off \div BlkSize

Index == off \div BlkSize
At    == off % BlkSize

(* ncnt: the bytes of the sector that belong to the request.                *)
Part == Smaller(BlkSize - At, count)

(* Deviation: the count goes down by whole sectors.                         *)
M_Advance(n) == off' = off + n /\ count' = count - BlkSize

Advance(n) == off' = off + n /\ count' = count - n

(* A pass of ddriv_read_blk.  A sector that the image does not have, or has *)
(* in part, counts for what read(2) returned: with 0 the pass changes       *)
(* nothing and is repeated for ever.                                        *)
ReadBlk ==
  /\ pc = "read" /\ count > 0 /\ readblk_ret(req.minor, Index) >= 0
  /\ LET n == Smaller(readblk_ret(req.minor, Index), Part)
     IN  /\ blk_buf' = readblk_buf(req.minor, Index)
         /\ got' = got \o [i \in 1 .. n |-> blk_buf'[At + i - 1]]
         /\ Advance(n)
  /\ UNCHANGED <<image, size, pc, req>>

(* goto ende: the bytes delivered so far are reported.                      *)
ReadRefused ==
  /\ pc = "read" /\ count > 0 /\ readblk_ret(req.minor, Index) < 0
  /\ pc' = "idle"
  /\ UNCHANGED <<image, size, blk_buf, req, off, count, got>>

(* Deviation: a sector that is written in part is not read before.          *)
M_Before == blk_buf

(* A sector that is written in part is read first.                          *)
Before == IF Part < BlkSize THEN readblk_buf(req.minor, Index) ELSE blk_buf

(* A pass of ddriv_write_blk.  Its test for an error of writeblk never      *)
(* holds, nwrt being unsigned: a sector that is refused counts as written.  *)
WriteBlk ==
  /\ pc = "write" /\ count > 0
  /\ Part < BlkSize => readblk_ret(req.minor, Index) >= 0
  /\ blk_buf' = [i \in 0 .. BlkSize - 1 |->
                   IF i \in At .. At + Part - 1 THEN req.val ELSE Before[i]]
  /\ IF Accepts(req.minor, Index) THEN Store(lseek(req.minor, Index), blk_buf')
                                  ELSE UNCHANGED <<image, size>>
  /\ Advance(Part)
  /\ UNCHANGED <<pc, req, got>>

WriteRefused ==
  /\ pc = "write" /\ count > 0
  /\ Part < BlkSize /\ readblk_ret(req.minor, Index) < 0
  /\ pc' = "idle"
  /\ UNCHANGED <<image, size, blk_buf, req, off, count, got>>

End ==
  /\ pc \in {"read", "write"} /\ count = 0
  /\ pc' = "idle"
  /\ UNCHANGED <<image, size, blk_buf, req, off, count, got>>

Kill ==
  /\ pc \in {"read", "write"}
  /\ pc' = "killed"
  /\ UNCHANGED <<image, size, blk_buf, req, off, count, got>>

Restart ==
  /\ pc = "killed"
  /\ pc' = "idle" /\ req' = NoRequest /\ off' = 0 /\ count' = 0 /\ got' = <<>>
  /\ UNCHANGED <<image, size, blk_buf>>

Step == ReadBlk \/ ReadRefused \/ WriteBlk \/ WriteRefused \/ End
Next == ReadStart \/ WriteStart \/ Step \/ Kill \/ Restart

Spec == Init /\ [][Next]_vars

-----------------------------------------------------------------------------
TypeOK ==
  /\ image \in [Positions -> Vals \cup {Junk}]
  /\ size \in 0 .. Half + BlkSize
  /\ blk_buf \in [0 .. BlkSize - 1 -> Vals \cup {Junk}]
  /\ pc \in {"idle", "read", "write", "killed"}
  /\ req \in Writes \cup Reads \cup {NoRequest}
  /\ off \in 0 .. U32 - 1 /\ count \in 0 .. U32 - 1
  /\ off + count = req.off + req.len
  /\ got \in Seq(Vals \cup {Junk})

(* Where in the image byte o of a device file is.                           *)
ImagePos(minor, o) == First(minor) * BlkSize + o

(* The program keeps to /dev/ide1 and its test to the start of /dev/ide:    *)
(* neither view writes into the other's part of the image, as long as       *)
(* /dev/ide1 is not used so close to 4 GB that the position wraps.          *)
Wraps(r) == ImagePos(r.minor, r.off + r.len) >= U32
Partitioned ==
  [][~Wraps(req) =>
       \A p \in Positions :
          image'[p] # image[p] => (p < PartStart * BlkSize <=> req.minor = 0)]_vars

(* What a read has delivered is what the image holds there, in an image of  *)
(* whole sectors: of a sector that is there in part, bytes are delivered    *)
(* that were never read.                                                    *)
ReadsImage ==
  \A i \in DOMAIN got : got[i] = image[ImagePos(req.minor, req.off + i - 1)]

(* A write that reports all of its bytes has stored them: test_read_write   *)
(* asserts that it reads back what it has written (line 570).               *)
WritesKept ==
  pc = "write" /\ count = 0 =>
    \A o \in req.off .. req.off + req.len - 1 : image[ImagePos(req.minor, o)] = req.val

(* The image as an array of bytes, to which writes through either device    *)
(* file are writes of the bytes they name: those below INT_MAX, and of      *)
(* /dev/ide those before the volume.                                        *)
AsFlat(r) ==
  [at  |-> {p \in 0 .. Half - 1 :
              \E o \in r.off .. r.off + r.len - 1 :
                 /\ p = ImagePos(r.minor, o) % U32
                 /\ r.minor = 0 => o < PartStart * BlkSize},
   val |-> r.val]

Flat == INSTANCE FlatDevice WITH
  Requests <- {AsFlat(r) : r \in Writes},
  content <- image,
  req <- IF pc = "write" THEN AsFlat(req) ELSE [at |-> {}, val |-> -1],
  killed <- pc = "killed"

ImplementsFlat == Flat!Spec
=============================================================================
