--------------------------- MODULE Ext2DirProofs ----------------------------
(***************************************************************************)
(* A directory of any number of blocks of any size, with any names and     *)
(* inodes, for any number of crashes: what holds of it until a crash in    *)
(* one of the windows, or the removal of its first entry, damages it; and  *)
(* what holds of a damaged one.                                            *)
(***************************************************************************)
EXTENDS Ext2Dir, TLAPS

Inos == Inodes \cup {Self, Parent}

(* A write of the inode comes back to the stage that it belongs to.         *)
Stage == IF pc = "size" THEN op.next ELSE pc

-----------------------------------------------------------------------------
(* S is a set of offsets, from each of which r leads to the next and the    *)
(* last to e, in whole blocks.                                              *)
Link(S, r, e, o) ==
  /\ o \in Nat /\ o < e
  /\ r[o] \in Nat /\ r[o] > Header
  /\ (o % BlockLen) + r[o] <= BlockLen
  /\ o + r[o] \in S \cup {e}
  /\ \A p \in S : p > o => p >= o + r[o]

Chain(S, r, e) ==
  /\ e \in Nat /\ e <= Limit /\ e % BlockLen = 0
  /\ e > 0 => 0 \in S
  /\ \A o \in S : Link(S, r, e, o)

(* Between the write that makes room for a new entry and that of its header *)
(* the entry is missing in the chain.                                       *)
Hole == Stage = "header" /\ (op.how = "split" \/ (op.how = "append" /\ size > op.at))

Starts == IF Hole THEN live \cup {op.at} ELSE live
Reach  == [o \in Units |-> IF Hole /\ o = op.at THEN op.rec ELSE mem[o + 1].a]
End    == IF op.how = "append" /\ size > op.at THEN op.at + BlockLen ELSE size

Shape == size \in Nat /\ Chain(Starts, Reach, End)

(* What an entry holds. *)
NullEntry(o) == mem[o].k = "zero" /\ mem[o].a = 0 /\ mem[o + 1].b = Header /\ o > 0 /\ o % BlockLen = 0

Named(o) ==
  /\ mem[o + Header].k = "text" /\ mem[o + Header].name \in Names
  /\ Need[mem[o + Header].name] = mem[o + 1].b

Nameless(o) == Stage = "name" /\ o = op.at

InodeEntry(o) == mem[o].k = "ino" /\ mem[o].a \in Inos /\ (Nameless(o) \/ Named(o))

Content(o) ==
  /\ mem[o + 1].k = "rec"
  /\ mem[o + 1].b \in Nat /\ Header <= mem[o + 1].b /\ mem[o + 1].b <= mem[o + 1].a
  /\ NullEntry(o) \/ InodeEntry(o)

Contents == \A o \in live : Content(o)

(* The walk's locals are those of an entry, and the entry before.           *)
Behind ==
  IF walk.at = 0 THEN walk.before = 0
  ELSE walk.before \in live /\ walk.before + mem[walk.before + 1].a = walk.at

Seen ==
  /\ walk.at \in live /\ walk.next = walk.at + walk.rec /\ Behind
  /\ walk.ino = mem[walk.at].a /\ walk.rec = mem[walk.at + 1].a /\ walk.need = mem[walk.at + 1].b
  /\ walk.buf = IF walk.ino = 0 THEN NoName ELSE mem[walk.at + Header].name

-----------------------------------------------------------------------------
(* What each stage relies on.                                               *)
AtRest == op = NoOp /\ walk = NoWalk

Written == pc = "size" => op.end \in Nat /\ op.end <= size

Searching == op.how = "none" /\ ~op.done

Walking ==
  /\ Searching /\ pc = "walk" /\ op.kind \in {"create", "unlink", "last"}
  /\ walk.next \in live \cup {size}
  /\ IF walk.next = 0 THEN walk = NoWalk ELSE Seen
  /\ op.kind = "create" /\ walk.next > 0 => FreeSpace(walk) < Need[op.name]
  /\ op.kind = "unlink" =>
       \A o \in live : o < walk.next /\ mem[o].k = "ino" => mem[o + Header].name # op.name

Found == Searching /\ pc = "found" /\ op.kind \in {"create", "unlink"} /\ Seen /\ Stops(walk)

Creating ==
  /\ op.kind = "create" /\ op.how \in {"null", "split", "append"}
  /\ op.rec \in Nat /\ op.rec >= Need[op.name]

Placing ==
  /\ Creating /\ ~op.done /\ Written
  /\ op.how = "null" => op.at \in live /\ mem[op.at].k = "zero" /\ op.rec = mem[op.at + 1].a
  /\ op.how = "split" => op.at \notin live
  /\ op.how = "append" => /\ op.at \in Nat /\ op.at % BlockLen = 0 /\ op.at + BlockLen <= Limit
                          /\ op.at \notin live /\ op.rec = BlockLen
                          /\ size \in {op.at, op.at + Header}

Placed ==
  /\ op.at \in live /\ mem[op.at].k = "ino" /\ mem[op.at].a = op.ino
  /\ mem[op.at + 1].a = op.rec /\ mem[op.at + 1].b = Need[op.name]
  /\ op.how = "append" => op.rec = BlockLen

Naming ==
  /\ Creating /\ ~op.done /\ Written /\ Placed
  /\ op.how = "append" => size = op.at + Header

Finishing ==
  /\ Creating /\ Placed /\ mem[op.at + Header].name = op.name
  /\ op.done <=> op.how # "append" \/ pc = "assert"
  /\ IF op.how # "append" THEN Written
     ELSE IF pc = "size" THEN size = op.at + Header /\ op.end = op.at + BlockLen
     ELSE size = op.at + BlockLen

Removing == op.kind = "unlink" /\ Written /\ op.how = "none"

Merged ==
  /\ Removing /\ op.done
  /\ walk.at \notin live /\ walk.before \in live /\ walk.at \in Nat /\ walk.rec \in Nat
  /\ walk.before + mem[walk.before + 1].b <= walk.at
  /\ walk.at + walk.rec <= walk.before + mem[walk.before + 1].a

Crossing ==
  /\ Removing /\ ~op.done /\ walk.at \in live
  /\ walk.at > 0 /\ walk.at % BlockLen = 0 /\ walk.rec = mem[walk.at + 1].a
  /\ mem[walk.at].k = "ino" /\ mem[walk.at + Header].name = op.name

Nulled ==
  /\ Removing /\ op.done /\ walk.at \in live
  /\ mem[walk.at].k = "zero" /\ walk.rec = mem[walk.at + 1].a

Removed == Removing /\ op.done

Stages ==
  /\ Stage \in {"rest", "gone"} => AtRest
  /\ Stage = "walk" => Walking
  /\ Stage = "found" => Found
  /\ Stage = "header" => Placing
  /\ Stage = "name" => Naming
  /\ Stage = "assert" => Finishing
  /\ Stage = "wipe" => Merged
  /\ Stage = "null" => Crossing
  /\ Stage = "nullname" => Nulled
  /\ Stage = "unlinked" => Removed
  /\ Stage \in {"rest", "gone", "walk", "found", "header", "name", "assert", "wipe", "null",
                "nullname", "unlinked"}

(* The operations that may follow, and what they are asked for.             *)
MakeDots    == <<Task("create", Dot, Self), Task("create", DotDot, Parent)>>
MakeDotDot  == <<Task("create", DotDot, Parent)>>
DropDots    == <<Task("unlink", DotDot, 0), Task("unlink", Dot, 0), Task("gone", NoName, 0)>>
DropDot     == <<Task("unlink", Dot, 0), Task("gone", NoName, 0)>>
DropSelf    == <<Task("gone", NoName, 0)>>

Requests ==
  /\ plan \in {<<>>, MakeDots, MakeDotDot, DropDots, DropDot, DropSelf}
  /\ op.kind = "create" => op.name \in Names /\ op.ino \in Inos
  /\ op.kind = "unlink" => op.name \in Names

Intact == Shape /\ Contents /\ Stages /\ Requests

IInv == torn \in BOOLEAN /\ (~torn => Intact)

-----------------------------------------------------------------------------
(* The entries that have been completed; no two are alike.                  *)
Complete == {o \in live : mem[o].k = "ino" /\ ~Pending(o)}
Bears(o, n, i) == mem[o + Header].name = n /\ mem[o].a = i

Distinct ==
  /\ \A o, p \in Complete :
        mem[o + Header].name = mem[p + Header].name /\ mem[o].a = mem[p].a => o = p
  /\ op.kind = "create" /\ ~op.done => \A o \in Complete : ~Bears(o, op.name, op.ino)

(* "." and ".." come first and stay where they are.                         *)
SecondPlace(o) == o = Header + 1 \/ o >= BlockLen

DotsPlaced == \A o \in Complete : /\ Bears(o, Dot, Self) => o = 0
                                  /\ Bears(o, DotDot, Parent) => SecondPlace(o)

OnlyDot == live = {0} /\ mem[1].b = Header + 1 /\ mem[0].k = "ino" /\ mem[2].name = Dot

MakingDot ==
  op.kind = "create" /\ op.name = Dot /\ op.ino = Self =>
    /\ plan = MakeDotDot
    /\ Stage \in {"walk", "found"} => live = {} /\ size = 0
    /\ Stage = "header" => live = {} /\ op.at = 0
    /\ Stage \in {"name", "assert"} => live = {0} /\ op.at = 0

MakingDotDot ==
  op.kind = "create" /\ op.name = DotDot /\ op.ino = Parent =>
    /\ Stage \in {"walk", "found"} => OnlyDot
    /\ Stage \in {"header", "name", "assert"} => SecondPlace(op.at)

Making ==
  /\ plan = MakeDots => pc = "rest" /\ live = {} /\ size = 0
  /\ plan = MakeDotDot => \/ pc = "rest" /\ OnlyDot
                          \/ pc # "rest" /\ op.kind = "create" /\ op.name = Dot /\ op.ino = Self
  /\ MakingDot /\ MakingDotDot
  /\ op.kind = "create" => \/ op.ino \in Inodes
                           \/ op.name = Dot /\ op.ino = Self
                           \/ op.name = DotDot /\ op.ino = Parent

NInv == ~torn => Distinct /\ DotsPlaced /\ Making

(* The room of a removed entry, until zeros are written there. *)
Cleared(u) == Stage \in {"wipe", "nullname"} /\ u \in walk.at .. walk.at + walk.rec - 1

-----------------------------------------------------------------------------
LEMMA Division ==
  ASSUME NEW B \in Nat \ {0}, NEW o \in Nat
  PROVE  /\ o \div B \in Nat /\ o % B \in Nat /\ o % B < B
         /\ o = (o \div B) * B + (o % B)
BY SMT

LEMMA Quotient ==
  ASSUME NEW B \in Nat \ {0}, NEW q \in Nat, NEW r \in Nat, r < B
  PROVE  (q * B + r) \div B = q /\ (q * B + r) % B = r
BY SMT

LEMMA DirConstants ==
  /\ BlockLen \in Nat \ {0} /\ MaxBlocks \in Nat \ {0} /\ Limit \in Nat /\ Limit % BlockLen = 0
  /\ BlockLen >= 2 * (Header + 1) /\ Limit >= BlockLen
  /\ \A n \in Names : /\ Need[n] \in Nat /\ Header < Need[n] /\ Need[n] <= BlockLen
                     /\ ~(Need[n] <= Header)
  /\ NoName \notin Names /\ 0 \notin Inos /\ Inos \subseteq Nat /\ NewNames \subseteq Names
  /\ Dot \in Names /\ DotDot \in Names /\ Dot # DotDot
  /\ Need[Dot] = Header + 1 /\ Need[DotDot] = Header + 1
<1>1. BlockLen \in Nat \ {0} /\ MaxBlocks \in Nat \ {0} /\ BlockLen >= 2 * (Header + 1)
  BY DirAssumption, SMT DEF Header
<1>2. Limit \in Nat /\ Limit >= BlockLen
  BY <1>1, SMT DEF Limit
<1>3. Limit % BlockLen = 0
  <2>1. (MaxBlocks * BlockLen + 0) % BlockLen = 0
    BY <1>1, Quotient
  <2>2. MaxBlocks * BlockLen + 0 = Limit
    BY <1>2 DEF Limit
  <2> QED BY <2>1, <2>2
<1>4. \A n \in Names : /\ Need[n] \in Nat /\ Header < Need[n] /\ Need[n] <= BlockLen
                      /\ ~(Need[n] <= Header)
  BY <1>1, DirAssumption, SMT DEF Header
<1>5. QED
  BY <1>1, <1>2, <1>3, <1>4, DirAssumption DEF Inos

(* Within a block, to its end, and from one block to the next. *)
LEMMA Within ==
  ASSUME NEW B \in Nat \ {0}, NEW o \in Nat, NEW n \in Nat, (o % B) + n < B
  PROVE  (o + n) % B = (o % B) + n
<1> DEFINE q == o \div B
           r == o % B
<1>1. q \in Nat /\ r \in Nat /\ o = q * B + r
  BY Division
<1>2. q * B \in Nat
  BY <1>1, SMT
<1>3. r + n < B
  OBVIOUS
<1> HIDE DEF q, r
<1>4. o + n = q * B + (r + n) /\ r + n \in Nat
  BY <1>1, <1>2, SMT
<1>5. (q * B + (r + n)) % B = r + n
  BY <1>1, <1>3, <1>4, Quotient
<1> QED BY <1>4, <1>5 DEF r

LEMMA Upto ==
  ASSUME NEW B \in Nat \ {0}, NEW o \in Nat, NEW n \in Nat, (o % B) + n = B
  PROVE  (o + n) % B = 0
<1> DEFINE q == o \div B
           r == o % B
<1>1. q \in Nat /\ r \in Nat /\ o = q * B + r
  BY Division
<1>2. q * B \in Nat /\ (q + 1) * B = q * B + B
  BY <1>1, SMT
<1>3. r + n = B
  OBVIOUS
<1> HIDE DEF q, r
<1>4. o + n = (q + 1) * B + 0
  BY <1>1, <1>2, <1>3, SMT
<1>5. ((q + 1) * B + 0) % B = 0
  BY <1>1, Quotient
<1> QED BY <1>4, <1>5

LEMMA NextBlock ==
  ASSUME NEW B \in Nat \ {0}, NEW a \in Nat, NEW b \in Nat, a % B = 0, b % B = 0, a < b
  PROVE  a + B <= b
<1> DEFINE p == a \div B
           q == b \div B
<1>1. p \in Nat /\ q \in Nat /\ a = p * B /\ b = q * B
  BY Division, SMT
<1> HIDE DEF p, q
<1>2. p < q
  BY <1>1, SMT
<1>3. \A d \in Nat : (p + 1 + d) * B = p * B + B + d * B /\ d * B \in Nat
  BY <1>1, SMT
<1>4. q - (p + 1) \in Nat
  BY <1>1, <1>2, SMT
<1>5. q * B = p * B + B + (q - (p + 1)) * B /\ (q - (p + 1)) * B \in Nat
  <2>1. p + 1 + (q - (p + 1)) = q
    BY <1>1, SMT
  <2> QED BY <1>3, <1>4, <2>1
<1>6. p * B \in Nat
  BY <1>1
<1> QED BY <1>1, <1>5, <1>6, SMT

LEMMA Rounding ==
  ASSUME NEW B \in Nat \ {0}, NEW a \in Nat, NEW n \in Nat, a % B = 0, n <= B
  PROVE  ((a + n + B - 1) \div B) * B = IF n = 0 THEN a ELSE a + B
<1> DEFINE p == a \div B
<1>1. p \in Nat /\ a = p * B /\ p * B \in Nat
  BY Division, SMT
<1> HIDE DEF p
<1>2. CASE n = 0
  <2>1. a + n + B - 1 = p * B + (B - 1) /\ B - 1 \in Nat
    BY <1>1, <1>2, SMT
  <2>2. (p * B + (B - 1)) \div B = p
    BY <1>1, <2>1, Quotient, SMT
  <2> QED BY <1>1, <1>2, <2>1, <2>2
<1>3. CASE n # 0
  <2>1. (p + 1) * B = p * B + B
    BY <1>1, SMT
  <2>2. a + n + B - 1 = (p + 1) * B + (n - 1) /\ n - 1 \in Nat /\ n - 1 < B
    BY <1>1, <1>3, <2>1, SMT
  <2>3. ((p + 1) * B + (n - 1)) \div B = p + 1
    BY <1>1, <2>2, Quotient
  <2> QED BY <1>1, <1>3, <2>1, <2>2, <2>3
<1> QED BY <1>2, <1>3

LEMMA Aligned ==
  ASSUME NEW a \in Nat, NEW n \in Nat, a % BlockLen = 0, n <= BlockLen
  PROVE  Align(a + n) = IF n = 0 THEN a ELSE a + BlockLen
BY DirConstants, Rounding DEF Align
-----------------------------------------------------------------------------
(* What is done to a chain: lengths elsewhere may change; an offset is      *)
(* split, gives way to the one before, or is added in a new block.          *)
LEMMA ChainSame ==
  ASSUME NEW S, NEW r, NEW r2, NEW e, Chain(S, r, e), \A o \in S : r2[o] = r[o]
  PROVE  Chain(S, r2, e)
BY DEF Chain, Link

LEMMA ChainSplit ==
  ASSUME NEW S, NEW r, NEW r2, NEW e, Chain(S, r, e),
         NEW p \in S, NEW n \in Nat, Header < n, n + Header < r[p],
         r2[p] = n, r2[p + n] = r[p] - n, \A o \in S \ {p} : r2[o] = r[o]
  PROVE  p + n \notin S /\ Chain(S \cup {p + n}, r2, e)
<1> DEFINE q == p + n
<1>0. Header = 2 /\ BlockLen \in Nat \ {0}
  BY DirConstants DEF Header
<1>1. /\ p \in Nat /\ r[p] \in Nat /\ q \in Nat /\ e \in Nat /\ p + r[p] <= e /\ q < e
      /\ \A o \in S : o \in Nat /\ o < e /\ (o > p => o >= p + r[p])
  BY <1>0, SMT DEF Chain, Link
<1>2. q \notin S /\ q # p
  BY <1>0, <1>1, SMT
<1>3. q % BlockLen = (p % BlockLen) + n
  <2>1. (p % BlockLen) + r[p] <= BlockLen /\ p % BlockLen \in Nat
    BY <1>0, <1>1, Division DEF Chain, Link
  <2>2. (p % BlockLen) + n < BlockLen
    BY <1>0, <1>1, <2>1, SMT
  <2> QED BY <1>0, <1>1, <2>2, Within
<1>4. Link(S \cup {q}, r2, e, p)
  <2>1. (p % BlockLen) + r[p] <= BlockLen /\ p % BlockLen \in Nat
    BY <1>0, <1>1, Division DEF Chain, Link
  <2> QED BY <1>0, <1>1, <1>2, <2>1, SMT DEF Link
<1>5. Link(S \cup {q}, r2, e, q)
  <2>1. (p % BlockLen) + r[p] <= BlockLen /\ p % BlockLen \in Nat /\ p + r[p] \in S \cup {e}
    BY <1>0, <1>1, Division DEF Chain, Link
  <2>2. r2[q] \in Nat /\ r2[q] > Header /\ q + r2[q] = p + r[p]
    BY <1>0, <1>1, SMT
  <2>3. (q % BlockLen) + r2[q] <= BlockLen
    BY <1>0, <1>1, <1>3, <2>1, <2>2, SMT
  <2>4. \A o \in S \cup {q} : o > q => o >= q + r2[q]
    BY <1>0, <1>1, <2>2, SMT
  <2> QED BY <1>1, <2>1, <2>2, <2>3, <2>4 DEF Link
<1>6. ASSUME NEW o \in S, o # p PROVE Link(S \cup {q}, r2, e, o)
  <2>1. Link(S, r, e, o) /\ r2[o] = r[o]
    BY <1>6 DEF Chain
  <2>2. q > o => q >= o + r[o]
    <3>1. CASE o < p
      <4>1. p >= o + r[o]
        BY <2>1, <3>1 DEF Link
      <4> QED BY <1>1, <2>1, <4>1, SMT DEF Link
    <3>2. CASE o > p
      BY <1>1, <1>2, <3>2, <1>0, SMT
    <3> QED BY <1>1, <1>6, <3>1, <3>2, SMT
  <2> QED BY <2>1, <2>2 DEF Link
<1> QED BY <1>2, <1>4, <1>5, <1>6 DEF Chain

LEMMA ChainMerge ==
  ASSUME NEW S, NEW r, NEW r2, NEW e, Chain(S, r, e),
         NEW p \in S, NEW q \in S, q = p + r[p],
         (p % BlockLen) + r[p] + r[q] <= BlockLen,
         r2[p] = r[p] + r[q], \A o \in S \ {p, q} : r2[o] = r[o]
  PROVE  Chain(S \ {q}, r2, e)
<1>1. /\ p \in Nat /\ q \in Nat /\ r[p] \in Nat /\ r[q] \in Nat /\ e \in Nat
      /\ r[p] > Header /\ r[q] > Header /\ p < e /\ p < q
      /\ \A o \in S : o \in Nat /\ (o > p => o >= q) /\ (o > q => o >= q + r[q])
      /\ Header = 2
  BY SMT DEF Chain, Link, Header
<1>2. q + r[q] \in (S \ {q}) \cup {e}
  BY <1>1, SMT DEF Chain, Link
<1>3. Link(S \ {q}, r2, e, p)
  <2>1. (p % BlockLen) + r2[p] <= BlockLen
    <3>1. p % BlockLen \in Nat
      BY <1>1, DirConstants, Division
    <3>2. (p % BlockLen) + r2[p] = (p % BlockLen) + r[p] + r[q]
      BY <1>1, <3>1, SMT
    <3> QED BY <3>2
  <2>2. p + r2[p] = q + r[q] /\ r2[p] \in Nat /\ r2[p] > Header
    BY <1>1, SMT
  <2>3. \A o \in S \ {q} : o > p => o >= p + r2[p]
    BY <1>1, <2>2, SMT
  <2> QED BY <1>1, <1>2, <2>1, <2>2, <2>3 DEF Link
<1>4. ASSUME NEW o \in S, o # p, o # q PROVE Link(S \ {q}, r2, e, o)
  <2>1. Link(S, r, e, o) /\ r2[o] = r[o]
    BY <1>4 DEF Chain
  <2>2. o + r[o] # q
    <3>1. CASE o < p
      <4>1. p >= o + r[o]
        BY <2>1, <3>1 DEF Link
      <4> QED BY <1>1, <2>1, <4>1, SMT DEF Link
    <3>2. CASE o > p
      BY <1>1, <1>4, <2>1, <3>2, SMT DEF Link
    <3> QED BY <1>1, <1>4, <3>1, <3>2, SMT
  <2> QED BY <2>1, <2>2 DEF Link
<1>5. e > 0 => 0 \in S \ {q}
  BY <1>1, SMT DEF Chain
<1> QED BY <1>3, <1>4, <1>5 DEF Chain

LEMMA ChainAppend ==
  ASSUME NEW S, NEW r, NEW r2, NEW e, Chain(S, r, e), e + BlockLen <= Limit,
         r2[e] = BlockLen, \A o \in S : r2[o] = r[o]
  PROVE  e \notin S /\ Chain(S \cup {e}, r2, e + BlockLen)
<1>1. /\ e \in Nat /\ BlockLen \in Nat \ {0} /\ BlockLen > Header /\ Header = 2
      /\ e % BlockLen = 0 /\ (e + BlockLen) % BlockLen = 0
      /\ e + BlockLen \in Nat /\ e < e + BlockLen
      /\ \A o \in S : o \in Nat /\ o < e
  <2>1. e \in Nat /\ e % BlockLen = 0 /\ BlockLen \in Nat \ {0} /\ BlockLen > Header /\ Header = 2
    BY DirConstants, SMT DEF Chain, Header
  <2>2. (e + BlockLen) % BlockLen = 0
    BY <2>1, Upto, SMT
  <2> QED BY <2>1, <2>2, SMT DEF Chain, Link
<1>2. Link(S \cup {e}, r2, e + BlockLen, e)
  BY <1>1, SMT DEF Link
<1>3. ASSUME NEW o \in S PROVE Link(S \cup {e}, r2, e + BlockLen, o)
  <2>1. Link(S, r, e, o) /\ r2[o] = r[o] /\ e >= o + r[o] /\ o < e + BlockLen
    <3>1. Link(S, r, e, o) /\ r2[o] = r[o]
      BY DEF Chain
    <3>2. o + r[o] \in S \cup {e} /\ o \in Nat /\ r[o] \in Nat
      BY <3>1 DEF Link
    <3> QED BY <1>1, <3>1, <3>2, SMT
  <2> QED BY <2>1 DEF Link
<1>4. 0 \in S \cup {e}
  BY <1>1, SMT DEF Chain
<1>5. e \notin S
  BY <1>1, SMT
<1> QED BY <1>1, <1>2, <1>3, <1>4, <1>5 DEF Chain
-----------------------------------------------------------------------------
(* A directory that a crash may leave behind.                               *)
Rec == [o \in Units |-> mem[o + 1].a]

Sound(o) ==
  /\ mem[o + 1].k = "rec"
  /\ mem[o + 1].b \in Nat /\ Header <= mem[o + 1].b /\ mem[o + 1].b <= mem[o + 1].a
  /\ NullEntry(o) \/ (mem[o].k = "ino" /\ mem[o].a \in Inos /\ Named(o))

Tidy == Chain(live, Rec, size) /\ \A o \in live : Sound(o)

LEMMA Offsets ==
  ASSUME NEW S, NEW r, NEW e, Chain(S, r, e), NEW o \in S
  PROVE  /\ o \in Nat /\ o \in Units /\ o + 1 \in Units /\ o + Header \in Units
         /\ r[o] \in Nat /\ Header < r[o] /\ o + r[o] <= e /\ e \in Nat /\ e <= Limit
         /\ (o % BlockLen) + r[o] <= BlockLen /\ o % BlockLen \in Nat
         /\ \A u \in Nat : u < o + r[o] => u \in Units
<1>1. /\ o \in Nat /\ o < e /\ r[o] \in Nat /\ Header < r[o] /\ e \in Nat /\ e <= Limit
      /\ (o % BlockLen) + r[o] <= BlockLen /\ o + r[o] \in S \cup {e}
      /\ \A p \in S : p \in Nat /\ p < e
  BY DEF Chain, Link
<1>2. o + r[o] <= e
  BY <1>1, SMT
<1>3. Header = 2 /\ Limit \in Nat /\ BlockLen \in Nat \ {0}
  BY DirConstants DEF Header
<1>4. o % BlockLen \in Nat
  BY <1>1, <1>3, Division
<1>5. \A u \in Nat : u < o + r[o] => u \in Units
  BY <1>1, <1>2, <1>3, SMT DEF Units
<1>6. o \in Units /\ o + 1 \in Units /\ o + Header \in Units
  BY <1>1, <1>3, <1>5, SMT
<1> QED BY <1>1, <1>2, <1>4, <1>5, <1>6

(* One entry ends where another begins or before. *)
LEMMA Apart ==
  ASSUME NEW S, NEW r, NEW e, Chain(S, r, e), NEW o \in S, NEW p \in S, o < p
  PROVE  o + r[o] <= p
BY DEF Chain, Link

LEMMA OutsideWindows ==
  ASSUME Intact, ~InWindow
  PROVE  Tidy
<1>1. ~Hole
  BY SMT DEF Intact, Stages, Hole, Placing, Creating, InWindow
<1>2. op.how = "append" => Stage \in {"header", "name", "assert"}
  BY SMT DEF Intact, Stages, AtRest, NoOp, Walking, Found, Searching, Merged, Crossing, Nulled,
         Removed, Removing
<1>3. End = size
  <2>1. CASE op.how = "append" /\ size > op.at /\ Stage = "assert"
    <3>1. Finishing
      BY <2>1 DEF Intact, Stages
    <3>2. op.kind = "create" /\ op.done
      BY <2>1, <3>1, SMT DEF Finishing, Creating, InWindow
    <3>3. pc = "assert"
      BY <2>1, <3>1, <3>2 DEF Finishing
    <3> QED BY <2>1, <3>1, <3>3, SMT DEF Finishing, End
  <2>2. CASE op.how = "append" /\ size > op.at /\ Stage \in {"header", "name"}
    BY <2>2, SMT DEF Intact, Stages, Placing, Naming, Creating, InWindow
  <2>3. CASE ~(op.how = "append" /\ size > op.at)
    BY <2>3 DEF End
  <2> QED BY <1>2, <2>1, <2>2, <2>3
<1>4. Starts = live
  BY <1>1 DEF Starts
<1>5. Chain(live, Rec, size)
  <2>1. Chain(live, Reach, size)
    BY <1>3, <1>4 DEF Intact, Shape
  <2>2. \A o \in live : o \in Units
    BY <2>1, Offsets
  <2>3. \A o \in live : Rec[o] = Reach[o]
    BY <1>1, <2>2 DEF Rec, Reach
  <2> QED BY <2>1, <2>3, ChainSame
<1>6. Stage # "name"
  <2>1. ASSUME Stage = "name"
        PROVE  op.kind = "create" /\ ~op.done /\ op.how \in {"null", "split", "append"}
               /\ (op.how = "append" => size = op.at + Header) /\ op.at \in live /\ pc # "header"
    BY <2>1, SMT DEF Intact, Stages, Naming, Creating, Placed, Stage
  <2>2. \A o \in live : o \in Nat
    BY <1>5, Offsets
  <2>3. ASSUME Stage = "name" PROVE op.how = "append" => size > op.at
    BY <2>1, <2>2, <2>3, SMT DEF Header
  <2> QED BY <2>1, <2>3 DEF InWindow
<1>7. \A o \in live : Sound(o)
  BY <1>6 DEF Intact, Contents, Content, Sound, InodeEntry, Nameless
<1> QED BY <1>5, <1>7 DEF Tidy

LEMMA TidyAfter ==
  ASSUME Tidy'
  PROVE  Contents' /\ (op'.how = "none" => Shape')
<1>1. Contents'
  BY DEF Tidy, Contents, Content, Sound, InodeEntry
<1>2. ASSUME op'.how = "none" PROVE Shape'
  <2>1. Hole' = FALSE /\ Starts' = live' /\ End' = size'
    BY <1>2 DEF Hole, Starts, End
  <2>2. Chain(live', Rec', size')
    BY DEF Tidy
  <2>3. \A o \in live' : o \in Units
    BY <2>2, Offsets
  <2>4. \A o \in live' : Reach'[o] = Rec'[o]
    BY <2>1, <2>3 DEF Reach, Rec
  <2>5. Chain(live', Reach', size')
    BY <2>2, <2>4, ChainSame
  <2>6. size' \in Nat
    BY <2>2 DEF Chain
  <2> QED BY <2>1, <2>5, <2>6 DEF Shape
<1> QED BY <1>1, <1>2

LEMMA TidyStays ==
  ASSUME Tidy, UNCHANGED <<mem, size, live>>
  PROVE  Tidy' /\ Contents' /\ (op'.how = "none" => Shape')
<1>1. Tidy'
  BY DEF Tidy, Rec, Sound, NullEntry, Named
<1> QED BY <1>1, TidyAfter

-----------------------------------------------------------------------------
(* Steps that write nothing.                                                *)
LEMMA Resting ==
  ASSUME Intact, ~InWindow, op' = NoOp, walk' = NoWalk, pc' \in {"rest", "gone"},
         UNCHANGED <<mem, size, live>>
  PROVE  Shape' /\ Contents' /\ Stages' /\ op'.kind = "none"
<1>1. op'.kind = "none" /\ op'.how = "none"
  BY DEF NoOp
<1>2. Shape' /\ Contents'
  BY <1>1, OutsideWindows, TidyStays
<1>3. Stage' \in {"rest", "gone"}
  BY SMT DEF Stage
<1>4. Stages'
  BY <1>3, SMT DEF Stages, AtRest
<1> QED BY <1>1, <1>2, <1>4

LEMMA Starting ==
  ASSUME Intact, NEW t, Start(t), t.kind \in {"create", "unlink", "last"}
  PROVE  /\ Shape' /\ Contents' /\ Stages'
         /\ op'.kind = t.kind /\ op'.name = t.name /\ op'.ino = t.ino
<1>1. Stage = "rest" /\ op.kind = "none" /\ ~InWindow
  BY DEF Start, Stage, Intact, Stages, AtRest, NoOp, InWindow
<1>2. /\ op'.kind = t.kind /\ op'.name = t.name /\ op'.ino = t.ino
      /\ op'.how = "none" /\ op'.done = FALSE
  BY DEF Start, NoOp
<1>3. Tidy /\ Shape' /\ Contents'
  BY <1>1, <1>2, OutsideWindows, TidyStays DEF Start
<1>4. Walking'
  <2>1. walk'.next = 0 /\ walk' = NoWalk /\ pc' = "walk" /\ live' = live /\ size' = size /\ mem' = mem
    BY DEF Start, NoWalk
  <2>2. 0 \in live \cup {size} /\ \A o \in live : o \in Nat
    <3>1. Chain(live, Rec, size)
      BY <1>3 DEF Tidy
    <3>2. \A o \in live : o \in Nat
      BY <3>1, Offsets
    <3>3. size \in Nat /\ (size > 0 => 0 \in live)
      BY <3>1 DEF Chain
    <3> QED BY <3>2, <3>3, SMT
  <2> QED BY <1>2, <2>1, <2>2, SMT DEF Walking, Searching
<1>5. Stages'
  <2>1. Stage' = "walk"
    BY DEF Start, Stage
  <2> QED BY <1>4, <2>1, SMT DEF Stages
<1> QED BY <1>2, <1>3, <1>5

LEMMA Plans ==
  /\ MakeDots # <<>> /\ MakeDotDot # <<>> /\ DropDots # <<>> /\ DropDot # <<>> /\ DropSelf # <<>>
  /\ Head(MakeDots) = Task("create", Dot, Self) /\ Tail(MakeDots) = MakeDotDot
  /\ Head(MakeDotDot) = Task("create", DotDot, Parent) /\ Tail(MakeDotDot) = <<>>
  /\ Head(DropDots) = Task("unlink", DotDot, 0) /\ Tail(DropDots) = DropDot
  /\ Head(DropDot) = Task("unlink", Dot, 0) /\ Tail(DropDot) = DropSelf
  /\ Head(DropSelf) = Task("gone", NoName, 0)
  /\ \A k, n, i : Task(k, n, i).kind = k /\ Task(k, n, i).name = n /\ Task(k, n, i).ino = i
<1>1. \A k, n, i : Task(k, n, i).kind = k /\ Task(k, n, i).name = n /\ Task(k, n, i).ino = i
  BY DEF Task
<1>2. /\ MakeDots # <<>> /\ MakeDotDot # <<>> /\ DropDots # <<>> /\ DropDot # <<>> /\ DropSelf # <<>>
      /\ Head(MakeDots) = Task("create", Dot, Self) /\ Tail(MakeDots) = MakeDotDot
      /\ Head(MakeDotDot) = Task("create", DotDot, Parent) /\ Tail(MakeDotDot) = <<>>
  BY SMT DEF MakeDots, MakeDotDot, DropDots, DropDot, DropSelf
<1>3. /\ Head(DropDots) = Task("unlink", DotDot, 0) /\ Tail(DropDots) = DropDot
      /\ Head(DropDot) = Task("unlink", Dot, 0) /\ Tail(DropDot) = DropSelf
      /\ Head(DropSelf) = Task("gone", NoName, 0)
  BY SMT DEF DropDots, DropDot, DropSelf
<1> QED BY <1>1, <1>2, <1>3

LEMMA CreateStep ==
  ASSUME Intact, NEW n \in NewNames, NEW i \in Inodes, Create(n, i)
  PROVE  Intact'
<1> DEFINE t == Task("create", n, i)
<1>1. t.kind = "create" /\ t.name = n /\ t.ino = i
  BY Plans
<1>2. Start(t) /\ plan' = plan
  BY DEF Create
<1> HIDE DEF t
<1>3. Shape' /\ Contents' /\ Stages' /\ op'.kind = "create" /\ op'.name = n /\ op'.ino = i
  BY <1>1, <1>2, Starting
<1>4. n \in Names /\ i \in Inos
  BY DirConstants DEF Inos
<1> QED BY <1>2, <1>3, <1>4 DEF Intact, Requests

LEMMA UnlinkStep ==
  ASSUME Intact, NEW n \in Names, Unlink(n)
  PROVE  Intact'
BY Plans, Starting DEF Unlink, Intact, Requests

LEMMA RmdirStep ==
  ASSUME Intact, Rmdir
  PROVE  Intact'
BY Plans, Starting DEF Rmdir, Intact, Requests

LEMMA ContinueStep ==
  ASSUME Intact, Continue
  PROVE  Intact'
<1>1. plan \in {MakeDots, MakeDotDot, DropDots, DropDot}
  BY Plans DEF Continue, Intact, Requests
<1>2. Start(Head(plan)) /\ plan' = Tail(plan)
  BY DEF Continue
<1>3. Head(plan).kind \in {"create", "unlink", "last"}
  BY <1>1, Plans
<1>4. /\ Shape' /\ Contents' /\ Stages'
      /\ op'.kind = Head(plan).kind /\ op'.name = Head(plan).name /\ op'.ino = Head(plan).ino
  BY <1>2, <1>3, Starting
<1>5. plan' \in {<<>>, MakeDotDot, DropDot, DropSelf}
  BY <1>1, <1>2, Plans
<1>6. /\ Head(plan).kind = "create" => Head(plan).name \in Names /\ Head(plan).ino \in Inos
      /\ Head(plan).kind = "unlink" => Head(plan).name \in Names
  BY <1>1, Plans, DirConstants DEF Inos
<1> QED BY <1>4, <1>5, <1>6 DEF Intact, Requests

LEMMA GoneStep ==
  ASSUME Intact, Gone
  PROVE  Intact'
<1>1. op = NoOp /\ walk = NoWalk
  BY SMT DEF Gone, Intact, Stages, AtRest, Stage
<1>2. ~InWindow
  BY <1>1 DEF InWindow, NoOp
<1>3. Shape' /\ Contents' /\ Stages' /\ op'.kind = "none"
  BY <1>1, <1>2, Resting DEF Gone
<1> QED BY <1>3 DEF Intact, Requests, Gone

LEMMA CrashStep ==
  ASSUME Intact, Crash, ~torn'
  PROVE  Intact'
<1>1. ~InWindow
  BY DEF Crash
<1>2. Shape' /\ Contents' /\ Stages' /\ op'.kind = "none"
  BY <1>1, Resting DEF Crash
<1> QED BY <1>2 DEF Intact, Requests, Crash
(* The walk comes to an entry, and its name is read as it is written.       *)
LEMMA VisitSees ==
  ASSUME Intact, Visit
  PROVE  /\ Walking /\ Tidy
         /\ walk.next \in live /\ walk.next \in Nat
         /\ walk' \in {Visited(walk.next, b) : b \in NamesRead(walk.next, mem[walk.next + 1].b)}
         /\ pc' = IF Stops(walk') THEN "found" ELSE "walk"
         /\ Seen' /\ walk'.at = walk.next
         /\ walk'.next \in live \cup {size} /\ walk'.next \in Nat /\ walk'.next > 0
         /\ \A p \in live : p > walk.next => p >= walk'.next
<1> DEFINE o == walk.next
<1>1. Walking /\ op.how = "none"
  BY DEF Visit, Stage, Intact, Stages, Walking, Searching
<1>2. Tidy
  BY <1>1, OutsideWindows, SMT DEF InWindow
<1>3. Chain(live, Rec, size)
  BY <1>2 DEF Tidy
<1>4. o \in live
  <2>1. o < size /\ o \in live \cup {size} /\ size \in Nat
    BY <1>1, <1>3 DEF Visit, Walking, Chain
  <2> QED BY <2>1, SMT
<1>5. /\ o \in Nat /\ o \in Units /\ Rec[o] \in Nat /\ Header < Rec[o] /\ o + Rec[o] <= size
      /\ o + Rec[o] \in live \cup {size} /\ size \in Nat
      /\ \A p \in live : p > o => p >= o + Rec[o]
  <2>1. Link(live, Rec, size, o)
    BY <1>3, <1>4 DEF Chain
  <2> QED BY <2>1, <1>3, <1>4, Offsets DEF Link
<1>6. Rec[o] = mem[o + 1].a
  BY <1>5 DEF Rec
<1>7. Sound(o)
  BY <1>2, <1>4 DEF Tidy
<1>8. PICK b \in NamesRead(o, mem[o + 1].b) :
         walk' = Visited(o, b) /\ pc' = (IF Stops(walk') THEN "found" ELSE "walk")
  BY <1>7, SMT DEF Visit, Sound, NullEntry
<1>9. /\ walk'.at = o /\ walk'.before = walk.at /\ walk'.next = o + mem[o + 1].a
      /\ walk'.ino = mem[o].a /\ walk'.rec = mem[o + 1].a /\ walk'.need = mem[o + 1].b /\ walk'.buf = b
  BY <1>8 DEF Visited
<1>10. o + Header < size
  BY <1>5, SMT DEF Header
<1>11. b = IF mem[o + Header].k = "text" THEN Cut(mem[o + Header].name, mem[o + 1].b) ELSE NoName
  BY <1>8, <1>10 DEF NamesRead
<1>12. b = IF mem[o].a = 0 THEN NoName ELSE mem[o + Header].name
  <2>1. CASE NullEntry(o)
    <3>1. mem[o].a = 0 /\ mem[o + 1].b = Header
      BY <2>1 DEF NullEntry
    <3>2. \A n \in Names : ~(Need[n] <= Header)
      BY DirConstants
    <3> QED BY <1>11, <3>1, <3>2 DEF Cut
  <2>2. CASE mem[o].a \in Inos /\ Named(o)
    <3>1. mem[o].a # 0
      BY <2>2, DirConstants
    <3>2. /\ mem[o + Header].k = "text" /\ mem[o + Header].name \in Names
          /\ Need[mem[o + Header].name] <= mem[o + 1].b
      BY <2>2, DirConstants, SMT DEF Named
    <3> QED BY <1>11, <3>1, <3>2 DEF Cut
  <2> QED BY <1>7, <2>1, <2>2 DEF Sound
<1>13. Behind'
  <2>1. CASE o = 0
    BY <1>1, <1>9, <2>1 DEF Walking, NoWalk, Behind
  <2>2. CASE o # 0
    BY <1>1, <1>9, <2>2 DEF Walking, Seen, Behind, Visit
  <2> QED BY <2>1, <2>2
<1>14. Seen'
  BY <1>4, <1>9, <1>12, <1>13 DEF Seen, Visit
<1>15. walk'.next = o + Rec[o] /\ walk'.next \in Nat /\ walk'.next > 0
  <2>1. walk'.next = o + Rec[o]
    BY <1>6, <1>9
  <2>2. o \in Nat /\ Rec[o] \in Nat /\ Rec[o] > 2
    BY <1>5 DEF Header
  <2> HIDE DEF o
  <2> QED BY <2>1, <2>2, SMT
<1> QED BY <1>1, <1>2, <1>4, <1>5, <1>8, <1>9, <1>14, <1>15

LEMMA VisitStep ==
  ASSUME Intact, Visit
  PROVE  Intact'
<1>1. /\ op' = op /\ plan' = plan /\ mem' = mem /\ size' = size /\ live' = live
  BY DEF Visit
<1>2. Walking /\ Searching
  BY VisitSees DEF Walking
<1>3. Shape' /\ Contents'
  BY <1>1, <1>2, VisitSees, TidyStays DEF Searching
<1>4. Requests'
  BY <1>1 DEF Intact, Requests
<1>5. CASE Stops(walk')
  <2>1. pc' = "found"
    BY <1>5, VisitSees
  <2>2. Found'
    BY <1>1, <1>2, <1>5, <2>1, VisitSees DEF Found, Searching, Stops, FreeSpace
  <2>3. Stages'
    BY <2>1, <2>2, SMT DEF Stages, Stage
  <2> QED BY <1>3, <1>4, <2>3 DEF Intact
<1>6. CASE ~Stops(walk')
  <2>1. pc' = "walk"
    BY <1>6, VisitSees
  <2>2. op.kind = "create" => FreeSpace(walk') < Need[op.name]
    <3>1. walk'.rec \in Int /\ walk'.need \in Int
      <4>1. Sound(walk'.at)
        BY VisitSees DEF Tidy
      <4> QED BY <1>1, <4>1, VisitSees, Offsets, SMT DEF Seen, Tidy, Sound, Rec
    <3>2. op.kind = "create" => Need[op.name] \in Nat
      BY DirConstants DEF Intact, Requests
    <3> QED BY <1>6, <3>1, <3>2, SMT DEF Stops, FreeSpace
  <2>3. op.kind = "unlink" =>
          \A p \in live : p < walk'.next /\ mem[p].k = "ino" => mem[p + Header].name # op.name
    <3> SUFFICES ASSUME op.kind = "unlink", NEW p \in live, p < walk'.next, mem[p].k = "ino"
                 PROVE  mem[p + Header].name # op.name
      OBVIOUS
    <3>1. p \in Nat
      BY VisitSees, Offsets DEF Tidy
    <3>2. CASE p < walk.next
      BY <1>2, <3>2 DEF Walking
    <3>3. CASE p = walk.next
      <4>1. mem[p].a # 0
        BY VisitSees, DirConstants DEF Tidy, Sound, NullEntry
      <4>2. walk'.buf = mem[p + Header].name
        BY <1>1, <3>3, <4>1, VisitSees DEF Seen
      <4> QED BY <1>6, <4>2 DEF Stops
    <3>4. CASE p > walk.next
      BY <3>1, <3>4, VisitSees, SMT
    <3> QED BY <3>1, <3>2, <3>3, <3>4, VisitSees, SMT
  <2>4. Walking'
    <3>1. Searching' /\ pc' = "walk" /\ op'.kind \in {"create", "unlink", "last"}
      BY <1>1, <1>2, <2>1 DEF Walking, Searching
    <3>2. walk'.next \in live' \cup {size'} /\ walk'.next # 0 /\ Seen'
      BY <1>1, VisitSees, SMT
    <3>3. op'.kind = "create" => FreeSpace(walk') < Need[op'.name]
      BY <1>1, <2>2
    <3> QED BY <1>1, <2>3, <3>1, <3>2, <3>3 DEF Walking, FreeSpace
  <2>5. Stages'
    BY <2>1, <2>4, SMT DEF Stages, Stage
  <2> QED BY <1>3, <1>4, <2>5 DEF Intact
<1> QED BY <1>5, <1>6
LEMMA Returning ==
  ASSUME Intact, ~InWindow, Return, plan' \in {<<>>, plan, DropDots}
  PROVE  Intact'
BY Resting DEF Return, Intact, Requests

LEMMA WalkStage ==
  ASSUME Intact, pc = "walk"
  PROVE  Walking /\ Searching /\ ~InWindow /\ Tidy
<1>1. Walking /\ Searching
  BY DEF Intact, Stages, Stage, Walking
<1>2. ~InWindow
  BY <1>1, SMT DEF Searching, InWindow
<1> QED BY <1>1, <1>2, OutsideWindows

LEMMA NotFoundStep ==
  ASSUME Intact, NotFound
  PROVE  Intact'
BY WalkStage, Returning DEF NotFound, Ended

LEMMA RmdirChecksStep ==
  ASSUME Intact, RmdirChecks
  PROVE  Intact'
BY WalkStage, Returning DEF RmdirChecks, Ended, DropDots

LEMMA BeyondBoundStep ==
  ASSUME Intact, BeyondBound
  PROVE  Intact'
BY WalkStage, Returning DEF BeyondBound, Ended

LEMMA AssertStage ==
  ASSUME Intact, pc = "assert"
  PROVE  Finishing /\ op.done /\ ~InWindow /\ Tidy /\ size % BlockLen = 0
<1>1. Finishing
  BY DEF Intact, Stages, Stage
<1>2. op.done
  BY <1>1 DEF Finishing
<1>3. ~InWindow
  BY <1>2 DEF InWindow
<1> QED BY <1>1, <1>2, <1>3, OutsideWindows DEF Tidy, Chain

LEMMA CreatedStep ==
  ASSUME Intact, Created
  PROVE  Intact'
BY AssertStage, Returning DEF Created

LEMMA UnlinkedStep ==
  ASSUME Intact, Unlinked
  PROVE  Intact'
<1>1. Removed
  BY DEF Unlinked, Intact, Stages, Stage
<1>2. ~InWindow
  BY <1>1 DEF Removed, InWindow
<1> QED BY <1>2, Returning DEF Unlinked

LEMMA SetSizeStep ==
  ASSUME Intact, SetSize
  PROVE  Intact'
<1>1. /\ mem' = mem /\ live' = live /\ walk' = walk /\ plan' = plan
      /\ pc = "size" /\ pc' = op.next
  BY DEF SetSize
<1>2. Stage = op.next /\ Stage' = Stage /\ Stage # "size"
  BY <1>1, SMT DEF Intact, Stages, Stage
<1>3. /\ op'.kind = op.kind /\ op'.name = op.name /\ op'.ino = op.ino /\ op'.at = op.at
      /\ op'.rec = op.rec /\ op'.how = op.how
      /\ op'.done = (op.done \/ op.next = "assert")
  BY DEF SetSize
<1>4. Chain(Starts, Reach, End) /\ size \in Nat
  BY DEF Intact, Shape
<1>5. Requests' /\ Contents'
  BY <1>1, <1>2, <1>3 DEF Intact, Requests, Contents, Content, InodeEntry, NullEntry, Named, Nameless
<1>6. CASE Stage # "assert"
  <2>1. Written
    BY <1>1, <1>2, <1>6, SMT DEF Intact, Stages, AtRest, NoOp, Walking, Found, Placing, Naming,
       Merged, Crossing, Nulled, Removed, Removing
  <2>2. size' = size
    BY <1>1, <1>4, <2>1, SMT DEF Written, SetSize, Larger
  <2>3. op'.done <=> op.done
    BY <1>2, <1>3, <1>6
  <2>4. Shape'
    <3>1. Hole' <=> Hole
      BY <1>2, <1>3, <2>2 DEF Hole
    <3>2. Starts' = Starts /\ Reach' = Reach /\ End' = End
      BY <1>1, <1>3, <2>2, <3>1 DEF Starts, Reach, End
    <3> QED BY <1>4, <2>2, <3>2 DEF Shape
  <2>5. pc' # "size" /\ Stage \notin {"rest", "gone", "walk", "found"}
    BY <1>1, <1>2, SMT DEF Intact, Stages, AtRest, NoOp, Walking, Found
  <2>6. Stages'
    BY <1>1, <1>2, <1>3, <1>6, <2>2, <2>3, <2>5 DEF Intact, Stages, Placing, Naming, Placed, Creating,
       Merged, Crossing, Nulled, Removed, Removing, Written
  <2> QED BY <1>5, <2>4, <2>6 DEF Intact
<1>7. CASE Stage = "assert"
  <2>1. Finishing
    BY <1>7 DEF Intact, Stages
  <2>2. CASE op.how # "append"
    <3>1. size' = size
      BY <1>1, <1>4, <2>1, <2>2, SMT DEF Finishing, Written, SetSize, Larger
    <3>2. ~Hole /\ ~Hole'
      BY <1>2, <1>7 DEF Hole
    <3>3. Starts' = Starts /\ Reach' = Reach /\ End' = End
      BY <1>1, <1>3, <2>2, <3>1, <3>2 DEF Starts, Reach, End
    <3>4. Shape'
      BY <1>4, <3>1, <3>3 DEF Shape
    <3>5. Finishing'
      BY <1>1, <1>2, <1>3, <1>7, <2>1, <2>2 DEF Finishing, Creating, Placed, Written
    <3> QED BY <1>2, <1>5, <1>7, <3>4, <3>5, SMT DEF Intact, Stages
  <2>3. CASE op.how = "append"
    <3>0. op.at \in Nat /\ BlockLen \in Nat /\ BlockLen > Header /\ Header = 2
      <4>1. op.at \in live /\ Starts = live
        BY <1>7, <2>1 DEF Finishing, Placed, Starts, Hole
      <4> QED BY <1>4, <4>1, Offsets, DirConstants, SMT DEF Header
    <3>1. size = op.at + Header /\ size' = op.at + BlockLen
      BY <1>1, <2>1, <2>3, <3>0, SMT DEF Finishing, SetSize, Larger
    <3>2. ~Hole /\ ~Hole'
      BY <1>2, <1>7 DEF Hole
    <3>3. Starts' = Starts /\ Reach' = Reach
      BY <1>1, <1>3, <3>2 DEF Starts, Reach
    <3>4. End' = End /\ size' \in Nat
      BY <1>3, <2>3, <3>0, <3>1, SMT DEF End
    <3>5. Shape'
      BY <1>4, <3>3, <3>4 DEF Shape
    <3>6. Finishing'
      BY <1>1, <1>2, <1>3, <1>7, <2>1, <2>3, <3>1 DEF Finishing, Creating, Placed
    <3> QED BY <1>2, <1>5, <1>7, <3>5, <3>6, SMT DEF Intact, Stages
  <2> QED BY <2>2, <2>3
<1> QED BY <1>6, <1>7

LEMMA FoundStage ==
  ASSUME Intact, pc = "found"
  PROVE  /\ Found /\ Searching /\ ~InWindow /\ Tidy
         /\ Seen /\ Sound(walk.at) /\ walk.at \in live
         /\ walk.rec = Rec[walk.at] /\ walk.rec \in Nat
<1>1. Found /\ Searching
  BY DEF Intact, Stages, Stage, Found
<1>2. ~InWindow
  BY <1>1, SMT DEF Searching, InWindow
<1>3. Tidy
  BY <1>2, OutsideWindows
<1>4. Seen /\ walk.at \in live /\ Sound(walk.at)
  BY <1>1, <1>3 DEF Found, Seen, Tidy
<1>5. walk.rec = Rec[walk.at] /\ walk.rec \in Nat
  BY <1>3, <1>4, Offsets DEF Tidy, Seen, Rec
<1> QED BY <1>1, <1>2, <1>3, <1>4, <1>5

LEMMA TakeNullStep ==
  ASSUME Intact, TakeNull
  PROVE  Intact'
<1>1. /\ mem' = mem /\ live' = live /\ size' = size /\ plan' = plan
      /\ op'.kind = op.kind /\ op'.name = op.name /\ op'.ino = op.ino
      /\ op'.at = walk.at /\ op'.rec = walk.rec /\ op'.how = "null"
      /\ (op'.done <=> op.done) /\ pc' = "header"
  BY DEF TakeNull
<1>2. Requests'
  BY <1>1 DEF Intact, Requests
<1>3. Found /\ Tidy /\ Seen /\ Sound(walk.at) /\ walk.at \in live /\ walk.rec \in Nat
  BY FoundStage DEF TakeNull
<1>4. Tidy' /\ Contents'
  BY <1>1, <1>3, TidyStays
<1>5. Shape'
  <2>1. ~Hole'
    BY <1>1 DEF Hole
  <2>2. Starts' = live' /\ End' = size'
    BY <1>1, <2>1 DEF Starts, End
  <2>3. Chain(live', Rec', size')
    BY <1>4 DEF Tidy
  <2>4. \A o \in live' : Reach'[o] = Rec'[o]
    BY <2>1, <2>3, Offsets DEF Reach, Rec
  <2>5. Chain(live', Reach', size')
    BY <2>3, <2>4, ChainSame
  <2> QED BY <2>2, <2>3, <2>5 DEF Shape, Chain
<1>6. Placing'
  <2>1. Creating'
    BY <1>1, <1>3 DEF Creating, TakeNull, Found, Stops, FreeSpace, Searching
  <2>2. mem[walk.at].k = "zero"
    <3>1. mem[walk.at].a \notin Inos
      BY <1>3, DirConstants DEF TakeNull, Seen
    <3> QED BY <1>3, <3>1 DEF Sound, NullEntry
  <2> QED BY <1>1, <1>3, <2>1, <2>2 DEF Placing, Found, Searching, Seen, Written
<1>7. Stages'
  BY <1>1, <1>6 DEF Stages, Stage
<1> QED BY <1>2, <1>4, <1>5, <1>7 DEF Intact
-----------------------------------------------------------------------------
(* Steps that write.                                                        *)
OpIs(o2, end, next) ==
  /\ op'.kind = o2.kind /\ op'.name = o2.name /\ op'.ino = o2.ino /\ op'.at = o2.at
  /\ op'.rec = o2.rec /\ op'.how = o2.how /\ (op'.done <=> o2.done)
  /\ op'.end = end /\ op'.next = next

(* An entry stays as it is, but for its length.                             *)
SameEntry(o) ==
  /\ mem'[o].k = mem[o].k
  /\ mem[o].k = "ino" => mem'[o].a = mem[o].a /\ mem'[o + Header].name = mem[o + Header].name

(* The request and the plan stay as they are.                               *)
SameRequest == op'.kind = op.kind /\ op'.name = op.name /\ op'.ino = op.ino /\ plan' = plan

LEMMA HeaderWritten ==
  ASSUME NEW o \in Units, o + 1 \in Units, NEW i, NEW r, NEW n, NEW next, NEW o2,
         Write(o, HeaderOf(i, r, n), next, o2)
  PROVE  /\ mem'[o] = InoUnit(i) /\ mem'[o + 1] = RecUnit(r, n)
         /\ \A u \in Units : u # o /\ u # o + 1 => mem'[u] = mem[u]
         /\ OpIs(o2, o + Header, next)
         /\ pc' = "size" /\ size' = size /\ walk' = walk /\ plan' = plan
<1> DEFINE us == HeaderOf(i, r, n)
<1>1. Len(us) = 2 /\ us[1] = InoUnit(i) /\ us[2] = RecUnit(r, n)
  BY DEF HeaderOf
<1>2. \A u \in Units : mem'[u] = IF u \in o .. o + Len(us) - 1 THEN us[u - o + 1] ELSE mem[u]
  BY DEF Write
<1>3. \A u \in Units : u \in Int
  BY DirConstants, SMT DEF Units
<1> HIDE DEF us
<1>4. \A u \in Units : u \in o .. o + Len(us) - 1 <=> u = o \/ u = o + 1
  BY <1>1, <1>3, SMT
<1>5. mem'[o] = us[1] /\ mem'[o + 1] = us[2]
  <2>1. o - o + 1 = 1 /\ o + 1 - o + 1 = 2
    BY <1>3, SMT
  <2> QED BY <1>2, <1>4, <2>1
<1>6. OpIs(o2, o + Header, next)
  BY <1>1 DEF Write, us, Header, OpIs
<1> QED BY <1>1, <1>2, <1>4, <1>5, <1>6 DEF Write

(* A write within one entry leaves the others alone.                        *)
LEMMA OthersKept ==
  ASSUME NEW S, NEW r, NEW e, Chain(S, r, e), NEW q \in S, NEW p \in S, p # q,
         \A u \in Units : u < q \/ u >= q + r[q] => mem'[u] = mem[u]
  PROVE  mem'[p] = mem[p] /\ mem'[p + 1] = mem[p + 1] /\ mem'[p + Header] = mem[p + Header]
<1>1. /\ p \in Nat /\ q \in Nat /\ r[p] \in Nat /\ r[q] \in Nat /\ Header < r[p] /\ Header = 2
      /\ p \in Units /\ p + 1 \in Units /\ p + Header \in Units
  BY Offsets DEF Header
<1>2. CASE p < q
  <2>1. p + r[p] <= q
    BY <1>2, Apart
  <2>2. p < q /\ p + 1 < q /\ p + Header < q
    BY <1>1, <2>1, SMT
  <2> QED BY <1>1, <2>2
<1>3. CASE q < p
  <2>1. q + r[q] <= p
    BY <1>3, Apart
  <2>2. p >= q + r[q] /\ p + 1 >= q + r[q] /\ p + Header >= q + r[q]
    BY <1>1, <2>1, SMT
  <2> QED BY <1>1, <2>2
<1> QED BY <1>1, <1>2, <1>3, SMT

LEMMA GrowStep ==
  ASSUME Intact, Grow
  PROVE  Intact'
<1>1. /\ Stage = "header" /\ Stage' = "header" /\ Placing
      /\ pc = "header" /\ pc' = pc /\ op' = op /\ mem' = mem /\ live' = live /\ plan' = plan
      /\ size' = op.at + Header
  BY DEF Grow, Stage, Intact, Stages
<1>2. size \in Nat /\ Chain(Starts, Reach, End) /\ BlockLen \in Nat \ {0} /\ Header = 2 /\ BlockLen > Header
  BY DirConstants, SMT DEF Intact, Shape, Header
<1>3. op.how = "append"
  <2> SUFFICES ASSUME op.how # "append" PROVE FALSE
    OBVIOUS
  <2>1. End = size /\ op.at \in Starts
    BY <1>1 DEF End, Placing, Creating, Starts, Hole
  <2>2. op.at < size /\ size % BlockLen = 0
    BY <1>2, <2>1 DEF Chain, Link
  <2>3. Align(size) = size
    <3>1. Align(size + 0) = size
      BY <1>2, <2>2, Aligned
    <3> QED BY <1>2, <3>1, SMT
  <2>4. op.at \in Nat
    BY <1>2, <2>1, Offsets
  <2> QED BY <1>2, <2>2, <2>3, <2>4, SMT DEF Grow
<1>4. op.at \in Nat /\ op.at % BlockLen = 0 /\ op.at + BlockLen <= Limit /\ op.rec = BlockLen /\ op.at \notin live
  BY <1>1, <1>3 DEF Placing
<1>5. size = op.at
  <2>1. size \in {op.at, op.at + Header}
    BY <1>1, <1>3 DEF Placing
  <2>2. Align(op.at + Header) = op.at + BlockLen
    BY <1>2, <1>4, Aligned, SMT
  <2> QED BY <1>2, <1>4, <2>1, <2>2, SMT DEF Grow
<1>6. Starts = live /\ End = size /\ ~Hole
  BY <1>2, <1>3, <1>5, SMT DEF Starts, End, Hole
<1>7. Starts' = live \cup {op.at} /\ End' = op.at + BlockLen /\ Hole'
  BY <1>1, <1>2, <1>3, <1>4, SMT DEF Starts, End, Hole
<1>8. Reach'[op.at] = BlockLen /\ \A o \in live : Reach'[o] = Reach[o]
  <2>1. \A o \in live : o \in Units
    BY <1>2, <1>6, Offsets
  <2>2. op.at \in Units
    BY <1>2, <1>4, DirConstants, SMT DEF Units
  <2> QED BY <1>1, <1>4, <1>6, <1>7, <2>1, <2>2 DEF Reach
<1>9. Chain(Starts', Reach', End')
  BY <1>2, <1>4, <1>5, <1>6, <1>7, <1>8, ChainAppend
<1>10. Shape'
  BY <1>1, <1>2, <1>4, <1>9, SMT DEF Shape
<1>11. Contents' /\ Requests'
  BY <1>1 DEF Intact, Requests, Contents, Content, InodeEntry, NullEntry, Named, Nameless
<1>12. Placing'
  BY <1>1, <1>3 DEF Placing, Creating, Written
<1>13. Stages'
  BY <1>1, <1>12 DEF Stages
<1> QED BY <1>10, <1>11, <1>13 DEF Intact

LEMMA SplitStep ==
  ASSUME Intact, Split
  PROVE  /\ Intact' /\ SameRequest /\ (op'.done <=> op.done) /\ Stage' = "header"
         /\ \A p \in live : SameEntry(p)
         /\ live' = live /\ op'.at = walk.at + walk.need /\ op'.at \notin live
<1> DEFINE at == walk.at
           n  == walk.need
           o2 == [op EXCEPT !.at = at + n, !.rec = SplitRec, !.how = "split"]
<1>1. /\ Found /\ Searching /\ Tidy /\ Seen /\ Sound(at) /\ at \in live
      /\ walk.rec = Rec[at] /\ walk.rec \in Nat
  BY FoundStage DEF Split
<1>2. /\ Chain(live, Rec, size) /\ at \in Nat /\ at \in Units /\ at + 1 \in Units /\ at + Header \in Units
      /\ at + Rec[at] <= size /\ Header = 2 /\ size \in Nat
  BY <1>1, Offsets DEF Tidy, Header
<1>3. /\ mem[at].k = "ino" /\ mem[at].a \in Inos /\ mem[at].a = walk.ino /\ Named(at) /\ mem[at + 1].b = n
      /\ n \in Nat /\ Header < n
  <2>1. walk.ino # 0 /\ mem[at].a = walk.ino /\ mem[at + 1].b = n
    BY <1>1 DEF Split, Seen
  <2>2. mem[at].k = "ino" /\ mem[at].a \in Inos /\ Named(at)
    BY <1>1, <2>1 DEF Sound, NullEntry
  <2>3. n \in Nat /\ Header < n
    BY <2>1, <2>2, DirConstants DEF Named
  <2> QED BY <2>1, <2>2, <2>3
<1>4. /\ op.kind = "create" /\ op.name \in Names /\ op.ino \in Inos
      /\ Need[op.name] \in Nat /\ Header < Need[op.name] /\ walk.rec - n >= Need[op.name]
  <2>1. op.kind = "create" /\ op.name \in Names /\ op.ino \in Inos
    BY DEF Split, Intact, Requests
  <2>2. walk.rec - n >= Need[op.name]
    BY <1>1, <2>1 DEF Found, Stops, FreeSpace, Split
  <2> QED BY <2>1, <2>2, DirConstants
<1>5. Write(at, HeaderOf(walk.ino, n, n), "header", o2) /\ live' = live
  BY DEF Split
<1>6. /\ mem'[at] = InoUnit(walk.ino) /\ mem'[at + 1] = RecUnit(n, n)
      /\ \A u \in Units : u # at /\ u # at + 1 => mem'[u] = mem[u]
      /\ OpIs(o2, at + Header, "header")
      /\ pc' = "size" /\ size' = size /\ walk' = walk /\ plan' = plan
  <2> HIDE DEF at, n, o2
  <2> QED BY <1>2, <1>5, HeaderWritten
<1>7. /\ op'.kind = "create" /\ op'.name = op.name /\ op'.ino = op.ino /\ op'.at = at + n
      /\ op'.rec = walk.rec - n /\ op'.how = "split" /\ (op'.done <=> op.done)
      /\ op'.end = at + Header /\ op'.next = "header"
  <2>1. /\ o2.kind = "create" /\ o2.name = op.name /\ o2.ino = op.ino /\ o2.at = at + n
        /\ o2.rec = walk.rec - n /\ o2.how = "split" /\ (o2.done <=> op.done)
    BY <1>4 DEF SplitRec
  <2> HIDE DEF o2
  <2> QED BY <1>6, <2>1 DEF OpIs
<1>8. \A p \in live : p # at => /\ mem'[p] = mem[p] /\ mem'[p + 1] = mem[p + 1]
                              /\ mem'[p + Header] = mem[p + Header]
  <2>1. \A u \in Units : u < at \/ u >= at + Rec[at] => u # at /\ u # at + 1
    BY <1>1, <1>2, <1>3, <1>4, SMT
  <2> QED BY <1>1, <1>2, <1>6, <2>1, OthersKept
<1>9. Stage' = "header" /\ Hole' /\ Starts' = live \cup {at + n} /\ End' = size
  BY <1>5, <1>6, <1>7 DEF Stage, Hole, Starts, End
<1>10. at + n \notin live /\ Chain(Starts', Reach', End')
  <2>1. at + n \in Units /\ at + n # at
    <3>1. at + n < at + Rec[at] /\ at + n \in Nat /\ at + n # at
      BY <1>1, <1>2, <1>3, <1>4, SMT
    <3> QED BY <1>1, <1>2, <3>1, Offsets
  <2>2. Reach'[at] = n
    BY <1>2, <1>6, <1>7, <2>1 DEF Reach, RecUnit, Unit
  <2>3. Reach'[at + n] = Rec[at] - n
    BY <1>1, <1>7, <1>9, <2>1 DEF Reach
  <2>4. n + Header < Rec[at]
    BY <1>1, <1>3, <1>4, <1>2, SMT
  <2>5. at + n \notin live
    <3>1. Link(live, Rec, size, at)
      BY <1>1, <1>2 DEF Chain
    <3> QED BY <1>2, <1>3, <2>4, <3>1, SMT DEF Link
  <2>6. \A o \in live \ {at} : Reach'[o] = Rec[o]
    BY <1>2, <1>7, <1>8, <2>5, Offsets DEF Reach, Rec
  <2>7. Chain(live \cup {at + n}, Reach', size)
    <3> HIDE DEF at, n
    <3> QED BY <1>1, <1>2, <1>3, <2>2, <2>3, <2>4, <2>6, ChainSplit
  <2> QED BY <1>9, <2>5, <2>7
<1>11. Shape'
  BY <1>2, <1>6, <1>10 DEF Shape
<1>12. Contents'
  <2>1. ASSUME NEW p \in live, p # at PROVE Content(p)'
    BY <1>1, <1>8, <2>1 DEF Tidy, Sound, Content, NullEntry, InodeEntry, Named
  <2>2. Content(at)'
    <3>1. mem'[at].k = "ino" /\ mem'[at].a = walk.ino
      BY <1>3, <1>6, DirConstants DEF InoUnit, Unit
    <3>2. mem'[at + 1].k = "rec" /\ mem'[at + 1].a = n /\ mem'[at + 1].b = n
      BY <1>6 DEF RecUnit, Unit
    <3>3. mem'[at + Header] = mem[at + Header]
      BY <1>2, <1>6, SMT
    <3>4. Named(at)'
      BY <1>3, <1>6, <3>2, <3>3 DEF Named
    <3>5. Header <= n /\ n <= n
      BY <1>2, <1>3, SMT
    <3> QED BY <1>3, <1>6, <3>1, <3>2, <3>4, <3>5 DEF Content, InodeEntry
  <2>3. ASSUME NEW p \in live PROVE Content(p)'
    <3>1. CASE p = at
      <4>1. p = walk'.at
        BY <1>6, <3>1
      <4> QED BY <2>2, <4>1
    <3> QED BY <2>1, <3>1
  <2> QED BY <1>5, <2>3 DEF Contents
<1>13. Placing'
  <2>1. op'.rec \in Nat /\ op'.rec >= Need[op'.name]
    BY <1>1, <1>3, <1>4, <1>7, SMT
  <2>2. op'.end \in Nat /\ op'.end <= size'
    BY <1>1, <1>2, <1>3, <1>4, <1>6, <1>7, SMT
  <2> QED BY <1>1, <1>5, <1>7, <1>10, <2>1, <2>2 DEF Placing, Creating, Written, Searching
<1>14. Stages' /\ Requests'
  BY <1>4, <1>6, <1>7, <1>9, <1>13 DEF Stages, Intact, Requests
<1>15. Intact'
  BY <1>11, <1>12, <1>14 DEF Intact
<1>16. \A p \in live : SameEntry(p)
  <2> SUFFICES ASSUME NEW p \in live PROVE SameEntry(p)
    OBVIOUS
  <2>1. CASE p = at
    <3>1. mem'[at].k = "ino" /\ mem'[at].a = walk.ino
      BY <1>3, <1>6, DirConstants DEF InoUnit, Unit
    <3>2. mem'[at + Header] = mem[at + Header]
      BY <1>2, <1>6, SMT
    <3> QED BY <1>3, <2>1, <3>1, <3>2 DEF SameEntry
  <2>2. CASE p # at
    BY <1>8, <2>2 DEF SameEntry
  <2> QED BY <2>1, <2>2
<1>17. SameRequest
  BY <1>4, <1>6, <1>7 DEF SameRequest
<1>18. op'.at = walk.at + walk.need /\ op'.at \notin live /\ (op'.done <=> op.done)
  BY <1>7, <1>10
<1> HIDE DEF at, n, o2
<1> QED BY <1>5, <1>9, <1>15, <1>16, <1>17, <1>18
(* A new entry that finds no room comes behind the last block, to which the *)
(* last entry reaches already.                                              *)
LEMMA NewStartIs ==
  ASSUME Intact, Ended, op.kind = "create"
  PROVE  /\ NewStart = size
         /\ size # 0 => /\ Seen /\ walk.at \in live /\ walk.at + walk.rec = size /\ walk.ino # 0
                        /\ walk.rec = Rec[walk.at] /\ Sound(walk.at)
<1>1. Walking /\ Tidy /\ Chain(live, Rec, size) /\ size \in Nat /\ size % BlockLen = 0
  BY WalkStage DEF Ended, Tidy, Chain
<1>2. /\ BlockLen \in Nat \ {0} /\ Header = 2
      /\ op.name \in Names /\ Need[op.name] \in Nat /\ Header < Need[op.name] /\ Need[op.name] <= BlockLen
  <2>1. op.name \in Names
    BY DEF Intact, Requests
  <2> QED BY <2>1, DirConstants DEF Header
<1>3. CASE size = 0
  <2>1. 0 % BlockLen = 0
    BY <1>2, SMT
  <2> QED BY <1>2, <1>3, <2>1, SMT DEF NewStart
<1>4. CASE size # 0
  <2> DEFINE at == walk.at
             n  == walk.need
             r  == walk.rec
  <2>1. \A o \in live : o < size /\ o \in Nat
    BY <1>1 DEF Chain, Link
  <2>2. walk.next = size /\ walk.next > 0
    BY <1>1, <1>4, <2>1, SMT DEF Walking, Ended
  <2>3. Seen /\ at \in live /\ at + r = size /\ r = mem[at + 1].a /\ n = mem[at + 1].b
        /\ walk.ino = mem[at].a /\ FreeSpace(walk) < Need[op.name]
    BY <1>1, <1>4, <2>2 DEF Walking, Seen, Ended
  <2>4. /\ at \in Nat /\ r = Rec[at] /\ r \in Nat /\ Header < r /\ (at % BlockLen) + r <= BlockLen
        /\ at % BlockLen \in Nat /\ Sound(at)
    BY <1>1, <2>3, Offsets DEF Rec, Tidy
  <2>5. (at % BlockLen) + r = BlockLen
    <3> SUFFICES ASSUME (at % BlockLen) + r < BlockLen PROVE FALSE
      BY <1>2, <2>4, SMT
    <3>1. (at + r) % BlockLen = (at % BlockLen) + r
      BY <1>2, <2>4, Within
    <3> HIDE DEF at, r
    <3> QED BY <1>1, <1>2, <2>3, <2>4, <3>1, SMT
  <2>6. walk.ino # 0
    <3> SUFFICES ASSUME walk.ino = 0 PROVE FALSE
      OBVIOUS
    <3>1. at % BlockLen = 0
      BY <2>3, <2>4, DirConstants DEF Sound, NullEntry
    <3>2. r < Need[op.name]
      BY <2>3 DEF FreeSpace
    <3> QED BY <1>2, <2>4, <2>5, <3>1, <3>2, SMT
  <2>7. n \in Nat /\ Header < n /\ n <= r /\ r - n < Need[op.name]
    <3>1. mem[at].a # 0
      BY <2>3, <2>6
    <3>2. Named(at) /\ n <= r
      BY <2>3, <2>4, <3>1 DEF Sound, NullEntry
    <3>3. n \in Nat /\ Header < n
      BY <2>3, <3>2, DirConstants DEF Named
    <3> QED BY <2>3, <2>6, <3>2, <3>3 DEF FreeSpace
  <2>8. CASE n = r
    <3>1. at + n = size
      BY <2>3, <2>8
    <3> QED BY <1>1, <1>2, <1>4, <2>3, <2>4, <2>6, <3>1, SMT DEF NewStart
  <2>9. CASE n < r
    <3>1. (at % BlockLen) + n < BlockLen
      BY <1>2, <2>4, <2>7, <2>9, SMT
    <3>2. (at + n) % BlockLen = (at % BlockLen) + n
      BY <1>2, <2>4, <2>7, <3>1, Within
    <3>3. BlockLen - ((at + n) % BlockLen) = r - n
      <4> HIDE DEF at, n, r
      <4> QED BY <1>2, <2>4, <2>5, <2>7, <3>2, SMT
    <3>4. NewStart = at + n + (r - n)
      BY <1>4, <2>7, <3>3 DEF NewStart
    <3>5. at + n + (r - n) = size
      <4> HIDE DEF at, n, r
      <4> QED BY <2>3, <2>4, <2>7, SMT
    <3> QED BY <2>3, <2>4, <2>6, <3>4, <3>5
  <2> QED BY <2>4, <2>7, <2>8, <2>9, SMT
<1> QED BY <1>3, <1>4

LEMMA AppendEntryStep ==
  ASSUME Intact, AppendEntry
  PROVE  /\ Intact' /\ SameRequest /\ (op'.done <=> op.done) /\ Stage' = "header"
         /\ \A p \in live : SameEntry(p)
         /\ live' = live /\ op'.at = size /\ op'.at \notin live
<1> DEFINE at == walk.at
           o2 == [op EXCEPT !.at = NewStart, !.how = "append",
                            !.rec = Align(Larger(NewStart + Need[op.name], size)) - NewStart]
<1>1. /\ Walking /\ Searching /\ Tidy /\ Chain(live, Rec, size) /\ size \in Nat /\ size % BlockLen = 0
      /\ size <= Limit /\ op.kind = "create" /\ live' = live
  BY WalkStage DEF AppendEntry, Ended, Tidy, Chain
<1>2. /\ BlockLen \in Nat \ {0} /\ Limit \in Nat /\ Limit % BlockLen = 0
      /\ op.name \in Names /\ op.ino \in Inos
      /\ Need[op.name] \in Nat /\ Header < Need[op.name] /\ Need[op.name] <= BlockLen /\ Header = 2
  <2>1. op.name \in Names /\ op.ino \in Inos
    BY <1>1 DEF Intact, Requests
  <2> QED BY <2>1, DirConstants DEF Header
<1>3. NewStart = size /\ size + Need[op.name] <= Limit
  BY <1>1, NewStartIs DEF AppendEntry
<1>4. size + BlockLen <= Limit
  <2>1. size < Limit
    BY <1>1, <1>2, <1>3, SMT
  <2> QED BY <1>1, <1>2, <2>1, NextBlock
<1>5. Align(Larger(NewStart + Need[op.name], size)) - NewStart = BlockLen
  <2>1. Larger(size + Need[op.name], size) = size + Need[op.name]
    BY <1>1, <1>2, SMT DEF Larger
  <2>2. Align(size + Need[op.name]) = size + BlockLen
    <3>1. Need[op.name] # 0
      BY <1>2, SMT
    <3> QED BY <1>1, <1>2, <3>1, Aligned
  <2> QED BY <1>1, <1>2, <1>3, <2>1, <2>2, SMT
<1>6. /\ o2.kind = "create" /\ o2.name = op.name /\ o2.ino = op.ino /\ o2.at = size
      /\ o2.rec = BlockLen /\ o2.how = "append" /\ (o2.done <=> op.done)
  BY <1>1, <1>3, <1>5
<1>7. size \notin live
  BY <1>1, SMT DEF Chain, Link
<1>8. ASSUME /\ op'.kind = "create" /\ op'.name = op.name /\ op'.ino = op.ino /\ op'.at = size
             /\ op'.rec = BlockLen /\ op'.how = "append" /\ (op'.done <=> op.done)
             /\ pc' = "header" \/ (pc' = "size" /\ op'.next = "header" /\ op'.end \in Nat /\ op'.end <= size)
             /\ size' = size /\ plan' = plan
             /\ \A p \in live : Sound(p)' /\ Rec'[p] = Rec[p]
      PROVE  Intact' /\ Stage' = "header"
  <2>1. Stage' = "header" /\ ~Hole' /\ Starts' = live /\ End' = size
    BY <1>1, <1>8, SMT DEF Stage, Hole, Starts, End
  <2>2. \A p \in live : p \in Units
    BY <1>1, Offsets
  <2>3. \A p \in live : Reach'[p] = Rec[p]
    BY <1>8, <2>1, <2>2 DEF Reach, Rec
  <2>4. Shape'
    BY <1>1, <1>8, <2>1, <2>3, ChainSame DEF Shape
  <2>5. Contents'
    BY <1>1, <1>8 DEF Contents, Content, Sound, InodeEntry
  <2>6. Placing'
    BY <1>1, <1>2, <1>4, <1>7, <1>8 DEF Placing, Creating, Written, Searching
  <2>7. Stages' /\ Requests'
    BY <1>2, <1>8, <2>1, <2>6 DEF Stages, Intact, Requests
  <2> QED BY <2>1, <2>4, <2>5, <2>7 DEF Intact
<1>9. CASE size = 0
  <2>1. op' = o2 /\ pc' = "header" /\ mem' = mem /\ size' = size /\ plan' = plan
    BY <1>9 DEF AppendEntry
  <2>2. \A p \in live : Sound(p)' /\ Rec'[p] = Rec[p]
    BY <1>1, <2>1 DEF Tidy, Sound, NullEntry, Named, Rec
  <2> HIDE DEF o2
  <2>3. \A p \in live : SameEntry(p)
    BY <2>1 DEF SameEntry
  <2> QED BY <1>1, <1>6, <1>7, <1>8, <2>1, <2>2, <2>3 DEF SameRequest
<1>10. CASE size # 0
  <2>1. /\ at \in live /\ at + walk.rec = size /\ walk.ino # 0 /\ walk.rec = Rec[at] /\ Sound(at)
        /\ walk.ino = mem[at].a /\ walk.need = mem[at + 1].b /\ walk.rec = mem[at + 1].a
    BY <1>1, <1>10, NewStartIs DEF AppendEntry, Seen
  <2>2. /\ at \in Nat /\ at \in Units /\ at + 1 \in Units /\ at + Header \in Units
        /\ Rec[at] \in Nat /\ Header < Rec[at]
    BY <1>1, <2>1, Offsets
  <2>3. NewStart - at = walk.rec
    <3> HIDE DEF at
    <3> QED BY <1>3, <2>1, <2>2, SMT
  <2>4. Write(at, HeaderOf(walk.ino, walk.rec, walk.need), "header", o2)
    BY <1>10, <2>3 DEF AppendEntry
  <2>5. /\ mem'[at] = InoUnit(walk.ino) /\ mem'[at + 1] = RecUnit(walk.rec, walk.need)
        /\ \A u \in Units : u # at /\ u # at + 1 => mem'[u] = mem[u]
        /\ OpIs(o2, at + Header, "header")
        /\ pc' = "size" /\ size' = size /\ walk' = walk /\ plan' = plan
    <3> HIDE DEF at, o2
    <3> QED BY <2>2, <2>4, HeaderWritten
  <2>6. /\ op'.kind = "create" /\ op'.name = op.name /\ op'.ino = op.ino /\ op'.at = size
        /\ op'.rec = BlockLen /\ op'.how = "append" /\ (op'.done <=> op.done)
        /\ op'.end = at + Header /\ op'.next = "header"
    <3> HIDE DEF o2
    <3> QED BY <1>6, <2>5 DEF OpIs
  <2>7. op'.end \in Nat /\ op'.end <= size
    <3> HIDE DEF at
    <3> QED BY <1>2, <2>1, <2>2, <2>6, SMT
  <2>8. ASSUME NEW p \in live PROVE Sound(p)' /\ Rec'[p] = Rec[p]
    <3>1. CASE p = at
      <4>1. mem[at].k = "ino" /\ mem[at].a \in Inos /\ Named(at)
        BY <2>1 DEF Sound, NullEntry
      <4>2. mem'[at].k = "ino" /\ mem'[at].a = mem[at].a
        BY <2>1, <2>5 DEF InoUnit, Unit
      <4>3. mem'[at + 1].k = "rec" /\ mem'[at + 1].a = mem[at + 1].a /\ mem'[at + 1].b = mem[at + 1].b
        BY <2>1, <2>5 DEF RecUnit, Unit
      <4>4. mem'[at + Header] = mem[at + Header]
        BY <1>2, <2>2, <2>5, SMT
      <4>5. Rec'[p] = Rec[p]
        BY <2>2, <3>1, <4>3 DEF Rec
      <4>6. Named(p)'
        BY <3>1, <4>1, <4>3, <4>4 DEF Named
      <4> QED BY <2>1, <3>1, <4>1, <4>2, <4>3, <4>5, <4>6 DEF Sound
    <3>2. CASE p # at
      <4>1. \A u \in Units : u < at \/ u >= at + Rec[at] => u # at /\ u # at + 1
        BY <1>2, <2>2, SMT
      <4>2. mem'[p] = mem[p] /\ mem'[p + 1] = mem[p + 1] /\ mem'[p + Header] = mem[p + Header]
        <5>1. \A u \in Units : u < at \/ u >= at + Rec[at] => mem'[u] = mem[u]
          BY <2>5, <4>1
        <5>2. Chain(live, Rec, size) /\ at \in live /\ p # at
          BY <1>1, <2>1, <3>2
        <5> HIDE DEF at
        <5> QED BY <5>1, <5>2, OthersKept
      <4>3. p \in Units
        BY <1>1, Offsets
      <4> QED BY <1>1, <4>2, <4>3 DEF Tidy, Sound, NullEntry, Named, Rec
    <3> QED BY <3>1, <3>2
  <2>9. \A p \in live : SameEntry(p)
    <3> SUFFICES ASSUME NEW p \in live PROVE SameEntry(p)
      OBVIOUS
    <3>1. CASE p = at
      <4>1. mem'[at].k = "ino" /\ mem'[at].a = mem[at].a /\ mem[at].k = "ino"
        BY <2>1, <2>5 DEF InoUnit, Unit, Sound, NullEntry
      <4>2. mem'[at + Header] = mem[at + Header]
        BY <1>2, <2>2, <2>5, SMT
      <4> QED BY <3>1, <4>1, <4>2 DEF SameEntry
    <3>2. CASE p # at
      <4>1. \A u \in Units : u < at \/ u >= at + Rec[at] => u # at /\ u # at + 1
        BY <1>2, <2>2, SMT
      <4>2. \A u \in Units : u < at \/ u >= at + Rec[at] => mem'[u] = mem[u]
        BY <2>5, <4>1
      <4>3. Chain(live, Rec, size) /\ at \in live /\ p # at
        BY <1>1, <2>1, <3>2
      <4> HIDE DEF at
      <4>4. mem'[p] = mem[p] /\ mem'[p + 1] = mem[p + 1] /\ mem'[p + Header] = mem[p + Header]
        BY <4>2, <4>3, OthersKept
      <4> QED BY <4>4 DEF SameEntry
    <3> QED BY <3>1, <3>2
  <2> QED BY <1>1, <1>7, <1>8, <2>5, <2>6, <2>7, <2>8, <2>9 DEF SameRequest
<1> QED BY <1>9, <1>10
LEMMA WriteHeaderStep ==
  ASSUME Intact, WriteHeader
  PROVE  /\ Intact' /\ SameRequest /\ (op'.done <=> op.done) /\ Stage = "header" /\ Stage' = "name"
         /\ Placing /\ op'.at = op.at /\ op'.how = op.how /\ live' = live \cup {op.at}
         /\ \A p \in live : p # op.at => SameEntry(p)
<1> DEFINE at == op.at
           need == Need[op.name]
<1>1. /\ Stage = "header" /\ pc = "header" /\ Placing /\ live' = live \cup {at}
      /\ op.kind = "create" /\ op.rec \in Nat /\ op.rec >= need
      /\ op.how \in {"null", "split", "append"}
      /\ Write(at, HeaderOf(op.ino, op.rec, need), "name", op)
  BY DEF WriteHeader, Stage, Intact, Stages, Placing, Creating
<1>2. /\ Chain(Starts, Reach, End) /\ size \in Nat /\ Header = 2 /\ BlockLen \in Nat \ {0}
      /\ op.name \in Names /\ op.ino \in Inos /\ op.ino # 0
      /\ need \in Nat /\ Header < need
  <2>1. op.name \in Names /\ op.ino \in Inos
    BY <1>1 DEF Intact, Requests
  <2> QED BY <2>1, DirConstants DEF Header, Intact, Shape
<1>3. op.how = "append" => size = at + Header /\ size > at /\ at \in Nat
  <2> SUFFICES ASSUME op.how = "append" PROVE size = at + Header /\ size > at /\ at \in Nat
    OBVIOUS
  <2>1. at \in Nat /\ at % BlockLen = 0 /\ size \in {at, at + Header} /\ at < Align(size)
    BY <1>1 DEF Placing, WriteHeader
  <2>2. 0 <= BlockLen /\ BlockLen \in Nat
    BY <1>2, SMT
  <2> HIDE DEF at
  <2>3. Align(at + 0) = at
    BY <2>1, <2>2, Aligned
  <2> QED BY <1>2, <2>1, <2>3, SMT
<1>4. Starts = live' /\ at \in live' /\ Reach[at] = op.rec
  <2>1. Starts = live' /\ at \in live'
    BY <1>1, <1>3 DEF Starts, Hole, Placing
  <2>2. at \in Units
    BY <1>2, <2>1, Offsets
  <2> QED BY <1>1, <1>3, <2>1, <2>2 DEF Reach, Hole, Placing
<1>5. /\ at \in Nat /\ at \in Units /\ at + 1 \in Units /\ at + Header \in Units /\ at + op.rec <= End
      /\ End \in Nat
  BY <1>2, <1>4, Offsets
<1>6. /\ mem'[at] = InoUnit(op.ino) /\ mem'[at + 1] = RecUnit(op.rec, need)
      /\ \A u \in Units : u # at /\ u # at + 1 => mem'[u] = mem[u]
      /\ OpIs(op, at + Header, "name")
      /\ pc' = "size" /\ size' = size /\ walk' = walk /\ plan' = plan
  <2> HIDE DEF at, need
  <2> QED BY <1>1, <1>5, HeaderWritten
<1>7. /\ op'.kind = op.kind /\ op'.name = op.name /\ op'.ino = op.ino /\ op'.at = at
      /\ op'.rec = op.rec /\ op'.how = op.how /\ (op'.done <=> op.done)
      /\ op'.end = at + Header /\ op'.next = "name"
  BY <1>6 DEF OpIs
<1>8. /\ mem'[at].k = "ino" /\ mem'[at].a = op.ino
      /\ mem'[at + 1].k = "rec" /\ mem'[at + 1].a = op.rec /\ mem'[at + 1].b = need
  BY <1>2, <1>6 DEF InoUnit, RecUnit, Unit
<1>9. \A p \in live' : p # at => /\ mem'[p] = mem[p] /\ mem'[p + 1] = mem[p + 1]
                               /\ mem'[p + Header] = mem[p + Header]
  <2>1. \A u \in Units : u < at \/ u >= at + Reach[at] => u # at /\ u # at + 1
    BY <1>1, <1>2, <1>4, <1>5, SMT
  <2>2. \A u \in Units : u < at \/ u >= at + Reach[at] => mem'[u] = mem[u]
    BY <1>6, <2>1
  <2> HIDE DEF at
  <2> QED BY <1>2, <1>4, <2>2, OthersKept
<1>10. Stage' = "name" /\ ~Hole' /\ Starts' = live' /\ End' = End
  BY <1>6, <1>7 DEF Stage, Hole, Starts, End
<1>11. Shape'
  <2>1. \A p \in live' : Reach'[p] = Reach[p]
    <3> SUFFICES ASSUME NEW p \in live' PROVE Reach'[p] = Reach[p]
      OBVIOUS
    <3>1. p \in Units
      BY <1>2, <1>4, Offsets
    <3> QED BY <1>4, <1>8, <1>9, <1>10, <3>1 DEF Reach
  <2> QED BY <1>2, <1>4, <1>6, <1>10, <2>1, ChainSame DEF Shape
<1>12. Contents'
  <2> SUFFICES ASSUME NEW p \in live' PROVE Content(p)'
    BY DEF Contents
  <2>1. CASE p = at
    <3>1. Nameless(p)'
      BY <1>7, <1>10, <2>1 DEF Nameless
    <3>2. need \in Nat /\ Header <= need /\ need <= op.rec
      BY <1>1, <1>2, SMT
    <3> QED BY <1>2, <1>8, <2>1, <3>1, <3>2 DEF Content, InodeEntry
  <2>2. CASE p # at
    <3>1. Content(p) /\ ~Nameless(p)
      BY <1>1, <2>2 DEF Intact, Contents, Nameless
    <3> QED BY <1>9, <2>2, <3>1 DEF Content, InodeEntry, NullEntry, Named
  <2> QED BY <2>1, <2>2
<1>13. Naming'
  <2>1. Placed'
    BY <1>1, <1>4, <1>7, <1>8 DEF Placing, Placed
  <2>2. Creating' /\ ~op'.done
    BY <1>1, <1>7 DEF Placing, Creating
  <2>3. op'.end \in Nat /\ op'.end <= size'
    <3>1. CASE op.how = "append"
      BY <1>2, <1>3, <1>5, <1>6, <1>7, <3>1, SMT
    <3>2. CASE op.how # "append"
      <4>1. End = size
        BY <3>2 DEF End
      <4> HIDE DEF at, need
      <4> QED BY <1>1, <1>2, <1>5, <1>6, <1>7, <4>1, SMT
    <3> QED BY <3>1, <3>2
  <2>4. op'.how = "append" => size' = op'.at + Header
    BY <1>3, <1>6, <1>7
  <2> QED BY <2>1, <2>2, <2>3, <2>4 DEF Naming, Written
<1>14. Stages' /\ Requests'
  BY <1>2, <1>6, <1>7, <1>10, <1>13 DEF Stages, Intact, Requests
<1>15. Intact'
  BY <1>11, <1>12, <1>14 DEF Intact
<1>16. \A p \in live : p # at => SameEntry(p)
  BY <1>1, <1>9 DEF SameEntry
<1> QED BY <1>1, <1>6, <1>7, <1>10, <1>15, <1>16 DEF SameRequest

LEMMA NameBuffer ==
  ASSUME NEW name, NEW n \in Nat \ {0}
  PROVE  Len(NameIn(name, n)) = n /\ NameIn(name, n)[1] = Unit("text", 0, 0, name)
BY SMT DEF NameIn

LEMMA ZeroBuffer ==
  ASSUME NEW n \in Nat
  PROVE  Len(Zeros(n)) = n /\ \A i \in 1 .. n : Zeros(n)[i] = Zero
BY SMT DEF Zeros
LEMMA RangeWritten ==
  ASSUME NEW o \in Nat, NEW n \in Nat, NEW us, Len(us) = n, NEW next, NEW o2, Write(o, us, next, o2)
  PROVE  /\ \A u \in Units : mem'[u] = IF o <= u /\ u < o + n THEN us[u - o + 1] ELSE mem[u]
         /\ o \in Units /\ n > 0 => mem'[o] = us[1]
         /\ OpIs(o2, o + n, next)
         /\ pc' = "size" /\ size' = size /\ walk' = walk /\ plan' = plan
<1>1. \A u \in Units : mem'[u] = IF u \in o .. o + n - 1 THEN us[u - o + 1] ELSE mem[u]
  BY DEF Write
<1>2. \A u \in Units : u \in Int
  BY DirConstants, SMT DEF Units
<1>3. \A u \in Units : u \in o .. o + n - 1 <=> o <= u /\ u < o + n
  BY <1>2, SMT
<1>4. ASSUME o \in Units, n > 0 PROVE mem'[o] = us[1]
  <2>1. o \in o .. o + n - 1 /\ o - o + 1 = 1
    BY <1>4, SMT
  <2> QED BY <1>1, <1>4, <2>1
<1>5. OpIs(o2, o + n, next)
  BY DEF Write, OpIs
<1> QED BY <1>1, <1>3, <1>4, <1>5 DEF Write

LEMMA WriteNameStep ==
  ASSUME Intact, WriteName
  PROVE  /\ Intact' /\ SameRequest /\ (op'.done <=> op.how # "append") /\ Stage = "name" /\ Stage' = "assert"
         /\ Naming /\ Finishing' /\ op'.at = op.at /\ op'.how = op.how /\ live' = live
         /\ \A p \in live : p # op.at => SameEntry(p)
<1> DEFINE at == op.at
           o2 == [op EXCEPT !.done = op.at + Header < size]
           us == NameIn(op.name, op.rec - Header)
<1>1. /\ Stage = "name" /\ Naming /\ Placed /\ Creating /\ live' = live
      /\ Write(at + Header, us, "assert", o2)
  BY DEF WriteName, Stage, Intact, Stages, Naming
<1>2. /\ Chain(live, Reach, End) /\ size \in Nat /\ at \in live /\ Reach[at] = op.rec
      /\ op.rec \in Nat /\ Header = 2 /\ ~Hole
      /\ op.name \in Names /\ Need[op.name] \in Nat /\ Header < Need[op.name] /\ op.rec >= Need[op.name]
  <2>1. ~Hole
    BY <1>1 DEF Hole
  <2>2. Chain(live, Reach, End) /\ size \in Nat
    BY <2>1 DEF Intact, Shape, Starts
  <2>3. at \in live /\ mem[at + 1].a = op.rec
    BY <1>1 DEF Placed
  <2>4. Reach[at] = op.rec
    BY <2>1, <2>2, <2>3, Offsets DEF Reach
  <2>5. op.name \in Names
    BY <1>1 DEF Intact, Requests, Creating
  <2> QED BY <1>1, <2>1, <2>2, <2>3, <2>4, <2>5, DirConstants DEF Header, Creating
<1>3. /\ at \in Nat /\ at \in Units /\ at + 1 \in Units /\ at + Header \in Units
      /\ at + op.rec <= End /\ End \in Nat
  BY <1>2, Offsets
<1>4. op.rec - Header \in Nat \ {0} /\ at + Header \in Nat
  BY <1>2, <1>3, SMT
<1>5. Len(us) = op.rec - Header /\ us[1] = Unit("text", 0, 0, op.name)
  BY <1>4, NameBuffer
<1>6. /\ \A u \in Units : mem'[u] = IF at + Header <= u /\ u < at + Header + (op.rec - Header)
                                  THEN us[u - (at + Header) + 1] ELSE mem[u]
      /\ mem'[at + Header] = us[1]
      /\ OpIs(o2, at + Header + (op.rec - Header), "assert")
      /\ pc' = "size" /\ size' = size /\ walk' = walk /\ plan' = plan
  <2> DEFINE o == at + Header
             n == op.rec - Header
  <2>1. Write(o, us, "assert", o2) /\ o \in Nat /\ o \in Units /\ n \in Nat /\ n > 0 /\ Len(us) = n
    BY <1>1, <1>3, <1>4, <1>5, SMT
  <2> HIDE DEF o2, us, o, n
  <2>2. /\ \A u \in Units : mem'[u] = IF o <= u /\ u < o + n THEN us[u - o + 1] ELSE mem[u]
        /\ o \in Units /\ n > 0 => mem'[o] = us[1]
        /\ OpIs(o2, o + n, "assert")
        /\ pc' = "size" /\ size' = size /\ walk' = walk /\ plan' = plan
    BY <2>1, RangeWritten, ZenonT(60)
  <2>3. mem'[o] = us[1]
    BY <2>1, <2>2
  <2> QED BY <2>2, <2>3 DEF o, n
<1>7. /\ op'.kind = op.kind /\ op'.name = op.name /\ op'.ino = op.ino /\ op'.at = at
      /\ op'.rec = op.rec /\ op'.how = op.how /\ op'.next = "assert"
      /\ op'.end = at + op.rec /\ (op'.done <=> at + Header < size)
  <2>1. at + Header + (op.rec - Header) = at + op.rec
    BY <1>2, <1>3, SMT
  <2>2. /\ o2.kind = op.kind /\ o2.name = op.name /\ o2.ino = op.ino /\ o2.at = at
        /\ o2.rec = op.rec /\ o2.how = op.how /\ o2.done = (at + Header < size)
    OBVIOUS
  <2> HIDE DEF o2, at
  <2> QED BY <1>6, <2>1, <2>2 DEF OpIs
<1>8. mem'[at] = mem[at] /\ mem'[at + 1] = mem[at + 1] /\ mem'[at + Header] = Unit("text", 0, 0, op.name)
  <2> HIDE DEF at, us
  <2>1. ~(at + Header <= at) /\ ~(at + Header <= at + 1)
    BY <1>2, <1>3, SMT
  <2>2. mem'[at] = mem[at] /\ mem'[at + 1] = mem[at + 1]
    BY <1>3, <1>6, <2>1
  <2> QED BY <1>5, <1>6, <2>2
<1>9. \A p \in live : p # at => /\ mem'[p] = mem[p] /\ mem'[p + 1] = mem[p + 1]
                              /\ mem'[p + Header] = mem[p + Header]
  <2> HIDE DEF at, us
  <2>0. \A u \in Units : u \in Int
    BY DirConstants, SMT DEF Units
  <2>1. \A u \in Units : u < at \/ u >= at + Reach[at] =>
           ~(at + Header <= u /\ u < at + Header + (op.rec - Header))
    BY <1>2, <1>3, <2>0, SMT
  <2>2. \A u \in Units : u < at \/ u >= at + Reach[at] => mem'[u] = mem[u]
    BY <1>6, <2>1
  <2> QED BY <1>2, <2>2, OthersKept
<1>10. Stage' = "assert" /\ ~Hole' /\ Starts' = live /\ End' = End
  BY <1>1, <1>6, <1>7 DEF Stage, Hole, Starts, End
<1>11. Shape'
  <2>1. \A p \in live : Reach'[p] = Reach[p]
    <3> SUFFICES ASSUME NEW p \in live PROVE Reach'[p] = Reach[p]
      OBVIOUS
    <3>1. p \in Units
      BY <1>2, Offsets
    <3>2. mem'[p + 1] = mem[p + 1]
      BY <1>8, <1>9
    <3> QED BY <1>2, <1>10, <3>1, <3>2 DEF Reach
  <2> QED BY <1>2, <1>6, <1>10, <2>1, ChainSame DEF Shape
<1>12. Contents'
  <2> SUFFICES ASSUME NEW p \in live PROVE Content(p)'
    BY <1>1 DEF Contents
  <2>1. Content(p)
    BY DEF Intact, Contents
  <2>2. CASE p = at
    <3>1. Named(p)'
      BY <1>1, <1>2, <1>8, <2>2 DEF Named, Placed, Unit
    <3>2. mem[p].k = "ino"
      BY <1>1, <2>2 DEF Placed
    <3> QED BY <1>8, <2>1, <2>2, <3>1, <3>2 DEF Content, InodeEntry, NullEntry
  <2>3. CASE p # at
    <3>1. ~Nameless(p)
      BY <2>3 DEF Nameless
    <3> QED BY <1>9, <2>1, <2>3, <3>1 DEF Content, InodeEntry, NullEntry, Named
  <2> QED BY <2>2, <2>3
<1>13. Finishing'
  <2>1. Creating' /\ Placed' /\ mem'[op'.at + Header].name = op'.name
    BY <1>1, <1>7, <1>8 DEF Creating, Placed, Unit
  <2>2. CASE op.how = "append"
    <3>1. size = at + Header /\ op.rec = BlockLen
      BY <1>1, <2>2 DEF Naming, Placed
    <3>2. ~(at + Header < size)
      BY <1>2, <3>1, SMT
    <3> QED BY <1>6, <1>7, <2>1, <2>2, <3>1, <3>2 DEF Finishing
  <2>3. CASE op.how # "append"
    <3>1. End = size
      BY <2>3 DEF End
    <3> HIDE DEF at
    <3>2. at + Header < size /\ at + op.rec <= size /\ at + op.rec \in Nat
      BY <1>2, <1>3, <3>1, SMT
    <3> QED BY <1>6, <1>7, <2>1, <2>3, <3>2 DEF Finishing, Written
  <2> QED BY <2>2, <2>3
<1>14. Stages' /\ Requests'
  BY <1>6, <1>7, <1>10, <1>13 DEF Stages, Intact, Requests
<1>15. Intact'
  BY <1>11, <1>12, <1>14 DEF Intact
<1>16. \A p \in live : p # at => SameEntry(p)
  BY <1>9 DEF SameEntry
<1>17. op'.done <=> op.how # "append"
  BY <1>6, <1>7, <1>13 DEF Finishing
<1> QED BY <1>1, <1>6, <1>7, <1>10, <1>13, <1>15, <1>16, <1>17 DEF SameRequest
LEMMA HeaderSound ==
  ASSUME NEW o, Sound(o), NEW r, mem[o + 1].b <= r,
         mem'[o] = InoUnit(mem[o].a), mem'[o + 1] = RecUnit(r, mem[o + 1].b),
         mem'[o + Header] = mem[o + Header]
  PROVE  /\ Sound(o)' /\ mem'[o + 1].a = r /\ mem'[o + 1].b = mem[o + 1].b
         /\ mem'[o].k = mem[o].k /\ mem'[o].a = mem[o].a
<1>1. mem'[o + 1].k = "rec" /\ mem'[o + 1].a = r /\ mem'[o + 1].b = mem[o + 1].b
  BY DEF RecUnit, Unit
<1>2. CASE NullEntry(o)
  <2>1. mem'[o].k = "zero" /\ mem'[o].a = 0
    BY <1>2 DEF NullEntry, InoUnit, Unit, Zero
  <2> QED BY <1>1, <1>2, <2>1 DEF Sound, NullEntry
<1>3. CASE mem[o].k = "ino" /\ mem[o].a \in Inos /\ Named(o)
  <2>1. mem'[o].k = "ino" /\ mem'[o].a = mem[o].a
    BY <1>3, DirConstants DEF InoUnit, Unit
  <2>2. Named(o)'
    BY <1>1, <1>3 DEF Named
  <2> QED BY <1>1, <1>3, <2>1, <2>2 DEF Sound
<1> QED BY <1>2, <1>3 DEF Sound

LEMMA LengthenStep ==
  ASSUME Intact, Lengthen
  PROVE  /\ Intact' /\ SameRequest /\ op.kind = "unlink" /\ op.how = "none" /\ op'.how = "none"
         /\ walk.at \in live /\ mem[walk.at].k = "ino" /\ mem[walk.at + Header].name = op.name
         /\ (op'.done <=> ~CrossesBlock) /\ ~op.done
         /\ live' = IF CrossesBlock THEN live ELSE live \ {walk.at}
         /\ \A p \in live : SameEntry(p)
<1> DEFINE at == walk.at
           bf == walk.before
           rec == IF CrossesBlock THEN BlockLen - (walk.before % BlockLen) ELSE RecBefore
           next == IF CrossesBlock THEN "null" ELSE "wipe"
           o2 == [op EXCEPT !.done = ~CrossesBlock]
<1>1. /\ Found /\ Searching /\ Tidy /\ Seen /\ Sound(at) /\ at \in live
      /\ walk.rec = Rec[at] /\ walk.rec \in Nat /\ pc = "found" /\ op.kind = "unlink" /\ ~IsFirst
  BY FoundStage DEF Lengthen
<1>2. op.name \in Names /\ op.name # NoName
  <2>1. op.name \in Names
    BY <1>1 DEF Intact, Requests
  <2> QED BY <2>1, DirConstants
<1>3. mem[at].k = "ino" /\ mem[at + Header].name = op.name
  <2>1. walk.buf = op.name
    BY <1>1 DEF Found, Stops
  <2>2. walk.ino # 0 /\ mem[at + Header].name = op.name /\ mem[at].a = walk.ino
    BY <1>1, <1>2, <2>1 DEF Seen
  <2> QED BY <1>1, <2>2 DEF Sound, NullEntry
<1>4. bf \in live /\ bf + Rec[bf] = at /\ Rec[bf] = mem[bf + 1].a /\ Sound(bf) /\ at # bf
  <2>1. bf \in live /\ bf + mem[bf + 1].a = at /\ at # bf
    BY <1>1 DEF Seen, Behind, IsFirst
  <2>2. Chain(live, Rec, size)
    BY <1>1 DEF Tidy
  <2>3. bf \in Units
    BY <2>1, <2>2, Offsets
  <2> QED BY <1>1, <2>1, <2>3 DEF Rec, Tidy
<1>5. /\ Chain(live, Rec, size) /\ size \in Nat /\ Header = 2 /\ BlockLen \in Nat \ {0}
      /\ at \in Nat /\ at \in Units /\ at + 1 \in Units /\ at + Header \in Units /\ at % BlockLen \in Nat
      /\ at + Rec[at] <= size /\ Header < Rec[at] /\ (at % BlockLen) + Rec[at] <= BlockLen /\ Rec[at] \in Nat
      /\ bf \in Nat /\ bf \in Units /\ bf + 1 \in Units /\ bf + Header \in Units /\ bf % BlockLen \in Nat
      /\ Rec[bf] \in Nat /\ Header < Rec[bf] /\ (bf % BlockLen) + Rec[bf] <= BlockLen
      /\ mem[bf + 1].b \in Nat /\ mem[bf + 1].b <= Rec[bf]
  <2>1. Chain(live, Rec, size) /\ size \in Nat /\ Header = 2 /\ BlockLen \in Nat \ {0}
    BY <1>1, DirConstants DEF Tidy, Header, Chain
  <2> QED BY <1>1, <1>4, <2>1, Offsets DEF Sound
<1>6. RecBefore = Rec[bf] + Rec[at] /\ (CrossesBlock <=> (bf % BlockLen) + (Rec[bf] + Rec[at]) > BlockLen)
  BY <1>1, <1>4 DEF RecBefore, CrossesBlock
<1>7. CrossesBlock => rec = Rec[bf] /\ at % BlockLen = 0
  <2> SUFFICES ASSUME CrossesBlock PROVE rec = Rec[bf] /\ at % BlockLen = 0
    OBVIOUS
  <2> DEFINE m == bf % BlockLen
             r == Rec[bf]
  <2>1. m + r = BlockLen
    <3> SUFFICES ASSUME m + r < BlockLen PROVE FALSE
      BY <1>5, SMT
    <3>1. (bf + r) % BlockLen = m + r
      BY <1>5, Within
    <3>2. m + (r + Rec[at]) > BlockLen /\ (m + r) + Rec[at] <= BlockLen
      BY <1>4, <1>5, <1>6, <3>1
    <3>3. m \in Nat /\ r \in Nat /\ Rec[at] \in Nat /\ BlockLen \in Nat
      BY <1>5
    <3> HIDE DEF m, r, at
    <3> QED BY <3>2, <3>3, SMT
  <2>2. at % BlockLen = 0
    BY <1>4, <1>5, <2>1, Upto
  <2>3. BlockLen - m = r
    <3>1. m \in Nat /\ r \in Nat /\ BlockLen \in Nat
      BY <1>5
    <3> HIDE DEF m, r
    <3> QED BY <2>1, <3>1, SMT
  <2> QED BY <2>2, <2>3
<1>8. rec \in Nat /\ mem[bf + 1].b <= rec
  BY <1>5, <1>6, <1>7, SMT
<1>9. Write(bf, HeaderOf(mem[bf].a, rec, mem[bf + 1].b), next, o2)
  BY DEF Lengthen
<1>10. /\ mem'[bf] = InoUnit(mem[bf].a) /\ mem'[bf + 1] = RecUnit(rec, mem[bf + 1].b)
       /\ \A u \in Units : u # bf /\ u # bf + 1 => mem'[u] = mem[u]
       /\ OpIs(o2, bf + Header, next)
       /\ pc' = "size" /\ size' = size /\ walk' = walk /\ plan' = plan
  <2> HIDE DEF bf, rec, next, o2
  <2> QED BY <1>5, <1>9, HeaderWritten
<1>11. /\ op'.kind = "unlink" /\ op'.name = op.name /\ op'.how = "none" /\ op'.end = bf + Header
       /\ op'.next = next /\ (op'.done <=> ~CrossesBlock)
  <2>1. /\ o2.kind = "unlink" /\ o2.name = op.name /\ o2.how = "none" /\ o2.done = (~CrossesBlock)
    BY <1>1 DEF Searching
  <2> HIDE DEF o2
  <2> QED BY <1>10, <2>1 DEF OpIs
<1>12. /\ \A p \in live : p # bf => /\ mem'[p] = mem[p] /\ mem'[p + 1] = mem[p + 1]
                                /\ mem'[p + Header] = mem[p + Header]
       /\ mem'[bf + Header] = mem[bf + Header]
  <2> HIDE DEF bf
  <2>1. \A u \in Units : u < bf \/ u >= bf + Rec[bf] => u # bf /\ u # bf + 1
    BY <1>5, SMT
  <2>2. \A u \in Units : u < bf \/ u >= bf + Rec[bf] => mem'[u] = mem[u]
    BY <1>10, <2>1
  <2>3. bf + Header # bf /\ bf + Header # bf + 1
    BY <1>5, SMT
  <2> QED BY <1>4, <1>5, <1>10, <2>2, <2>3, OthersKept
<1>13. \A p \in live : /\ Sound(p)'
                     /\ mem'[p].k = mem[p].k /\ mem'[p].a = mem[p].a /\ mem'[p + Header] = mem[p + Header]
                     /\ Rec'[p] = IF p = bf THEN rec ELSE Rec[p]
  <2> SUFFICES ASSUME NEW p \in live
               PROVE  /\ Sound(p)'
                      /\ mem'[p].k = mem[p].k /\ mem'[p].a = mem[p].a /\ mem'[p + Header] = mem[p + Header]
                      /\ Rec'[p] = IF p = bf THEN rec ELSE Rec[p]
    OBVIOUS
  <2>1. Sound(p) /\ p \in Units
    BY <1>1, <1>5, Offsets DEF Tidy
  <2>2. CASE p = bf
    <3> HIDE DEF bf, rec
    <3>1. Sound(p)' /\ mem'[p + 1].a = rec /\ mem'[p].k = mem[p].k /\ mem'[p].a = mem[p].a
      BY <1>8, <1>10, <1>12, <2>1, <2>2, HeaderSound
    <3> QED BY <1>12, <2>1, <2>2, <3>1 DEF Rec
  <2>3. CASE p # bf
    <3> HIDE DEF bf
    <3> QED BY <1>12, <2>1, <2>3 DEF Sound, NullEntry, Named, Rec
  <2> QED BY <2>2, <2>3
<1>14. op'.end \in Nat /\ op'.end <= size
  <2> HIDE DEF bf, at
  <2> QED BY <1>4, <1>5, <1>11, SMT
<1>15. ASSUME CrossesBlock PROVE Intact'
  <2>1. live' = live /\ Rec[bf] = rec /\ next = "null" /\ at % BlockLen = 0 /\ ~op'.done
    BY <1>7, <1>11, <1>15 DEF Lengthen
  <2>2. Tidy'
    <3>1. \A p \in live : Rec'[p] = Rec[p]
      BY <1>13, <2>1
    <3>2. Chain(live, Rec', size)
      BY <1>5, <3>1, ChainSame
    <3> QED BY <1>10, <1>13, <2>1, <3>2 DEF Tidy
  <2>3. Shape' /\ Contents'
    BY <1>11, <2>2, TidyAfter
  <2>4. at > 0
    <3> HIDE DEF at, bf
    <3> QED BY <1>4, <1>5, SMT
  <2>5. mem'[at].k = "ino" /\ mem'[at + Header].name = op.name
    BY <1>1, <1>3, <1>13
  <2>6. Rec'[at] = walk.rec
    BY <1>1, <1>4, <1>13
  <2>7. Crossing'
    <3>1. mem'[at + 1].a = walk.rec
      BY <1>5, <2>6 DEF Rec
    <3> QED BY <1>1, <1>10, <1>11, <1>14, <2>1, <2>4, <2>5, <3>1 DEF Crossing, Removing, Written
  <2>8. Stages' /\ Requests'
    BY <1>2, <1>10, <1>11, <2>1, <2>7 DEF Stages, Stage, Intact, Requests
  <2> QED BY <2>3, <2>8 DEF Intact
<1>16. ASSUME ~CrossesBlock PROVE Intact'
  <2>1. live' = live \ {at} /\ Rec[bf] + Rec[at] = rec /\ next = "wipe" /\ op'.done
    BY <1>6, <1>11, <1>16 DEF Lengthen
  <2>2. Chain(live', Rec', size)
    <3>1. (bf % BlockLen) + Rec[bf] + Rec[at] <= BlockLen
      <4> DEFINE m == bf % BlockLen
                 r == Rec[bf]
      <4>1. m \in Nat /\ r \in Nat /\ Rec[at] \in Nat /\ BlockLen \in Nat /\ ~(m + (r + Rec[at]) > BlockLen)
        BY <1>5, <1>6, <1>16
      <4> HIDE DEF m, r, at
      <4>2. m + r + Rec[at] <= BlockLen
        BY <4>1, SMT
      <4> QED BY <4>2 DEF m, r
    <3>2. Rec'[bf] = Rec[bf] + Rec[at] /\ \A p \in live \ {bf, at} : Rec'[p] = Rec[p]
      BY <1>4, <1>13, <2>1
    <3>3. bf \in live /\ at \in live /\ at = bf + Rec[bf] /\ Chain(live, Rec, size)
      BY <1>1, <1>4, <1>5
    <3> HIDE DEF bf, at
    <3> QED BY <2>1, <3>1, <3>2, <3>3, ChainMerge, ZenonT(60)
  <2>3. Tidy'
    BY <1>10, <1>13, <2>1, <2>2 DEF Tidy
  <2>4. Shape' /\ Contents'
    BY <1>11, <2>3, TidyAfter
  <2>5. Rec'[bf] = rec /\ mem'[bf + 1].a = rec /\ mem'[bf + 1].b = mem[bf + 1].b
    <3>1. Rec'[bf] = rec
      BY <1>4, <1>13
    <3> QED BY <1>5, <1>10, <3>1 DEF Rec, RecUnit, Unit
  <2>6. bf + mem[bf + 1].b <= at /\ at + walk.rec <= bf + rec
    <3>1. bf + Rec[bf] = at /\ walk.rec = Rec[at] /\ rec = Rec[bf] + Rec[at]
      BY <1>1, <1>4, <2>1
    <3> HIDE DEF bf, at, rec
    <3> QED BY <1>5, <3>1, SMT
  <2>7. Merged'
    BY <1>1, <1>4, <1>5, <1>10, <1>11, <1>14, <2>1, <2>5, <2>6 DEF Merged, Removing, Written
  <2>8. Stages' /\ Requests'
    BY <1>2, <1>10, <1>11, <2>1, <2>7 DEF Stages, Stage, Intact, Requests
  <2> QED BY <2>4, <2>8 DEF Intact
<1>17. \A p \in live : SameEntry(p)
  BY <1>13 DEF SameEntry
<1>18. live' = IF CrossesBlock THEN live ELSE live \ {at}
  BY DEF Lengthen
<1>19. Intact'
  BY <1>15, <1>16
<1>20. SameRequest /\ op.kind = "unlink" /\ op.how = "none" /\ op'.how = "none" /\ ~op.done
      /\ (op'.done <=> ~CrossesBlock)
  <2>1. op'.ino = op.ino
    <3>1. o2.ino = op.ino
      OBVIOUS
    <3> HIDE DEF o2
    <3> QED BY <1>10, <3>1 DEF OpIs
  <2>2. op.how = "none" /\ ~op.done
    BY <1>1 DEF Searching
  <2> HIDE DEF o2
  <2> QED BY <1>1, <1>10, <1>11, <2>1, <2>2 DEF SameRequest
<1> HIDE DEF o2, bf, rec, next
<1> QED BY <1>1, <1>3, <1>17, <1>18, <1>19, <1>20
LEMMA NullHeaderStep ==
  ASSUME Intact, NullHeader
  PROVE  /\ Intact' /\ SameRequest /\ op.kind = "unlink" /\ op.how = "none" /\ op'.how = "none"
         /\ Crossing /\ op'.done /\ live' = live /\ mem'[walk.at].k = "zero"
         /\ \A p \in live : p # walk.at => SameEntry(p)
<1> DEFINE at == walk.at
           o2 == [op EXCEPT !.done = TRUE]
<1>1. /\ Crossing /\ live' = live /\ Write(at, HeaderOf(0, walk.rec, Header), "nullname", o2)
  BY DEF NullHeader, Intact, Stages, Stage
<1>2. Tidy /\ op.kind = "unlink" /\ op.name \in Names /\ op.how = "none" /\ at \in live
  <2>1. op.kind = "unlink" /\ op.how = "none" /\ at \in live
    BY <1>1 DEF Crossing, Removing
  <2> QED BY <2>1, OutsideWindows DEF InWindow, Intact, Requests
<1>3. /\ Chain(live, Rec, size) /\ size \in Nat /\ Header = 2
      /\ at \in Nat /\ at \in Units /\ at + 1 \in Units /\ at + Header \in Units
      /\ Rec[at] \in Nat /\ Header < Rec[at] /\ at + Rec[at] <= size /\ walk.rec = Rec[at]
  <2>1. Chain(live, Rec, size)
    BY <1>2 DEF Tidy
  <2>2. /\ size \in Nat /\ at \in Nat /\ at \in Units /\ at + 1 \in Units /\ at + Header \in Units
        /\ Rec[at] \in Nat /\ Header < Rec[at] /\ at + Rec[at] <= size
    BY <1>2, <2>1, Offsets
  <2> QED BY <1>1, <2>1, <2>2 DEF Crossing, Rec, Header
<1>4. /\ mem'[at] = Zero /\ mem'[at + 1] = RecUnit(walk.rec, Header)
      /\ \A u \in Units : u # at /\ u # at + 1 => mem'[u] = mem[u]
      /\ OpIs(o2, at + Header, "nullname")
      /\ pc' = "size" /\ size' = size /\ walk' = walk /\ plan' = plan
  <2> HIDE DEF at, o2
  <2>1. InoUnit(0) = Zero
    BY DEF InoUnit
  <2> QED BY <1>1, <1>3, <2>1, HeaderWritten
<1>5. /\ op'.kind = "unlink" /\ op'.name = op.name /\ op'.how = "none" /\ op'.end = at + Header
      /\ op'.next = "nullname" /\ op'.done
  <2>1. /\ o2.kind = "unlink" /\ o2.name = op.name /\ o2.how = "none" /\ o2.done = TRUE
    BY <1>2
  <2> HIDE DEF o2
  <2> QED BY <1>4, <2>1 DEF OpIs
<1>6. /\ mem'[at].k = "zero" /\ mem'[at].a = 0
      /\ mem'[at + 1].k = "rec" /\ mem'[at + 1].a = walk.rec /\ mem'[at + 1].b = Header
  BY <1>4 DEF Zero, RecUnit, Unit
<1>7. \A p \in live : p # at => /\ mem'[p] = mem[p] /\ mem'[p + 1] = mem[p + 1]
                              /\ mem'[p + Header] = mem[p + Header]
  <2> HIDE DEF at
  <2>1. \A u \in Units : u < at \/ u >= at + Rec[at] => u # at /\ u # at + 1
    BY <1>3, SMT
  <2>2. \A u \in Units : u < at \/ u >= at + Rec[at] => mem'[u] = mem[u]
    BY <1>4, <2>1
  <2>3. Chain(live, Rec, size) /\ at \in live
    BY <1>2, <1>3
  <2> QED BY <2>2, <2>3, OthersKept
<1>8. \A p \in live : Sound(p)' /\ Rec'[p] = Rec[p]
  <2> SUFFICES ASSUME NEW p \in live PROVE Sound(p)' /\ Rec'[p] = Rec[p]
    OBVIOUS
  <2>1. Sound(p) /\ p \in Units
    BY <1>2, <1>3, Offsets DEF Tidy
  <2>2. CASE p = at
    <3>1. Header \in Nat /\ Header <= Header /\ Header <= walk.rec
      BY <1>3, SMT
    <3>2. p > 0 /\ p % BlockLen = 0
      BY <1>1, <2>2 DEF Crossing
    <3> QED BY <1>3, <1>6, <2>1, <2>2, <3>1, <3>2 DEF Sound, NullEntry, Rec
  <2>3. CASE p # at
    BY <1>7, <2>1, <2>3 DEF Sound, NullEntry, Named, Rec
  <2> QED BY <2>2, <2>3
<1>9. Tidy'
  <2>1. Chain(live, Rec', size)
    BY <1>3, <1>8, ChainSame
  <2> QED BY <1>1, <1>4, <1>8, <2>1 DEF Tidy
<1>10. Shape' /\ Contents'
  BY <1>5, <1>9, TidyAfter
<1>11. Nulled'
  <2>1. op'.end \in Nat /\ op'.end <= size
    <3> HIDE DEF at
    <3> QED BY <1>3, <1>5, SMT
  <2> QED BY <1>1, <1>2, <1>4, <1>5, <1>6, <2>1 DEF Nulled, Removing, Written
<1>12. Stages' /\ Requests'
  BY <1>2, <1>4, <1>5, <1>11 DEF Stages, Stage, Intact, Requests
<1>13. Intact'
  BY <1>10, <1>12 DEF Intact
<1>14. \A p \in live : p # at => SameEntry(p)
  BY <1>7 DEF SameEntry
<1>15. op'.ino = op.ino
  <2>1. o2.ino = op.ino
    OBVIOUS
  <2> HIDE DEF o2
  <2> QED BY <1>4, <2>1 DEF OpIs
<1>16. SameRequest
  BY <1>2, <1>4, <1>5, <1>15 DEF SameRequest
<1> HIDE DEF o2
<1> QED BY <1>1, <1>2, <1>5, <1>6, <1>13, <1>14, <1>16

(* What is left of an entry, within the one that spans it, or its name goes.*)
LEMMA ZerosWritten ==
  ASSUME Intact, op.kind = "unlink", op.how = "none", live' = live,
         NEW q \in live, NEW o \in Nat, NEW n \in Nat, NEW o2, Write(o, Zeros(n), "unlinked", o2),
         o2.kind = "unlink", o2.name = op.name, o2.ino = op.ino, o2.how = "none", o2.done,
         mem[q].k = "zero" => q + Header <= o,
         mem[q].k = "ino" => q + Header < o,
         o + n <= q + Rec[q]
  PROVE  /\ Intact' /\ SameRequest /\ op'.how = "none" /\ op'.done
         /\ \A p \in live : SameEntry(p)
         /\ \A u \in Units : mem'[u] = IF o <= u /\ u < o + n THEN Zero ELSE mem[u]
<1>1. Tidy /\ Chain(live, Rec, size)
  BY OutsideWindows DEF InWindow, Tidy
<1>2. /\ q \in Nat /\ q \in Units /\ q + 1 \in Units /\ q + Header \in Units /\ Sound(q)
      /\ Rec[q] \in Nat /\ q + Rec[q] <= size /\ size \in Nat /\ Header = 2
  BY <1>1, Offsets DEF Tidy, Header
<1>3. Len(Zeros(n)) = n /\ \A i \in 1 .. n : Zeros(n)[i] = Zero
  BY ZeroBuffer
<1>4. /\ \A u \in Units : mem'[u] = IF o <= u /\ u < o + n THEN Zeros(n)[u - o + 1] ELSE mem[u]
      /\ OpIs(o2, o + n, "unlinked")
      /\ pc' = "size" /\ size' = size /\ walk' = walk /\ plan' = plan
  BY <1>3, RangeWritten
<1>5. \A u \in Units : u \in Int
  BY DirConstants, SMT DEF Units
<1>6. \A u \in Units : mem'[u] = IF o <= u /\ u < o + n THEN Zero ELSE mem[u]
  <2>1. \A u \in Units : o <= u /\ u < o + n => u - o + 1 \in 1 .. n
    BY <1>5, SMT
  <2> QED BY <1>3, <1>4, <2>1
<1>7. \A p \in live : p # q => mem'[p] = mem[p] /\ mem'[p + 1] = mem[p + 1] /\ mem'[p + Header] = mem[p + Header]
  <2>1. q + Header <= o
    <3>1. mem[q].k \in {"zero", "ino"}
      BY <1>2 DEF Sound, NullEntry
    <3> QED BY <1>2, <3>1, SMT
  <2>2. \A u \in Units : u < q \/ u >= q + Rec[q] => ~(o <= u /\ u < o + n)
    BY <1>2, <1>5, <2>1, SMT
  <2>3. \A u \in Units : u < q \/ u >= q + Rec[q] => mem'[u] = mem[u]
    BY <1>6, <2>2
  <2> QED BY <1>1, <2>3, OthersKept
<1>8. /\ mem'[q] = mem[q] /\ mem'[q + 1] = mem[q + 1]
      /\ mem[q].k = "ino" => mem'[q + Header] = mem[q + Header]
  <2>1. q + Header <= o
    <3>1. mem[q].k \in {"zero", "ino"}
      BY <1>2 DEF Sound, NullEntry
    <3> QED BY <1>2, <3>1, SMT
  <2>2. ~(o <= q) /\ ~(o <= q + 1)
    BY <1>2, <2>1, SMT
  <2>3. mem[q].k = "ino" => ~(o <= q + Header)
    BY <1>2, SMT
  <2> QED BY <1>2, <1>6, <2>2, <2>3
<1>9. \A p \in live : Sound(p)' /\ Rec'[p] = Rec[p]
  <2> SUFFICES ASSUME NEW p \in live PROVE Sound(p)' /\ Rec'[p] = Rec[p]
    OBVIOUS
  <2>1. Sound(p) /\ p \in Units
    BY <1>1, Offsets DEF Tidy
  <2>2. CASE p = q
    BY <1>8, <2>1, <2>2 DEF Sound, NullEntry, Named, Rec
  <2>3. CASE p # q
    BY <1>7, <2>1, <2>3 DEF Sound, NullEntry, Named, Rec
  <2> QED BY <2>2, <2>3
<1>10. Tidy'
  <2>1. Chain(live, Rec', size)
    BY <1>1, <1>9, ChainSame
  <2> QED BY <1>4, <1>9, <2>1 DEF Tidy
<1>11. Shape' /\ Contents'
  BY <1>4, <1>10, TidyAfter DEF OpIs
<1>12. Removed'
  <2>1. o + n \in Nat /\ o + n <= size
    BY <1>2, SMT
  <2> QED BY <1>4, <2>1 DEF OpIs, Removed, Removing, Written
<1>13. Stages'
  BY <1>4, <1>12 DEF Stages, Stage, OpIs
<1>14. Requests'
  BY <1>4 DEF OpIs, Intact, Requests
<1>15. \A p \in live : SameEntry(p)
  BY <1>7, <1>8 DEF SameEntry
<1>16. Intact'
  BY <1>11, <1>13, <1>14 DEF Intact
<1>17. SameRequest /\ op'.how = "none" /\ op'.done
  BY <1>4 DEF OpIs, SameRequest
<1> QED BY <1>6, <1>15, <1>16, <1>17

LEMMA NullNameStep ==
  ASSUME Intact, NullName
  PROVE  /\ Intact' /\ SameRequest /\ op.kind = "unlink" /\ op.how = "none" /\ op'.how = "none"
         /\ op.done /\ op'.done /\ live' = live
         /\ \A p \in live : SameEntry(p)
         /\ \A u \in Units : mem'[u] = IF walk.at + Header <= u /\ u < walk.at + Header + (walk.rec - Header)
                                     THEN Zero ELSE mem[u]
<1> DEFINE at == walk.at
<1>1. /\ Nulled /\ live' = live /\ Write(at + Header, Zeros(walk.rec - Header), "unlinked", op)
  BY DEF NullName, Intact, Stages, Stage
<1>2. /\ op.kind = "unlink" /\ op.how = "none" /\ op.done
      /\ at \in live /\ mem[at].k = "zero" /\ walk.rec = mem[at + 1].a
  BY <1>1 DEF Nulled, Removing
<1>3. Chain(live, Rec, size)
  BY <1>2, OutsideWindows DEF InWindow, Tidy
<1>4. /\ at \in Nat /\ at \in Units /\ Rec[at] \in Nat /\ Header < Rec[at] /\ Header = 2
  BY <1>2, <1>3, Offsets DEF Header
<1>5. walk.rec = Rec[at]
  BY <1>2, <1>4 DEF Rec
<1> HIDE DEF at
<1>6. /\ at + Header \in Nat /\ walk.rec - Header \in Nat
      /\ at + Header <= at + Header /\ at + Header + (walk.rec - Header) <= at + Rec[at]
  BY <1>4, <1>5, SMT
<1>7. mem[at].k # "ino"
  BY <1>2
<1>8. /\ Intact' /\ SameRequest /\ op'.how = "none" /\ op'.done
      /\ \A p \in live : SameEntry(p)
      /\ \A u \in Units : mem'[u] = IF at + Header <= u /\ u < at + Header + (walk.rec - Header) THEN Zero ELSE mem[u]
  BY <1>1, <1>2, <1>6, <1>7, ZerosWritten
<1> QED BY <1>1, <1>2, <1>8 DEF at

LEMMA WipeStage ==
  ASSUME Intact, Wipe, ~torn'
  PROVE  /\ Merged /\ live' = live /\ op.kind = "unlink" /\ op.how = "none" /\ op.done
         /\ Intact' /\ SameRequest /\ op'.how = "none" /\ op'.done
         /\ \A p \in live : SameEntry(p)
         /\ \A u \in Units : mem'[u] = IF walk.at <= u /\ u < walk.at + walk.rec THEN Zero ELSE mem[u]
<1> DEFINE at == walk.at
           bf == walk.before
           o2 == [op EXCEPT !.done = TRUE]
<1>1. Merged /\ Write(at, Zeros(walk.rec), "unlinked", o2) /\ live' = live
  BY DEF Wipe, Wiped, Intact, Stages, Stage, Merged
<1>2. /\ op.kind = "unlink" /\ op.how = "none" /\ op.done
      /\ bf \in live /\ at \in Nat /\ walk.rec \in Nat
      /\ bf + mem[bf + 1].b <= at /\ at + walk.rec <= bf + mem[bf + 1].a
  BY <1>1 DEF Merged, Removing
<1>3. Chain(live, Rec, size) /\ Sound(bf)
  BY <1>2, OutsideWindows DEF InWindow, Tidy
<1>4. /\ bf \in Nat /\ bf \in Units /\ Rec[bf] \in Nat /\ Header = 2
  BY <1>2, <1>3, Offsets DEF Header
<1>5. mem[bf + 1].a = Rec[bf]
  BY <1>4 DEF Rec
<1>6. mem[bf].k = "ino" => mem[bf + 1].b > Header
  BY <1>3, DirConstants DEF Sound, NullEntry, Named
<1>7. mem[bf + 1].b \in Nat /\ mem[bf + 1].b >= Header
  BY <1>3, SMT DEF Sound
<1>8. o2.kind = "unlink" /\ o2.name = op.name /\ o2.ino = op.ino /\ o2.how = "none" /\ o2.done = TRUE
  BY <1>2
<1> HIDE DEF o2
<1>9. /\ Intact' /\ SameRequest /\ op'.how = "none" /\ op'.done
      /\ \A p \in live : SameEntry(p)
      /\ \A u \in Units : mem'[u] = IF at <= u /\ u < at + walk.rec THEN Zero ELSE mem[u]
  <2> HIDE DEF bf, at
  <2>1. /\ mem[bf].k = "zero" => bf + Header <= at
        /\ mem[bf].k = "ino" => bf + Header < at
        /\ at + walk.rec <= bf + Rec[bf]
    BY <1>2, <1>4, <1>5, <1>6, <1>7, SMT
  <2> QED BY <1>1, <1>2, <1>8, <2>1, ZerosWritten
<1> QED BY <1>1, <1>2, <1>9

-----------------------------------------------------------------------------
LEMMA IntactInit ==
  ASSUME Init
  PROVE  Intact
<1>1. /\ pc = "rest" /\ op = NoOp /\ walk = NoWalk /\ plan = MakeDots /\ live = {} /\ size = 0
      /\ op.kind = "none" /\ op.how = "none"
  BY DEF Init, MakeDots, NoOp
<1>2. Requests /\ Contents
  BY <1>1 DEF Requests, Contents
<1>3. Stages
  BY <1>1 DEF Stages, Stage, AtRest
<1>4. Shape
  <2>1. Starts = {} /\ End = 0
    BY <1>1 DEF Starts, Hole, End
  <2>2. 0 % BlockLen = 0 /\ 0 <= Limit
    BY DirConstants, SMT
  <2> QED BY <1>1, <2>1, <2>2, SMT DEF Shape, Chain
<1> QED BY <1>2, <1>3, <1>4 DEF Intact

LEMMA TornStays ==
  ASSUME torn \in BOOLEAN, [Next]_vars
  PROVE  torn' \in BOOLEAN /\ (torn => torn')
<1>1. torn' = torn \/ torn' = (torn \/ IsFirst) \/ torn' = (torn \/ InWindow)
  BY DEF Next, Step, Create, Unlink, Rmdir, Continue, Start, Gone, Visit, NotFound, RmdirChecks,
     Return, SetSize, TakeNull, Split, AppendEntry, BeyondBound, Grow, WriteHeader, WriteName,
     Created, Lengthen, NullHeader, NullName, Wipe, Unlinked, Crash, Stopped, vars
<1> QED BY <1>1

LEMMA IntactNext ==
  ASSUME Intact, [Next]_vars, ~torn'
  PROVE  Intact'
<1>1. CASE \E n \in NewNames, i \in Inodes : Create(n, i)
  BY <1>1, CreateStep
<1>2. CASE \E n \in Names : Unlink(n)
  BY <1>2, UnlinkStep
<1>3. CASE Rmdir
  BY <1>3, RmdirStep
<1>4. CASE Step
  BY <1>4, ContinueStep, GoneStep, VisitStep, NotFoundStep, RmdirChecksStep, SetSizeStep,
     TakeNullStep, SplitStep, AppendEntryStep, BeyondBoundStep, GrowStep, WriteHeaderStep,
     WriteNameStep, CreatedStep, LengthenStep, NullHeaderStep, NullNameStep, WipeStage,
     UnlinkedStep DEF Step
<1>5. CASE Crash
  BY <1>5, CrashStep
<1>6. CASE Stopped \/ UNCHANGED vars
  <2>1. UNCHANGED <<mem, size, pc, op, walk, plan, live>>
    BY <1>6 DEF Stopped, vars
  <2>2. Stage' = Stage
    BY <2>1 DEF Stage
  <2>3. Shape'
    BY <2>1, <2>2 DEF Intact, Shape, Starts, Reach, End, Hole
  <2>4. Contents' /\ Requests'
    BY <2>1, <2>2 DEF Intact, Contents, Content, NullEntry, InodeEntry, Named, Nameless, Requests
  <2>5. /\ Walking => Walking'
        /\ Found => Found'
    BY <2>1 DEF Walking, Searching, Seen, Behind, FreeSpace, Found, Stops
  <2>6. /\ Placing => Placing'
        /\ Naming => Naming'
        /\ Finishing => Finishing'
    BY <2>1 DEF Placing, Naming, Finishing, Creating, Placed, Written
  <2>7. /\ AtRest => AtRest'
        /\ Merged => Merged'
        /\ Crossing => Crossing'
        /\ Nulled => Nulled'
        /\ Removed => Removed'
    BY <2>1 DEF AtRest, Merged, Crossing, Nulled, Removed, Removing, Written
  <2>8. Stages'
    BY <2>2, <2>5, <2>6, <2>7 DEF Intact, Stages
  <2> QED BY <2>3, <2>4, <2>8 DEF Intact
<1> QED BY <1>1, <1>2, <1>3, <1>4, <1>5, <1>6 DEF Next

(* Whatever the operations and the crashes, a directory that is not damaged *)
(* is a chain of entries, and the locals of a walk are those of the entries *)
(* it has passed.                                                           *)
THEOREM DirInvariant == Spec => []IInv
<1>1. Init => IInv
  BY IntactInit DEF IInv, Init
<1>2. IInv /\ [Next]_vars => IInv'
  BY IntactNext, TornStays DEF IInv
<1> QED BY <1>1, <1>2, PTL DEF Spec

(* At every moment at which a crash does not damage the directory its       *)
(* entries fill its blocks: however names were added and removed before,    *)
(* and however often the program was killed outside of the windows.         *)
THEOREM DirectoriesTiled == Spec => []Tiling
<1>1. ASSUME Tidy PROVE Tiled
  <2>1. Chain(live, Rec, size)
    BY <1>1 DEF Tidy
  <2>2. size % BlockLen = 0 /\ (size > 0 => 0 \in live)
    BY <2>1 DEF Chain
  <2>3. ASSUME NEW o \in live
        PROVE  /\ mem[o].k \in {"zero", "ino"} /\ mem[o + 1].k = "rec"
               /\ mem[o + 1].b <= mem[o + 1].a
               /\ (o % BlockLen) + mem[o + 1].a <= BlockLen
               /\ o + mem[o + 1].a \in live \cup {size}
               /\ live \cap (o + 1 .. o + mem[o + 1].a - 1) = {}
               /\ mem[o].k = "ino" => /\ mem[o + Header].k = "text"
                                      /\ Need[mem[o + Header].name] = mem[o + 1].b
    <3>1. Link(live, Rec, size, o) /\ Rec[o] = mem[o + 1].a /\ Sound(o)
      BY <1>1, <2>1, Offsets DEF Tidy, Chain, Rec
    <3>2. \A p \in live : p \in Nat
      BY <2>1, Offsets
    <3>3. live \cap (o + 1 .. o + mem[o + 1].a - 1) = {}
      BY <3>1, <3>2, SMT DEF Link
    <3> QED BY <3>1, <3>3 DEF Link, Sound, NullEntry, Named
  <2> QED BY <2>2, <2>3 DEF Tiled
<1>2. IInv => Tiling
  BY <1>1, OutsideWindows DEF IInv, Tiling
<1> QED BY <1>2, DirInvariant, PTL

(* In an intact directory every walk reads headers, and ext2_blocksize      *)
(* divides i_size when create_dir_entry_ext2 says so.                       *)
AssertHolds == ~torn => pc \notin {"halted", "garbled"}

THEOREM SizesAssertHolds == Spec => []AssertHolds
<1>1. IInv => AssertHolds
  BY DEF IInv, Intact, Stages, Stage, AssertHolds
<1> QED BY <1>1, DirInvariant, PTL

-----------------------------------------------------------------------------
(* The names of a directory: what mkdir, cp and rm promise. *)

LEMMA PlansDiffer ==
  /\ MakeDots # MakeDotDot
  /\ \A p \in {<<>>, DropDots, DropDot, DropSelf} : p # MakeDots /\ p # MakeDotDot
<1>1. /\ Head(MakeDots).kind = "create" /\ Head(MakeDotDot).kind = "create"
      /\ Head(MakeDots).name = Dot /\ Head(MakeDotDot).name = DotDot /\ Dot # DotDot
      /\ Head(DropDots).kind = "unlink" /\ Head(DropDot).kind = "unlink" /\ Head(DropSelf).kind = "gone"
      /\ MakeDots # <<>> /\ MakeDotDot # <<>>
  BY Plans, DirConstants
<1> HIDE DEF MakeDots, MakeDotDot, DropDots, DropDot, DropSelf
<1> QED BY <1>1, Zenon

(* What a step does to the entries: nothing, or it completes the one that   *)
(* was asked for, or takes one away that bears the name.                    *)
SameNames(S) ==
  \A o \in S : mem'[o].a = mem[o].a /\ mem'[o + Header].name = mem[o + Header].name

Kept == Complete' = Complete /\ SameNames(Complete)

Added ==
  /\ op.kind = "create" /\ ~op.done /\ op'.done
  /\ Complete' = Complete \cup {op.at} /\ SameNames(Complete)
  /\ mem'[op.at].a = op.ino /\ mem'[op.at + Header].name = op.name
  /\ Stage \in {"name", "assert"}

Dropped ==
  /\ op.kind = "unlink" /\ ~op.done /\ op'.done
  /\ walk.at \in Complete /\ mem[walk.at + Header].name = op.name
  /\ Complete' = Complete \ {walk.at} /\ SameNames(Complete \ {walk.at})

Unseen == Kept /\ (op'.done <=> op.done)

LEMMA KeptEntries ==
  ASSUME Kept
  PROVE  Entries' = Entries
<1>1. Entries = {Entry(mem[o + Header].name, mem[o].a) : o \in Complete}
  BY DEF Entries, Complete
<1>2. Entries' = {Entry(mem'[o + Header].name, mem'[o].a) : o \in Complete'}
  BY DEF Entries, Complete
<1>3. Complete' = Complete /\ \A o \in Complete : mem'[o].a = mem[o].a /\ mem'[o + Header].name = mem[o + Header].name
  BY DEF Kept, SameNames
<1> QED BY <1>1, <1>2, <1>3, Zenon

LEMMA AddedEntries ==
  ASSUME Added
  PROVE  Entries' = Entries \cup {Entry(op.name, op.ino)}
<1>1. Entries = {Entry(mem[o + Header].name, mem[o].a) : o \in Complete}
  BY DEF Entries, Complete
<1>2. Entries' = {Entry(mem'[o + Header].name, mem'[o].a) : o \in Complete'}
  BY DEF Entries, Complete
<1>3. /\ Complete' = Complete \cup {op.at}
      /\ \A o \in Complete : mem'[o].a = mem[o].a /\ mem'[o + Header].name = mem[o + Header].name
      /\ mem'[op.at].a = op.ino /\ mem'[op.at + Header].name = op.name
  BY DEF Added, SameNames
<1> QED BY <1>1, <1>2, <1>3

LEMMA DroppedEntries ==
  ASSUME Dropped, Distinct
  PROVE  \E e \in Entries : e.name = op.name /\ Entries' = Entries \ {e}
<1> DEFINE at == walk.at
           N(o) == mem[o + Header].name
           I(o) == mem[o].a
           e == Entry(N(at), I(at))
<1>1. Entries = {Entry(N(o), I(o)) : o \in Complete}
  BY DEF Entries, Complete
<1>2. Entries' = {Entry(mem'[o + Header].name, mem'[o].a) : o \in Complete'}
  BY DEF Entries, Complete
<1>3. /\ Complete' = Complete \ {at} /\ at \in Complete
      /\ \A o \in Complete \ {at} : mem'[o].a = I(o) /\ mem'[o + Header].name = N(o)
      /\ N(at) = op.name
  BY DEF Dropped, SameNames
<1>4. \A o \in Complete : N(o) = N(at) /\ I(o) = I(at) => o = at
  BY <1>3 DEF Distinct
<1>5. \A x, y, a, b : Entry(x, a) = Entry(y, b) => x = y /\ a = b
  BY DEF Entry
<1>6. e \in Entries /\ e.name = op.name
  BY <1>1, <1>3 DEF Entry
<1>7. Entries' = {Entry(N(o), I(o)) : o \in Complete \ {at}}
  BY <1>2, <1>3
<1> HIDE DEF at, N, I
<1>8. Entries' = Entries \ {e}
  BY <1>1, <1>3, <1>4, <1>5, <1>7
<1> QED BY <1>6, <1>8

-----------------------------------------------------------------------------
(* Steps within an operation. *)
LEMMA VisitNames ==
  ASSUME Intact, Visit
  PROVE  Unseen /\ SameRequest
<1>1. op' = op /\ plan' = plan /\ mem' = mem /\ live' = live
  BY DEF Visit
<1> QED BY <1>1 DEF Unseen, Kept, SameNames, SameRequest, Complete, Pending

LEMMA GrowNames ==
  ASSUME Intact, Grow
  PROVE  Unseen /\ SameRequest
<1>1. op' = op /\ plan' = plan /\ mem' = mem /\ live' = live
  BY DEF Grow
<1> QED BY <1>1 DEF Unseen, Kept, SameNames, SameRequest, Complete, Pending

LEMMA TakeNullNames ==
  ASSUME Intact, TakeNull
  PROVE  Unseen /\ SameRequest
<1>1. /\ mem' = mem /\ live' = live /\ plan' = plan
      /\ op'.kind = op.kind /\ op'.name = op.name /\ op'.ino = op.ino
      /\ op'.at = walk.at /\ op'.how = "null" /\ (op'.done <=> op.done)
  BY DEF TakeNull
<1>2. Searching /\ Sound(walk.at) /\ Seen
  BY FoundStage DEF TakeNull
<1>3. mem[walk.at].k # "ino"
  BY <1>2, DirConstants DEF TakeNull, Seen, Sound, NullEntry
<1>4. Complete' = Complete
  BY <1>1, <1>2, <1>3 DEF Complete, Pending, Searching
<1> QED BY <1>1, <1>4 DEF Unseen, Kept, SameNames, SameRequest

LEMMA SetSizeNames ==
  ASSUME Intact, SetSize
  PROVE  SameRequest /\ (Unseen \/ Added) /\ Stage' = Stage /\ op'.at = op.at
<1>1. /\ mem' = mem /\ live' = live /\ plan' = plan /\ pc = "size" /\ pc' = op.next
      /\ op'.kind = op.kind /\ op'.name = op.name /\ op'.ino = op.ino
      /\ op'.at = op.at /\ op'.how = op.how /\ op'.done = (op.done \/ op.next = "assert")
  BY DEF SetSize
<1>2. Stage = op.next /\ Stage' = Stage
  BY <1>1, SMT DEF Intact, Stages, Stage
<1>3. CASE op.done \/ op.next # "assert"
  BY <1>1, <1>2, <1>3 DEF Unseen, Kept, SameNames, SameRequest, Complete, Pending
<1>4. CASE ~op.done /\ op.next = "assert"
  <2>1. Finishing
    BY <1>2, <1>4 DEF Intact, Stages
  <2>2. /\ op.kind = "create" /\ op.how # "none" /\ op.at \in live /\ mem[op.at].k = "ino"
        /\ mem[op.at].a = op.ino /\ mem[op.at + Header].name = op.name
    BY <2>1 DEF Finishing, Creating, Placed
  <2>3. Complete' = Complete \cup {op.at}
    BY <1>1, <1>4, <2>2 DEF Complete, Pending
  <2> QED BY <1>1, <1>2, <1>4, <2>2, <2>3 DEF Added, SameNames, SameRequest
<1> QED BY <1>3, <1>4

LEMMA FreshNames ==
  ASSUME op'.kind = op.kind, op.how = "none", op'.at \notin live, live' = live,
         \A p \in live : SameEntry(p), (op'.done <=> op.done)
  PROVE  Unseen
<1>1. Complete' = Complete
  BY DEF Complete, Pending, SameEntry
<1> QED BY <1>1 DEF Unseen, Kept, SameNames, SameEntry, Complete

LEMMA PlaceNames ==
  ASSUME Intact, Split \/ AppendEntry
  PROVE  Unseen /\ SameRequest /\ Stage' = "header" /\ live' = live
<1>1. op.how = "none"
  <2>1. CASE Split
    BY <2>1, FoundStage DEF Split, Searching
  <2>2. CASE AppendEntry
    BY <2>2, WalkStage DEF AppendEntry, Ended, Searching
  <2> QED BY <2>1, <2>2
<1>2. /\ SameRequest /\ (op'.done <=> op.done) /\ Stage' = "header" /\ live' = live
      /\ op'.at \notin live /\ \A p \in live : SameEntry(p)
  BY SplitStep, AppendEntryStep
<1> QED BY <1>1, <1>2, FreshNames DEF SameRequest

LEMMA WriteHeaderNames ==
  ASSUME Intact, WriteHeader
  PROVE  Unseen /\ SameRequest
<1>1. /\ SameRequest /\ (op'.done <=> op.done) /\ Placing /\ op'.at = op.at /\ op'.how = op.how
      /\ live' = live \cup {op.at} /\ \A p \in live : p # op.at => SameEntry(p)
  BY WriteHeaderStep
<1>2. Pending(op.at) /\ Pending(op.at)'
  BY <1>1 DEF Placing, Creating, Pending, SameRequest
<1>3. Complete' = Complete /\ \A o \in Complete : o # op.at /\ o \in live
  BY <1>1, <1>2 DEF Complete, Pending, SameEntry, SameRequest
<1>4. SameNames(Complete)
  BY <1>1, <1>3 DEF SameNames, SameEntry, Complete
<1> QED BY <1>1, <1>3, <1>4 DEF Unseen, Kept

LEMMA WriteNameNames ==
  ASSUME Intact, WriteName
  PROVE  SameRequest /\ (Unseen \/ Added)
<1>1. /\ SameRequest /\ (op'.done <=> op.how # "append") /\ Naming /\ Finishing' /\ Stage = "name"
      /\ op'.at = op.at /\ op'.how = op.how
      /\ live' = live /\ \A p \in live : p # op.at => SameEntry(p)
  BY WriteNameStep
<1>2. Pending(op.at) /\ ~op.done /\ op.kind = "create" /\ op.at \in live
  BY <1>1 DEF Naming, Creating, Pending, Placed
<1>3. /\ mem'[op.at].k = "ino" /\ mem'[op.at].a = op.ino /\ mem'[op.at + Header].name = op.name
  BY <1>1 DEF Finishing, Placed, SameRequest
<1>4. SameNames(Complete)
  <2>1. \A o \in Complete : o # op.at /\ o \in live /\ mem[o].k = "ino"
    BY <1>2 DEF Complete
  <2> QED BY <1>1, <2>1 DEF SameNames, SameEntry
<1>5. CASE op'.done
  <2>1. \A o : ~Pending(o)'
    BY <1>5 DEF Pending
  <2>2. \A o \in live : o # op.at => ~Pending(o)
    BY DEF Pending
  <2>3. Complete' = Complete \cup {op.at}
    BY <1>1, <1>2, <1>3, <2>1, <2>2 DEF Complete, SameEntry
  <2> QED BY <1>1, <1>2, <1>3, <1>4, <1>5, <2>3 DEF Added
<1>6. CASE ~op'.done
  <2>1. \A o : Pending(o)' <=> Pending(o)
    BY <1>1, <1>2, <1>6 DEF Pending, SameRequest
  <2>2. Complete' = Complete
    BY <1>1, <1>2, <2>1 DEF Complete, SameEntry
  <2> QED BY <1>1, <1>2, <1>4, <1>6, <2>2 DEF Unseen, Kept
<1> QED BY <1>1, <1>5, <1>6

LEMMA LengthenNames ==
  ASSUME Intact, Lengthen
  PROVE  SameRequest /\ (Unseen \/ Dropped)
<1>1. /\ SameRequest /\ op.kind = "unlink"
      /\ walk.at \in live /\ mem[walk.at].k = "ino" /\ mem[walk.at + Header].name = op.name
      /\ (op'.done <=> ~CrossesBlock) /\ ~op.done
      /\ live' = IF CrossesBlock THEN live ELSE live \ {walk.at}
      /\ \A p \in live : SameEntry(p)
  BY LengthenStep
<1>2. \A o : ~Pending(o) /\ ~Pending(o)'
  BY <1>1 DEF Pending, SameRequest
<1>3. SameNames(Complete)
  BY <1>1 DEF SameNames, SameEntry, Complete
<1>4. CASE CrossesBlock
  <2>1. Complete' = Complete
    BY <1>1, <1>2, <1>4 DEF Complete, SameEntry
  <2> QED BY <1>1, <1>3, <1>4, <2>1 DEF Unseen, Kept
<1>5. CASE ~CrossesBlock
  <2>1. Complete' = Complete \ {walk.at} /\ walk.at \in Complete
    BY <1>1, <1>2, <1>5 DEF Complete, SameEntry
  <2> QED BY <1>1, <1>3, <1>5, <2>1 DEF Dropped, SameNames
<1> QED BY <1>4, <1>5

LEMMA NullHeaderNames ==
  ASSUME Intact, NullHeader
  PROVE  SameRequest /\ Dropped
<1>1. /\ SameRequest /\ op.kind = "unlink" /\ Crossing /\ op'.done /\ live' = live
      /\ mem'[walk.at].k = "zero" /\ \A p \in live : p # walk.at => SameEntry(p)
  BY NullHeaderStep
<1>2. \A o : ~Pending(o) /\ ~Pending(o)'
  BY <1>1 DEF Pending, SameRequest
<1>3. /\ walk.at \in live /\ mem[walk.at].k = "ino" /\ mem[walk.at + Header].name = op.name /\ ~op.done
  BY <1>1 DEF Crossing
<1>4. Complete' = Complete \ {walk.at} /\ walk.at \in Complete
  BY <1>1, <1>2, <1>3 DEF Complete, SameEntry
<1>5. SameNames(Complete \ {walk.at})
  BY <1>1 DEF SameNames, SameEntry, Complete
<1> QED BY <1>1, <1>3, <1>4, <1>5 DEF Dropped

LEMMA ClearNames ==
  ASSUME Intact, NullName \/ Wipe, ~torn'
  PROVE  SameRequest /\ Unseen /\ op.kind = "unlink"
<1>1. /\ SameRequest /\ op.kind = "unlink" /\ live' = live /\ op.done /\ op'.done
      /\ \A p \in live : SameEntry(p)
  BY NullNameStep, WipeStage
<1>2. \A o : ~Pending(o) /\ ~Pending(o)'
  BY <1>1 DEF Pending, SameRequest
<1>3. Complete' = Complete
  BY <1>1, <1>2 DEF Complete, SameEntry
<1> QED BY <1>1, <1>3 DEF Unseen, Kept, SameNames, SameEntry, Complete

(* Steps that begin or end an operation, and crashes outside of the windows.*)
LEMMA NothingPending ==
  ASSUME Intact, ~InWindow
  PROVE  Complete = {o \in live : mem[o].k = "ino"}
<1> SUFFICES ASSUME NEW o \in live, mem[o].k = "ino", Pending(o)
             PROVE  FALSE
  BY DEF Complete
<1>1. op.kind = "create" /\ ~op.done /\ op.how # "none" /\ o = op.at
  BY DEF Pending
<1>2. op.how \notin {"split"} /\ (op.how = "append" => ~(size > op.at)) /\ (op.how = "null" => pc = "header")
  BY <1>1 DEF InWindow
<1>3. Chain(live, Rec, size)
  BY OutsideWindows DEF Tidy
<1>4. o < size /\ o \in Nat /\ size \in Nat
  BY <1>3 DEF Chain, Link
<1>5. op.how \in {"null", "split", "append"}
  BY <1>1, SMT DEF Intact, Stages, AtRest, NoOp, Walking, Found, Searching, Placing, Naming, Finishing,
       Creating, Merged, Crossing, Nulled, Removed, Removing
<1>6. op.how = "null" /\ pc = "header"
  BY <1>1, <1>2, <1>4, <1>5, SMT
<1>7. Placing
  BY <1>6 DEF Intact, Stages, Stage
<1> QED BY <1>1, <1>6, <1>7 DEF Placing

LEMMA PauseNames ==
  ASSUME Intact, ~InWindow, UNCHANGED <<mem, live>>, op'.how = "none"
  PROVE  Kept
<1>1. Complete' = {o \in live : mem[o].k = "ino"}
  BY DEF Complete, Pending
<1>2. Complete' = Complete
  BY <1>1, NothingPending
<1> QED BY <1>2 DEF Kept, SameNames

-----------------------------------------------------------------------------
(* No two entries alike, and the dots in their places. *)
LEMMA DistinctKept ==
  ASSUME Distinct, Kept,
         op'.kind = "create" /\ ~op'.done =>
           op.kind = "create" /\ ~op.done /\ op'.name = op.name /\ op'.ino = op.ino
  PROVE  Distinct'
BY DEF Distinct, Kept, SameNames, Bears

LEMMA DistinctChanged ==
  ASSUME Distinct, SameRequest, Added \/ Dropped
  PROVE  Distinct'
<1>1. CASE Added
  BY <1>1 DEF Distinct, Added, SameNames, Bears
<1>2. CASE Dropped
  BY <1>2 DEF Distinct, Dropped, SameNames, SameRequest
<1> QED BY <1>1, <1>2

LEMMA DotsPlacedKept ==
  ASSUME DotsPlaced, Kept \/ Dropped
  PROVE  DotsPlaced'
BY DEF DotsPlaced, Kept, Dropped, SameNames, Bears, SecondPlace

LEMMA DotsPlacedAdded ==
  ASSUME DotsPlaced, Added, MakingDot, MakingDotDot
  PROVE  DotsPlaced'
<1> SUFFICES ASSUME NEW o \in Complete'
             PROVE  /\ Bears(o, Dot, Self)' => o = 0
                    /\ Bears(o, DotDot, Parent)' => SecondPlace(o)
  BY DEF DotsPlaced, SecondPlace
<1>1. CASE o \in Complete
  BY <1>1 DEF DotsPlaced, Added, SameNames, Bears
<1>2. CASE o = op.at
  BY <1>2 DEF Added, MakingDot, MakingDotDot, Bears
<1> QED BY <1>1, <1>2 DEF Added

LEMMA EntryRecord ==
  /\ \A o \in Complete : Entry(mem[o + Header].name, mem[o].a) \in Entries
  /\ \A n, i : Entry(n, i).name = n /\ Entry(n, i).ino = i
  /\ \A n, i : Entry(n, i) \in Entries => \E o \in Complete : Bears(o, n, i)
<1>1. Entries = {Entry(mem[o + Header].name, mem[o].a) : o \in Complete}
  BY DEF Entries, Complete
<1>2. \A n, i : Entry(n, i).name = n /\ Entry(n, i).ino = i
  BY DEF Entry
<1>3. \A n, i : Entry(n, i) \in Entries => \E o \in Complete : Bears(o, n, i)
  <2> SUFFICES ASSUME NEW n, NEW i, Entry(n, i) \in Entries
               PROVE  \E o \in Complete : Bears(o, n, i)
    OBVIOUS
  <2>1. PICK o \in Complete : Entry(n, i) = Entry(mem[o + Header].name, mem[o].a)
    BY <1>1
  <2>2. Bears(o, n, i)
    BY <1>2, <2>1 DEF Bears
  <2> QED BY <2>2
<1> QED BY <1>1, <1>2, <1>3

(* A new entry in an empty directory comes first, and one behind a single   *)
(* "." second.                                                              *)
LEMMA AloneAhead ==
  ASSUME Intact, OnlyDot, Tidy
  PROVE  /\ mem[0].a # 0 /\ size \in Nat /\ size >= BlockLen
<1>1. Chain(live, Rec, size) /\ 0 \in live /\ mem[0].k = "ino"
  BY DEF Tidy, OnlyDot
<1>2. Sound(0)
  BY <1>1 DEF Tidy
<1>3. mem[0].a # 0
  BY <1>1, <1>2, DirConstants DEF Sound, NullEntry
<1>4. size \in Nat /\ 0 < size /\ size % BlockLen = 0
  BY <1>1 DEF Chain, Link
<1>5. BlockLen \in Nat \ {0} /\ 0 % BlockLen = 0
  BY DirConstants, SMT
<1>6. 0 + BlockLen <= size
  BY <1>4, <1>5, NextBlock
<1> QED BY <1>3, <1>4, <1>5, <1>6, SMT

LEMMA FoundMaking ==
  ASSUME Intact, Making, TakeNull \/ Split
  PROVE  Making'
<1>1. /\ pc = "found" /\ op.kind = "create" /\ Stage = "found" /\ plan' = plan /\ live' = live
      /\ op'.kind = op.kind /\ op'.name = op.name /\ op'.ino = op.ino
      /\ Stage' = "header" /\ pc' # "rest" /\ pc # "rest"
      /\ walk.at \in live /\ Seen /\ Tidy
  <2>1. CASE TakeNull
    BY <2>1, FoundStage DEF TakeNull, Stage
  <2>2. CASE Split
    <3>1. pc' = "size"
      BY <2>2 DEF Split, Write
    <3> QED BY <2>2, <3>1, FoundStage, SplitStep DEF Split, Stage, SameRequest
  <2> QED BY <2>1, <2>2
<1>2. ~(op.name = Dot /\ op.ino = Self)
  BY <1>1 DEF Making, MakingDot
<1>3. op.name = DotDot /\ op.ino = Parent => SecondPlace(op'.at)
  <2> SUFFICES ASSUME op.name = DotDot, op.ino = Parent PROVE SecondPlace(op'.at)
    OBVIOUS
  <2>1. OnlyDot
    BY <1>1 DEF Making, MakingDotDot
  <2>2. walk.at = 0 /\ mem[0].a # 0
    BY <1>1, <2>1, AloneAhead DEF OnlyDot
  <2>3. walk.ino = mem[0].a /\ walk.need = mem[0 + 1].b
    BY <1>1, <2>2 DEF Seen
  <2>4. walk.need = Header + 1
    BY <2>1, <2>3, SMT DEF OnlyDot
  <2>5. op'.at = 0 + walk.need
    BY <2>2, <2>3, SplitStep DEF TakeNull
  <2> QED BY <2>4, <2>5, SMT DEF SecondPlace, Header
<1> QED BY <1>1, <1>2, <1>3 DEF Making, MakingDot, MakingDotDot, SecondPlace

LEMMA AppendMaking ==
  ASSUME Intact, Making, AppendEntry
  PROVE  Making'
<1>1. /\ pc = "walk" /\ op.kind = "create" /\ Stage = "walk" /\ plan' = plan /\ live' = live
      /\ op'.kind = op.kind /\ op'.name = op.name /\ op'.ino = op.ino /\ op'.at = size
      /\ Stage' = "header" /\ pc' # "rest" /\ pc # "rest" /\ Tidy
  <2>1. pc' # "rest"
    BY DEF AppendEntry, Write
  <2> QED BY <2>1, WalkStage, AppendEntryStep DEF AppendEntry, Ended, Stage, SameRequest
<1>2. op.name = Dot /\ op.ino = Self => plan = MakeDotDot /\ live = {} /\ size = 0
  BY <1>1 DEF Making, MakingDot
<1>3. op.name = DotDot /\ op.ino = Parent => SecondPlace(size)
  BY <1>1, AloneAhead DEF Making, MakingDotDot, SecondPlace
<1> QED BY <1>1, <1>2, <1>3 DEF Making, MakingDot, MakingDotDot, SecondPlace

LEMMA VisitMaking ==
  ASSUME Intact, Making, Visit
  PROVE  Making'
<1>1. /\ pc = "walk" /\ Stage = "walk" /\ plan' = plan /\ live' = live /\ mem' = mem /\ size' = size
      /\ op' = op /\ pc' # "rest" /\ walk.next \in live
  BY VisitSees DEF Visit, Stage
<1>2. ~(op.kind = "create" /\ op.name = Dot /\ op.ino = Self)
  BY <1>1 DEF Making, MakingDot
<1>3. op.kind = "create" /\ op.name = DotDot /\ op.ino = Parent => OnlyDot'
  BY <1>1 DEF Making, MakingDotDot, OnlyDot
<1>4. Stage' \in {"walk", "found"}
  BY <1>1, VisitSees DEF Stage
<1> QED BY <1>1, <1>2, <1>3, <1>4 DEF Making, MakingDot, MakingDotDot

LEMMA WriteMaking ==
  ASSUME Intact, Making, Grow \/ WriteHeader \/ WriteName \/ SetSize
  PROVE  Making'
<1>1. /\ plan' = plan /\ op'.kind = op.kind /\ op'.name = op.name /\ op'.ino = op.ino /\ op'.at = op.at
      /\ pc' # "rest" /\ pc # "rest"
      /\ Stage \notin {"walk", "found"} /\ Stage' \notin {"walk", "found"}
      /\ \/ Stage' = "header" /\ Stage = "header" /\ live' = live
         \/ Stage' = "name" /\ Stage = "header" /\ live' = live \cup {op.at}
         \/ Stage' \in {"name", "assert"} /\ Stage \in {"name", "assert"} /\ live' = live
         \/ Stage' \notin {"header", "name", "assert"}
  <2>1. CASE Grow
    <3>1. pc = "header" /\ UNCHANGED <<pc, op, plan, live>>
      BY <2>1 DEF Grow
    <3> QED BY <3>1 DEF Stage
  <2>2. CASE WriteHeader
    <3>1. pc = "header" /\ pc' = "size"
      BY <2>2 DEF WriteHeader, Write
    <3> QED BY <2>2, <3>1, WriteHeaderStep DEF SameRequest
  <2>3. CASE WriteName
    <3>1. pc = "name" /\ pc' = "size"
      BY <2>3 DEF WriteName, Write
    <3> QED BY <2>3, <3>1, WriteNameStep DEF SameRequest
  <2>4. CASE SetSize
    <3>1. Stage' = Stage /\ op'.at = op.at /\ SameRequest
      BY <2>4, SetSizeNames
    <3>2. pc = "size" /\ pc' = op.next /\ live' = live
      BY <2>4 DEF SetSize
    <3>3. Stage = op.next /\ Stage \notin {"walk", "found", "rest"}
      BY <3>2 DEF Stage, Intact, Stages, Walking, Found, AtRest, NoOp
    <3> QED BY <3>1, <3>2, <3>3 DEF SameRequest
  <2> QED BY <2>1, <2>2, <2>3, <2>4
<1>2. MakingDot'
  <2> SUFFICES ASSUME op.kind = "create", op.name = Dot, op.ino = Self
               PROVE  /\ plan' = MakeDotDot
                      /\ Stage' = "header" => live' = {} /\ op'.at = 0
                      /\ Stage' \in {"name", "assert"} => live' = {0} /\ op'.at = 0
    BY <1>1 DEF MakingDot
  <2>1. /\ plan = MakeDotDot
        /\ Stage = "header" => live = {} /\ op.at = 0
        /\ Stage \in {"name", "assert"} => live = {0} /\ op.at = 0
    BY DEF Making, MakingDot
  <2>2. CASE Stage' = "header" /\ Stage = "header" /\ live' = live
    BY <1>1, <2>1, <2>2
  <2>3. CASE Stage' = "name" /\ Stage = "header" /\ live' = live \cup {op.at}
    BY <1>1, <2>1, <2>3
  <2>4. CASE Stage' \in {"name", "assert"} /\ Stage \in {"name", "assert"} /\ live' = live
    BY <1>1, <2>1, <2>4
  <2>5. CASE Stage' \notin {"header", "name", "assert"}
    BY <1>1, <2>1, <2>5
  <2> QED BY <1>1, <2>2, <2>3, <2>4, <2>5
<1>3. MakingDotDot'
  <2> SUFFICES ASSUME op.kind = "create", op.name = DotDot, op.ino = Parent
               PROVE  Stage' \in {"header", "name", "assert"} => SecondPlace(op.at)
    BY <1>1 DEF MakingDotDot, SecondPlace
  <2> QED BY <1>1 DEF Making, MakingDotDot
<1> QED BY <1>1, <1>2, <1>3 DEF Making

LEMMA RemovalMaking ==
  ASSUME Making, op.kind # "create", op'.kind # "create",
         plan' \in {<<>>, DropDots, DropDot, DropSelf} \/ (plan' = plan /\ pc # "rest")
  PROVE  Making'
<1>1. plan' # MakeDots /\ plan' # MakeDotDot
  BY PlansDiffer DEF Making
<1> QED BY <1>1 DEF Making, MakingDot, MakingDotDot

LEMMA CreatedMaking ==
  ASSUME Intact, Making, Created \/ BeyondBound
  PROVE  Making'
<1>1. /\ op.kind = "create" /\ op' = NoOp /\ op'.kind = "none" /\ pc' = "rest" /\ plan' = plan
      /\ live' = live /\ mem' = mem /\ pc # "rest"
  <2>1. Return
    BY AssertStage DEF Created, BeyondBound
  <2> QED BY <2>1 DEF Created, BeyondBound, Ended, Return, NoOp
<1>2. plan # MakeDots
  BY <1>1 DEF Making
<1>3. plan = MakeDotDot => OnlyDot'
  <2> SUFFICES ASSUME plan = MakeDotDot PROVE OnlyDot'
    OBVIOUS
  <2>1. op.name = Dot /\ op.ino = Self
    BY <1>1 DEF Making
  <2>2. CASE Created
    <3>1. Stage = "assert" /\ Finishing
      BY <2>2, AssertStage DEF Created, Stage
    <3>2. live = {0} /\ op.at = 0
      BY <1>1, <2>1, <3>1 DEF Making, MakingDot
    <3>3. mem[0].k = "ino" /\ mem[0 + 1].b = Need[Dot] /\ mem[0 + Header].name = Dot
      BY <2>1, <3>1, <3>2 DEF Finishing, Placed
    <3>4. mem[1].b = Header + 1 /\ mem[2].name = Dot
      BY <3>3, DirConstants, SMT DEF Header
    <3> QED BY <1>1, <3>2, <3>3, <3>4 DEF OnlyDot
  <2>3. CASE BeyondBound
    <3>1. pc = "walk" /\ Stage = "walk" /\ NewStart = size
      BY <2>3, NewStartIs DEF BeyondBound, Ended, Stage
    <3>2. size = 0
      BY <1>1, <2>1, <3>1 DEF Making, MakingDot
    <3>3. 0 + Need[Dot] > Limit
      BY <2>1, <2>3, <3>1, <3>2 DEF BeyondBound
    <3> QED BY <3>3, DirConstants, SMT DEF Header
  <2> QED BY <2>2, <2>3
<1> QED BY <1>1, <1>2, <1>3 DEF Making, MakingDot, MakingDotDot

LEMMA StartNames ==
  ASSUME Intact, NEW t, Start(t)
  PROVE  /\ Kept /\ op.kind = "none" /\ op = NoOp /\ pc' # "rest" /\ Stage' = "walk"
         /\ op'.kind = t.kind /\ op'.name = t.name /\ op'.ino = t.ino /\ ~op'.done /\ op'.done = FALSE
         /\ mem' = mem /\ live' = live /\ size' = size
<1>1. /\ op = NoOp /\ op.kind = "none" /\ ~InWindow
  BY DEF Start, Stage, Intact, Stages, AtRest, NoOp, InWindow
<1>2. /\ op'.kind = t.kind /\ op'.name = t.name /\ op'.ino = t.ino
      /\ op'.how = "none" /\ op'.done = FALSE
      /\ mem' = mem /\ live' = live /\ size' = size /\ pc' = "walk"
  BY DEF Start, NoOp
<1>3. Kept
  BY <1>1, <1>2, PauseNames
<1> QED BY <1>1, <1>2, <1>3 DEF Stage

LEMMA CreateInv ==
  ASSUME Intact, Distinct, DotsPlaced, NEW n \in NewNames, NEW i \in Inodes, Create(n, i)
  PROVE  Distinct' /\ DotsPlaced' /\ Making'
<1> DEFINE t == Task("create", n, i)
<1>1. t.kind = "create" /\ t.name = n /\ t.ino = i /\ Start(t) /\ plan' = <<>> /\ plan = <<>>
  BY Plans DEF Create
<1> HIDE DEF t
<1>2. /\ Kept /\ op'.kind = "create" /\ op'.name = n /\ op'.ino = i /\ ~op'.done
  BY <1>1, StartNames
<1>3. \A o \in Complete : mem[o].a # i
  BY EntryRecord DEF Create
<1>4. Distinct'
  BY <1>2, <1>3 DEF Distinct, Kept, SameNames, Bears
<1>5. DotsPlaced'
  BY <1>2, DotsPlacedKept
<1>6. i # Self /\ i # Parent
  BY DirAssumption
<1>7. Making'
  BY <1>1, <1>2, <1>6, PlansDiffer DEF Making, MakingDot, MakingDotDot
<1> QED BY <1>4, <1>5, <1>7

LEMMA LookInv ==
  ASSUME Intact, Distinct, DotsPlaced, Making, NEW n \in Names, Unlink(n) \/ Rmdir
  PROVE  Distinct' /\ DotsPlaced' /\ Making'
<1>1. PICK t : Start(t) /\ t.kind # "create" /\ plan' = <<>>
  BY Plans, SMTT(60) DEF Unlink, Rmdir
<1>2. Kept /\ op'.kind # "create" /\ op.kind = "none"
  BY <1>1, StartNames
<1>3. Distinct' /\ DotsPlaced'
  BY <1>2, DistinctKept, DotsPlacedKept
<1>4. Making'
  BY <1>1, <1>2, RemovalMaking
<1> QED BY <1>3, <1>4

LEMMA ContinueInv ==
  ASSUME Intact, Distinct, DotsPlaced, Making, Continue
  PROVE  Distinct' /\ DotsPlaced' /\ Making'
<1>1. Start(Head(plan)) /\ plan' = Tail(plan) /\ plan \in {MakeDots, MakeDotDot, DropDots, DropDot}
  BY Plans DEF Continue, Intact, Requests
<1> DEFINE t == Head(plan)
<1>2. /\ Kept /\ op.kind = "none" /\ pc' # "rest" /\ Stage' = "walk"
      /\ op'.kind = t.kind /\ op'.name = t.name /\ op'.ino = t.ino /\ ~op'.done
      /\ mem' = mem /\ live' = live /\ size' = size
  <2> HIDE DEF t
  <2>1. Start(t)
    BY <1>1 DEF t
  <2> QED BY <2>1, StartNames
<1>3. DotsPlaced' /\ pc = "rest"
  BY <1>1, <1>2, DotsPlacedKept DEF Start
<1>4. CASE plan = MakeDots
  <2>1. t = Task("create", Dot, Self) /\ plan' = MakeDotDot /\ live = {} /\ size = 0
    BY <1>1, <1>4, Plans DEF Making
  <2>2. t.kind = "create" /\ t.name = Dot /\ t.ino = Self /\ Dot # DotDot
    BY <2>1, Plans, DirConstants
  <2>3. Complete = {}
    BY <2>1 DEF Complete
  <2> HIDE DEF t
  <2>4. Distinct'
    BY <1>2, <2>3 DEF Distinct, Kept
  <2>5. Making'
    BY <1>2, <2>1, <2>2, PlansDiffer DEF Making, MakingDot, MakingDotDot
  <2> QED BY <1>3, <2>4, <2>5
<1>5. CASE plan = MakeDotDot
  <2>1. t = Task("create", DotDot, Parent) /\ plan' = <<>> /\ OnlyDot
    BY <1>1, <1>3, <1>5, Plans DEF Making
  <2>2. t.kind = "create" /\ t.name = DotDot /\ t.ino = Parent /\ Dot # DotDot
    BY <2>1, Plans, DirConstants
  <2>3. \A o \in Complete : mem[o + Header].name = Dot
    <3>1. 0 + Header = 2
      BY SMT DEF Header
    <3>2. \A o \in Complete : o = 0
      BY <2>1 DEF Complete, OnlyDot
    <3> QED BY <2>1, <3>1, <3>2 DEF OnlyDot
  <2> HIDE DEF t
  <2>4. Distinct'
    BY <1>2, <2>2, <2>3 DEF Distinct, Kept, SameNames, Bears
  <2>5. OnlyDot'
    BY <1>2, <2>1 DEF OnlyDot
  <2>6. Making'
    BY <1>2, <2>1, <2>2, <2>5, PlansDiffer DEF Making, MakingDot, MakingDotDot
  <2> QED BY <1>3, <2>4, <2>6
<1>6. CASE plan \in {DropDots, DropDot}
  <2>1. t.kind = "unlink" /\ plan' \in {DropDot, DropSelf}
    BY <1>1, <1>6, Plans, SMTT(60)
  <2> HIDE DEF t
  <2>2. op'.kind # "create" /\ op.kind # "create"
    BY <1>2, <2>1
  <2> QED BY <1>2, <1>3, <2>1, <2>2, DistinctKept, RemovalMaking
<1> QED BY <1>1, <1>4, <1>5, <1>6

LEMMA PauseInv ==
  ASSUME Intact, Distinct, DotsPlaced, ~InWindow, op' = NoOp, UNCHANGED <<mem, live>>
  PROVE  Kept /\ Distinct' /\ DotsPlaced'
<1>1. op'.kind = "none" /\ op'.how = "none"
  BY DEF NoOp
<1>2. Kept
  BY <1>1, PauseNames
<1> QED BY <1>1, <1>2, DistinctKept, DotsPlacedKept

LEMMA EndInv ==
  ASSUME Intact, Distinct, DotsPlaced, Making,
         Gone \/ NotFound \/ RmdirChecks \/ Created \/ BeyondBound \/ Unlinked \/ Crash, ~torn'
  PROVE  Kept /\ Distinct' /\ DotsPlaced' /\ Making' /\ op' = NoOp
<1>1. ~InWindow /\ op' = NoOp /\ mem' = mem /\ live' = live
  <2>1. CASE Gone
    <3>1. op = NoOp
      BY <2>1 DEF Gone, Intact, Stages, Stage, AtRest
    <3> QED BY <2>1, <3>1 DEF Gone, InWindow, NoOp
  <2>2. CASE NotFound \/ RmdirChecks \/ BeyondBound
    BY <2>2, WalkStage DEF NotFound, RmdirChecks, BeyondBound, Ended, Return
  <2>3. CASE Created
    BY <2>3, AssertStage DEF Created, Return
  <2>4. CASE Unlinked
    <3>1. Removed
      BY <2>4 DEF Unlinked, Intact, Stages, Stage
    <3> QED BY <2>4, <3>1 DEF Removed, InWindow, Unlinked, Return
  <2>5. CASE Crash
    BY <2>5 DEF Crash
  <2> QED BY <2>1, <2>2, <2>3, <2>4, <2>5
<1>2. Kept /\ Distinct' /\ DotsPlaced'
  BY <1>1, PauseInv
<1>3. op'.kind = "none"
  BY <1>1 DEF NoOp
<1>4. Making'
  <2>1. CASE Created \/ BeyondBound
    BY <2>1, CreatedMaking
  <2>2. CASE Gone \/ Crash
    <3>1. plan' = <<>>
      BY <2>2 DEF Gone, Crash
    <3> QED BY <1>3, <3>1, PlansDiffer DEF Making, MakingDot, MakingDotDot
  <2>3. CASE NotFound \/ RmdirChecks \/ Unlinked
    <3>1. op.kind # "create"
      BY <2>3 DEF NotFound, RmdirChecks, Unlinked, Intact, Stages, Stage, Removed, Removing
    <3>2. plan' \in {<<>>, DropDots} \/ (plan' = plan /\ pc # "rest")
      BY <2>3 DEF NotFound, RmdirChecks, Unlinked, Ended, DropDots
    <3> QED BY <1>3, <3>1, <3>2, RemovalMaking
  <2> QED BY <2>1, <2>2, <2>3
<1> QED BY <1>1, <1>2, <1>4

(* The steps within an operation. *)
WithinOperation ==
  \/ Visit \/ SetSize \/ TakeNull \/ Split \/ AppendEntry \/ Grow \/ WriteHeader \/ WriteName
  \/ Lengthen \/ NullHeader \/ NullName \/ Wipe

LEMMA WithinNames ==
  ASSUME Intact, WithinOperation, ~torn'
  PROVE  SameRequest /\ (Unseen \/ Added \/ Dropped)
BY VisitNames, SetSizeNames, TakeNullNames, PlaceNames, GrowNames, WriteHeaderNames, WriteNameNames,
   LengthenNames, NullHeaderNames, ClearNames DEF WithinOperation

LEMMA WithinInv ==
  ASSUME Intact, Distinct, DotsPlaced, Making, WithinOperation, ~torn'
  PROVE  Distinct' /\ DotsPlaced' /\ Making'
<1>1. SameRequest /\ (Unseen \/ Added \/ Dropped)
  BY WithinNames
<1>2. Distinct'
  BY <1>1, DistinctKept, DistinctChanged DEF Unseen, SameRequest
<1>3. DotsPlaced'
  BY <1>1, DotsPlacedKept, DotsPlacedAdded DEF Unseen, Making
<1>4. Making'
  <2>1. CASE TakeNull \/ Split
    BY <2>1, FoundMaking
  <2>2. CASE AppendEntry
    BY <2>2, AppendMaking
  <2>3. CASE Visit
    BY <2>3, VisitMaking
  <2>4. CASE Grow \/ WriteHeader \/ WriteName \/ SetSize
    BY <2>4, WriteMaking
  <2>5. CASE Lengthen \/ NullHeader \/ NullName \/ Wipe
    <3>1. op.kind = "unlink" /\ op'.kind = "unlink" /\ plan' = plan
      BY <1>1, <2>5, LengthenStep, NullHeaderStep, NullNameStep, WipeStage DEF SameRequest
    <3>2. pc # "rest"
      BY <2>5 DEF Lengthen, NullHeader, NullName, Wipe
    <3> QED BY <3>1, <3>2, RemovalMaking
  <2> QED BY <2>1, <2>2, <2>3, <2>4, <2>5 DEF WithinOperation
<1> QED BY <1>2, <1>3, <1>4

LEMMA NextIs ==
  ASSUME Next
  PROVE  \/ \E n \in NewNames, i \in Inodes : Create(n, i)
         \/ \E n \in Names : Unlink(n)
         \/ Rmdir \/ Continue
         \/ Gone \/ NotFound \/ RmdirChecks \/ Created \/ BeyondBound \/ Unlinked \/ Crash
         \/ WithinOperation
         \/ Stopped
BY DEF Next, Step, WithinOperation

LEMMA NamesNext ==
  ASSUME Intact, Distinct, DotsPlaced, Making, [Next]_vars, ~torn'
  PROVE  Distinct' /\ DotsPlaced' /\ Making'
<1>1. CASE \E n \in NewNames, i \in Inodes : Create(n, i)
  BY <1>1, CreateInv
<1>2. CASE (\E n \in Names : Unlink(n)) \/ Rmdir
  BY <1>2, LookInv, DirConstants
<1>3. CASE Continue
  BY <1>3, ContinueInv
<1>4. CASE Gone \/ NotFound \/ RmdirChecks \/ Created \/ BeyondBound \/ Unlinked \/ Crash
  BY <1>4, EndInv
<1>5. CASE WithinOperation
  BY <1>5, WithinInv
<1>6. CASE Stopped \/ UNCHANGED vars
  <2>1. UNCHANGED <<mem, size, pc, op, plan, live>>
    BY <1>6 DEF Stopped, vars
  <2>2. Stage' = Stage /\ Complete' = Complete
    BY <2>1 DEF Stage, Complete, Pending
  <2>3. Distinct' /\ DotsPlaced'
    BY <2>1, <2>2 DEF Distinct, DotsPlaced, Bears, SecondPlace
  <2>4. OnlyDot' <=> OnlyDot
    BY <2>1 DEF OnlyDot
  <2>5. Making'
    BY <2>1, <2>2, <2>4 DEF Making, MakingDot, MakingDotDot, SecondPlace
  <2> QED BY <2>3, <2>5
<1> QED BY <1>1, <1>2, <1>3, <1>4, <1>5, <1>6, NextIs

LEMMA NamesInit ==
  ASSUME Init
  PROVE  Distinct /\ DotsPlaced /\ Making
<1>1. plan = MakeDots /\ pc = "rest" /\ live = {} /\ size = 0 /\ op.kind = "none"
  BY DEF Init, MakeDots, NoOp
<1>2. Complete = {}
  BY <1>1 DEF Complete
<1> QED BY <1>1, <1>2, PlansDiffer DEF Distinct, DotsPlaced, Making, MakingDot, MakingDotDot

(* The number of crashes, and whether the request is done. *)
Plain == crashes \in Nat /\ op.done \in BOOLEAN

LEMMA WriteDone ==
  ASSUME NEW o, NEW us, NEW next, NEW o2, Write(o, us, next, o2)
  PROVE  op'.done = o2.done
BY DEF Write

LEMMA PlainNext ==
  ASSUME Plain, [Next]_vars
  PROVE  Plain'
<1>1. CASE \/ \E n \in NewNames, i \in Inodes : Create(n, i)
           \/ \E n \in Names : Unlink(n)
           \/ Rmdir \/ Continue
  <2>1. op'.done = FALSE /\ crashes' = crashes
    BY <1>1 DEF Create, Unlink, Rmdir, Continue, Start, NoOp
  <2> QED BY <2>1 DEF Plain
<1>2. CASE Gone \/ NotFound \/ RmdirChecks \/ Created \/ BeyondBound \/ Unlinked
  <2>1. (op' = op \/ op'.done = FALSE) /\ crashes' = crashes
    BY <1>2 DEF Gone, NotFound, RmdirChecks, Created, BeyondBound, Unlinked, Return, NoOp, Ended
  <2> QED BY <2>1 DEF Plain
<1>3. CASE Crash
  <2>1. op'.done = FALSE /\ crashes' = crashes + 1
    BY <1>3 DEF Crash, NoOp
  <2>2. crashes' \in Nat
    BY <2>1, SMT DEF Plain
  <2> QED BY <2>1, <2>2 DEF Plain
<1>4. CASE WithinOperation
  <2>1. crashes' = crashes
    BY <1>4 DEF WithinOperation, Visit, SetSize, TakeNull, Split, AppendEntry, Grow, WriteHeader, WriteName,
       Lengthen, NullHeader, NullName, Wipe, Write
  <2>2. CASE Visit \/ Grow
    BY <2>1, <2>2 DEF Visit, Grow, Plain
  <2>3. CASE TakeNull \/ Split \/ WriteHeader \/ NullName
    <3>1. op'.done = op.done
      <4>1. CASE TakeNull
        BY <4>1 DEF TakeNull
      <4>2. CASE Split
        <5> DEFINE o2 == [op EXCEPT !.at = walk.at + walk.need, !.rec = SplitRec, !.how = "split"]
        <5>1. o2.done = op.done
          OBVIOUS
        <5>2. Write(walk.at, HeaderOf(walk.ino, walk.need, walk.need), "header", o2)
          BY <4>2 DEF Split
        <5> HIDE DEF o2
        <5> QED BY <5>1, <5>2, WriteDone
      <4>3. CASE WriteHeader \/ NullName
        <5>1. \E o, us, next : Write(o, us, next, op)
          BY <4>3 DEF WriteHeader, NullName
        <5> QED BY <5>1, WriteDone
      <4> QED BY <2>3, <4>1, <4>2, <4>3
    <3> QED BY <2>1, <3>1 DEF Plain
  <2>4. CASE AppendEntry
    <3> DEFINE o2 == [op EXCEPT !.at = NewStart, !.how = "append",
                                !.rec = Align(Larger(NewStart + Need[op.name], size)) - NewStart]
    <3>1. o2.done = op.done
      OBVIOUS
    <3>2. op' = o2 \/ Write(walk.at, HeaderOf(walk.ino, NewStart - walk.at, walk.need), "header", o2)
      BY <2>4 DEF AppendEntry
    <3> HIDE DEF o2
    <3>3. op'.done = o2.done
      BY <3>2, WriteDone
    <3> QED BY <2>1, <3>1, <3>3 DEF Plain
  <2>5. CASE Lengthen
    <3> DEFINE o2 == [op EXCEPT !.done = ~CrossesBlock]
    <3>1. o2.done = (~CrossesBlock)
      OBVIOUS
    <3>2. \E o, us, next : Write(o, us, next, o2)
      BY <2>5 DEF Lengthen
    <3> HIDE DEF o2
    <3>3. op'.done = (~CrossesBlock)
      BY <3>1, <3>2, WriteDone
    <3>4. (~CrossesBlock) \in BOOLEAN
      OBVIOUS
    <3> QED BY <2>1, <3>3, <3>4, Zenon DEF Plain
  <2>6. CASE NullHeader \/ Wipe
    <3> DEFINE o2 == [op EXCEPT !.done = TRUE]
    <3>1. o2.done = TRUE
      OBVIOUS
    <3>2. \E o, us, next : Write(o, us, next, o2)
      BY <2>6 DEF NullHeader, Wipe
    <3> HIDE DEF o2
    <3>3. op'.done = TRUE
      BY <3>1, <3>2, WriteDone
    <3> QED BY <2>1, <3>3 DEF Plain
  <2>7. CASE SetSize
    <3>1. op'.done = (op.done \/ op.next = "assert")
      BY <2>7 DEF SetSize
    <3> QED BY <2>1, <3>1, Zenon DEF Plain
  <2>8. CASE WriteName
    <3> DEFINE o2 == [op EXCEPT !.done = op.at + Header < size]
    <3>1. o2.done = (op.at + Header < size)
      OBVIOUS
    <3>2. \E o, us, next : Write(o, us, next, o2)
      BY <2>8 DEF WriteName
    <3>3. o2.done \in BOOLEAN
      BY <3>1
    <3> HIDE DEF o2
    <3>4. op'.done = o2.done
      BY <3>2, WriteDone
    <3> QED BY <2>1, <3>3, <3>4 DEF Plain
  <2> QED BY <1>4, <2>2, <2>3, <2>4, <2>5, <2>6, <2>7, <2>8 DEF WithinOperation
<1>5. CASE Stopped \/ UNCHANGED vars
  BY <1>5 DEF Stopped, vars, Plain
<1> QED BY <1>1, <1>2, <1>3, <1>4, <1>5, NextIs

(* In an intact directory no name stands for one inode twice, and "." and   *)
(* ".." keep the places in which mkdir made them.                           *)
THEOREM NamesInvariant == Spec => [](IInv /\ NInv /\ Plain)
<1>1. Init => IInv /\ NInv /\ Plain
  <2> SUFFICES ASSUME Init PROVE IInv /\ NInv /\ Plain
    OBVIOUS
  <2>1. torn = FALSE /\ op.done = FALSE /\ crashes = 0
    BY DEF Init, NoOp
  <2> QED BY <2>1, IntactInit, NamesInit DEF IInv, NInv, Plain
<1>2. IInv /\ NInv /\ Plain /\ [Next]_vars => (IInv /\ NInv /\ Plain)'
  BY IntactNext, TornStays, NamesNext, PlainNext DEF IInv, NInv
<1> QED BY <1>1, <1>2, PTL DEF Spec

-----------------------------------------------------------------------------
(* delete_directory_ext2 has come to the last entry. *)
LEMMA LastSeen ==
  ASSUME Intact, NInv, ~torn, Ended, op.kind = "last", Dots \subseteq Entries
  PROVE  /\ Chain(live, Rec, size) /\ size > 0 /\ size \in Nat /\ Tidy
         /\ Complete = {o \in live : mem[o].k = "ino"}
         /\ walk.at \in live /\ walk.at + Rec[walk.at] = size
         /\ 0 \in Complete /\ Bears(0, Dot, Self)
         /\ \E o \in Complete : Bears(o, DotDot, Parent) /\ SecondPlace(o) /\ o # 0
<1>1. Walking /\ Tidy /\ Chain(live, Rec, size) /\ size \in Nat /\ ~InWindow
  BY WalkStage DEF Ended, Tidy, Chain
<1>2. Complete = {o \in live : mem[o].k = "ino"}
  BY <1>1, NothingPending
<1>3. PICK o1 \in Complete : Bears(o1, Dot, Self)
  BY EntryRecord DEF Dots
<1>4. PICK o2 \in Complete : Bears(o2, DotDot, Parent)
  BY EntryRecord DEF Dots
<1>5. o1 = 0 /\ SecondPlace(o2)
  BY <1>3, <1>4 DEF NInv, DotsPlaced
<1>6. o2 # 0
  BY <1>3, <1>4, <1>5, DirConstants DEF Bears
<1>7. \A o \in live : o < size /\ o \in Nat
  BY <1>1 DEF Chain, Link
<1>8. size > 0 /\ 0 \in live
  BY <1>1, <1>2, <1>3, <1>5, <1>7
<1>9. walk.next = size
  <2>1. walk.next \in live \cup {size} /\ walk.next >= size
    BY <1>1 DEF Walking, Ended
  <2> QED BY <1>1, <1>7, <2>1, SMT
<1>10. Seen
  BY <1>1, <1>8, <1>9, SMT DEF Walking
<1>11. walk.at \in live /\ walk.at + walk.rec = size /\ walk.rec = mem[walk.at + 1].a
  BY <1>9, <1>10 DEF Seen
<1>12. walk.rec = Rec[walk.at]
  BY <1>1, <1>11, Offsets DEF Rec
<1> QED BY <1>1, <1>2, <1>3, <1>4, <1>5, <1>6, <1>8, <1>11, <1>12

LEMMA LastExact ==
  ASSUME Intact, NInv, ~torn, Ended, op.kind = "last", Dots \subseteq Entries
  PROVE  Removable <=> Entries = Dots /\ size = BlockLen
<1>1. /\ Chain(live, Rec, size) /\ size > 0 /\ size \in Nat /\ Tidy
      /\ Complete = {o \in live : mem[o].k = "ino"}
      /\ walk.at \in live /\ walk.at + Rec[walk.at] = size
      /\ 0 \in Complete /\ Bears(0, Dot, Self) /\ 0 \in live
  BY LastSeen
<1>2. PICK o2 \in Complete : Bears(o2, DotDot, Parent) /\ SecondPlace(o2) /\ o2 # 0
  BY LastSeen
<1>3. o2 \in live /\ o2 \in Nat /\ o2 < size /\ walk.at \in Nat /\ Rec[walk.at] \in Nat
  BY <1>1, <1>2 DEF Chain, Link
<1>4. BlockLen \in Nat \ {0} /\ Header = 2 /\ BlockLen >= 6 /\ size % BlockLen = 0
  BY <1>1, DirConstants, SMT DEF Header, Chain
<1>5. ASSUME walk.at = 3 PROVE Entries = Dots /\ size = BlockLen
  <2>1. \A o \in live : o > 3 => o >= size
    BY <1>1, <1>5 DEF Chain, Link
  <2>2. \A o \in live : o \in Nat /\ o < size /\ (o > 0 => o >= 3)
    <3>1. Link(live, Rec, size, 0)
      BY <1>1 DEF Chain
    <3>2. \A o \in live : o > 0 => o >= 0 + Rec[0]
      BY <3>1 DEF Link
    <3>3. Rec[0] \in Nat /\ Rec[0] > 2
      BY <1>4, <3>1 DEF Link
    <3>4. \A o \in live : o \in Nat /\ o < size
      BY <1>1 DEF Chain, Link
    <3> QED BY <3>2, <3>3, <3>4, SMT
  <2>3. live \subseteq {0, 3}
    BY <1>1, <2>1, <2>2, SMT
  <2>4. o2 = 3 /\ Complete = {0, 3}
    BY <1>1, <1>2, <2>3
  <2>5. Entries = {Entry(mem[o + Header].name, mem[o].a) : o \in Complete}
    BY DEF Entries, Complete
  <2>6. Entry(mem[0 + Header].name, mem[0].a) = Entry(Dot, Self)
    BY <1>1 DEF Bears
  <2>7. Entry(mem[3 + Header].name, mem[3].a) = Entry(DotDot, Parent)
    BY <1>2, <2>4 DEF Bears
  <2>8. Entries = Dots
    BY <2>4, <2>5, <2>6, <2>7 DEF Dots
  <2>9. size = BlockLen
    <3>1. (3 % BlockLen) + Rec[3] <= BlockLen /\ 3 + Rec[3] = size /\ Rec[3] \in Nat
      BY <1>1, <1>3, <1>5 DEF Chain, Link
    <3>2. 3 % BlockLen = 3
      <4>1. (0 * BlockLen + 3) % BlockLen = 3
        BY <1>4, Quotient, SMT
      <4>2. 0 * BlockLen + 3 = 3
        BY <1>4, SMT
      <4> QED BY <4>1, <4>2
    <3>3. size <= BlockLen
      BY <1>4, <3>1, <3>2, SMT
    <3>4. 0 % BlockLen = 0 /\ 0 < size
      BY <1>1, <1>4, SMT
    <3>5. 0 + BlockLen <= size
      BY <1>1, <1>4, <3>4, NextBlock
    <3> QED BY <1>1, <1>4, <3>3, <3>5, SMT
  <2> QED BY <2>8, <2>9
<1>6. ASSUME Entries = Dots, size = BlockLen PROVE walk.at = 3
  <2>1. o2 = 3
    BY <1>2, <1>3, <1>4, <1>6, SMT DEF SecondPlace
  <2>2. walk.at < BlockLen
    BY <1>1, <1>6 DEF Chain, Link
  <2>3. ~NullEntry(walk.at)
    <3> SUFFICES ASSUME walk.at > 0, walk.at % BlockLen = 0 PROVE FALSE
      BY DEF NullEntry
    <3>1. 0 % BlockLen = 0
      BY <1>4, SMT
    <3>2. 0 + BlockLen <= walk.at
      BY <1>3, <1>4, <3>1, NextBlock
    <3> QED BY <1>3, <1>4, <2>2, <3>2, SMT
  <2>4. walk.at \in Complete
    BY <1>1, <2>3 DEF Tidy, Sound
  <2>5. Entry(mem[walk.at + Header].name, mem[walk.at].a) \in Dots
    BY <1>6, <2>4, EntryRecord
  <2>6. Bears(walk.at, Dot, Self) \/ Bears(walk.at, DotDot, Parent)
    <3>1. \A x, y, a, b : Entry(x, a) = Entry(y, b) => x = y /\ a = b
      BY DEF Entry
    <3> QED BY <2>5, <3>1 DEF Dots, Bears
  <2>7. walk.at = 0 \/ walk.at = 3
    <3>1. \A o, p \in Complete :
            mem[o + Header].name = mem[p + Header].name /\ mem[o].a = mem[p].a => o = p
      BY DEF NInv, Distinct
    <3> QED BY <1>1, <1>2, <2>1, <2>4, <2>6, <3>1 DEF Bears
  <2>8. walk.at # 0
    <3> SUFFICES ASSUME walk.at = 0 PROVE FALSE
      OBVIOUS
    <3>1. 3 \in live /\ 3 > 0
      BY <1>3, <2>1
    <3>2. 3 >= 0 + Rec[0]
      BY <1>1, <3>1 DEF Chain, Link
    <3>3. 0 + Rec[0] = BlockLen
      BY <1>1, <1>6
    <3> QED BY <1>4, <3>2, <3>3, SMT
  <2> QED BY <2>7, <2>8
<1>7. Removable <=> walk.at = 3
  BY <1>3, SMT DEF Removable, Header
<1> QED BY <1>5, <1>6, <1>7

(* The last entry of an intact directory that still has "." and ".." is     *)
(* found behind "." if and only if rmdir may go on: no name is lost with a  *)
(* directory that delete_directory_ext2 removes, and only one that has had  *)
(* a second block is kept although it is empty.                             *)
THEOREM RmdirIsExact == Spec => RmdirExact
<1> DEFINE A == Ended /\ op.kind = "last" /\ crashes' = crashes /\ ~torn /\ Dots \subseteq Entries =>
                  (plan' # <<>>) = (Entries = Dots /\ size = BlockLen)
<1>1. IInv /\ NInv /\ Plain /\ [Next]_vars => [A]_vars
  <2> SUFFICES ASSUME IInv, NInv, Plain, Next, ~UNCHANGED vars,
                      Ended, op.kind = "last", crashes' = crashes, ~torn, Dots \subseteq Entries
               PROVE  (plan' # <<>>) = (Entries = Dots /\ size = BlockLen)
    OBVIOUS
  <2>1. Intact
    BY DEF IInv
  <2>2. pc = "walk" /\ ~(walk.next < size)
    <3>1. Walking /\ size \in Nat /\ Chain(live, Rec, size)
      BY <2>1, WalkStage DEF Ended, Tidy, Chain
    <3>2. walk.next \in Nat
      BY <3>1, Offsets DEF Walking
    <3> QED BY <3>1, <3>2, SMT DEF Ended
  <2>3. RmdirChecks
    <3>1. crashes' # crashes + 1
      BY DEF Plain
    <3>2. ~Crash
      BY <3>1 DEF Crash
    <3> QED BY <2>2, <3>2, NextIs DEF Create, Unlink, Rmdir, Continue, Start, Gone, NotFound, Created,
       BeyondBound, Unlinked, WithinOperation, Visit, SetSize, TakeNull, Split, AppendEntry, Grow,
       WriteHeader, WriteName, Lengthen, NullHeader, NullName, Wipe, Stopped
  <2>4. (plan' # <<>>) <=> Removable
    BY <2>3, Plans DEF RmdirChecks, DropDots
  <2>5. Removable <=> (Entries = Dots /\ size = BlockLen)
    BY <2>1, LastExact
  <2> QED BY <2>4, <2>5
<1>2. Spec => [][A]_vars
  BY <1>1, NamesInvariant, PTL DEF Spec
<1> QED BY <1>2 DEF RmdirExact

-----------------------------------------------------------------------------
(* What the users of the directory see of a step. *)
LEMMA SameDone ==
  ASSUME Plain, Plain', op'.done <=> op.done
  PROVE  op'.done = op.done
<1>1. CASE op.done
  <2>1. op.done = TRUE /\ op'.done = TRUE
    BY <1>1 DEF Plain
  <2> QED BY <2>1
<1>2. CASE ~op.done
  <2>1. op.done = FALSE /\ op'.done = FALSE
    BY <1>2 DEF Plain
  <2> QED BY <2>1
<1> QED BY <1>1, <1>2

LEMMA RequestFields ==
  /\ Request.kind = IF op.kind \in {"create", "unlink"} THEN op.kind ELSE "none"
  /\ Request.name = IF op.kind \in {"create", "unlink"} THEN op.name ELSE NoName
  /\ Request.done = IF op.kind \in {"create", "unlink"} THEN op.done ELSE FALSE
  /\ op.kind \in {"create", "unlink"} =>
       Request.ino = op.ino /\ Request # Abstract!Quiet
  /\ op.kind \notin {"create", "unlink"} => Request = Abstract!Quiet
<1>1. CASE op.kind \in {"create", "unlink"}
  <2>1. Request = [kind |-> op.kind, name |-> op.name, ino |-> op.ino, done |-> op.done]
    BY <1>1 DEF Request
  <2>2. Request.kind # "none" /\ Abstract!Quiet.kind = "none"
    BY <1>1, <2>1 DEF Abstract!Quiet, Abstract!Asked
  <2> QED BY <1>1, <2>1, <2>2
<1>2. CASE op.kind \notin {"create", "unlink"}
  BY <1>2 DEF Request, Abstract!Quiet, Abstract!Asked
<1> QED BY <1>1, <1>2

LEMMA RequestSame ==
  ASSUME SameRequest, op'.done = op.done
  PROVE  Request' = Request
BY DEF SameRequest, Request

LEMMA BeginMaps ==
  ASSUME Intact, NEW t, Start(t), Kept, t.kind \in {"create", "unlink"},
         t.name \in Names, t.ino \in Inos \cup {0}
  PROVE  Abstract!Next
<1>1. /\ op.kind = "none" /\ op'.kind = t.kind /\ op'.name = t.name /\ op'.ino = t.ino /\ op'.done = FALSE
      /\ torn' = torn /\ crashes' = crashes
  BY StartNames DEF Start
<1>2. Request = Abstract!Quiet
  BY <1>1, RequestFields
<1>3. Request' = [kind |-> t.kind, name |-> t.name, ino |-> t.ino, done |-> FALSE]
  BY <1>1 DEF Request
<1>4. Entries' = Entries
  BY KeptEntries
<1>5. Abstract!Begin(t.kind, t.name, t.ino)
  BY <1>1, <1>2, <1>3, <1>4 DEF Abstract!Begin, Abstract!Asked
<1> QED BY <1>5 DEF Abstract!Next, Inos

LEMMA StutterMaps ==
  ASSUME Kept, Request' = Request, torn' = torn, crashes' = crashes
  PROVE  UNCHANGED Abstract!vars
BY KeptEntries DEF Abstract!vars

LEMMA StartMaps ==
  ASSUME Intact, Distinct, DotsPlaced, Making,
         \/ \E n \in NewNames, i \in Inodes : Create(n, i)
         \/ \E n \in Names : Unlink(n)
         \/ Rmdir \/ Continue
  PROVE  [Abstract!Next]_Abstract!vars
<1>1. CASE \E n \in NewNames, i \in Inodes : Create(n, i)
  <2>1. PICK n \in NewNames, i \in Inodes : Create(n, i)
    BY <1>1
  <2> DEFINE t == Task("create", n, i)
  <2>2. t.kind = "create" /\ t.name = n /\ t.ino = i /\ Start(t)
    BY <2>1, Plans DEF Create
  <2>3. n \in Names /\ i \in Inos
    BY DirConstants DEF Inos
  <2> HIDE DEF t
  <2> QED BY <2>2, <2>3, StartNames, BeginMaps
<1>2. CASE \E n \in Names : Unlink(n)
  <2>1. PICK n \in Names : Unlink(n)
    BY <1>2
  <2> DEFINE t == Task("unlink", n, 0)
  <2>2. t.kind = "unlink" /\ t.name = n /\ t.ino = 0 /\ Start(t)
    BY <2>1, Plans DEF Unlink
  <2> HIDE DEF t
  <2> QED BY <2>2, StartNames, BeginMaps
<1>3. CASE Rmdir
  <2> DEFINE t == Task("last", NoName, 0)
  <2>1. t.kind = "last" /\ Start(t)
    BY <1>3, Plans DEF Rmdir
  <2> HIDE DEF t
  <2>2. Kept /\ op.kind = "none" /\ op'.kind = "last" /\ torn' = torn /\ crashes' = crashes
    BY <2>1, StartNames DEF Start
  <2>3. Request' = Request
    BY <2>2 DEF Request
  <2> QED BY <2>2, <2>3, StutterMaps
<1>4. CASE Continue
  <2> DEFINE t == Head(plan)
  <2>1. Start(t) /\ plan \in {MakeDots, MakeDotDot, DropDots, DropDot}
    BY <1>4, Plans DEF Continue, Intact, Requests
  <2>2. t.kind \in {"create", "unlink"} /\ t.name \in Names /\ t.ino \in Inos \cup {0}
    BY <2>1, Plans, DirConstants DEF Inos
  <2> HIDE DEF t
  <2> QED BY <2>1, <2>2, StartNames, BeginMaps
<1> QED BY <1>1, <1>2, <1>3, <1>4

LEMMA WithinMaps ==
  ASSUME Intact, Distinct, Plain, Plain', WithinOperation, ~torn, ~torn', torn \in BOOLEAN, torn' \in BOOLEAN
  PROVE  [Abstract!Next]_Abstract!vars
<1>1. SameRequest /\ (Unseen \/ Added \/ Dropped)
  BY WithinNames
<1>2. torn' = torn /\ crashes' = crashes
  <2>1. torn' = torn
    BY Zenon
  <2>2. crashes' = crashes
    BY DEF WithinOperation, Visit, SetSize, TakeNull, Split, AppendEntry, Grow, WriteHeader, WriteName,
       Lengthen, NullHeader, NullName, Wipe, Write
  <2> QED BY <2>1, <2>2
<1>3. CASE Unseen
  <2>1. Request' = Request /\ Kept
    BY <1>1, <1>3, SameDone, RequestSame DEF Unseen
  <2> QED BY <1>2, <2>1, StutterMaps
<1>4. CASE Added \/ Dropped
  <2>1. op.done = FALSE /\ op'.done = TRUE /\ op.kind \in {"create", "unlink"}
    BY <1>4, Zenon DEF Added, Dropped, Plain
  <2>2. Request = [kind |-> op.kind, name |-> op.name, ino |-> op.ino, done |-> FALSE]
    BY <2>1 DEF Request
  <2>3. Request' = [kind |-> op.kind, name |-> op.name, ino |-> op.ino, done |-> TRUE]
    BY <1>1, <2>1 DEF Request, SameRequest
  <2>4. /\ Request' = Abstract!Asked(Request.kind, Request.name, Request.ino, TRUE)
        /\ Request.kind = op.kind /\ Request.name = op.name /\ Request.ino = op.ino /\ Request.done = FALSE
    BY <2>2, <2>3 DEF Abstract!Asked
  <2>5. CASE Added
    <3>1. Entries' = Entries \cup {Abstract!Entry(Request.name, Request.ino)}
      BY <2>4, <2>5, AddedEntries DEF Abstract!Entry, Entry
    <3>2. op.kind = "create"
      BY <2>5 DEF Added
    <3>3. Abstract!Add
      BY <1>2, <2>4, <3>1, <3>2 DEF Abstract!Add
    <3> QED BY <3>3 DEF Abstract!Next
  <2>6. CASE Dropped
    <3>1. \E e \in Entries : e.name = Request.name /\ Entries' = Entries \ {e}
      BY <2>4, <2>6, DroppedEntries
    <3>2. op.kind = "unlink"
      BY <2>6 DEF Dropped
    <3>3. Abstract!Remove
      BY <1>2, <2>4, <3>1, <3>2 DEF Abstract!Remove
    <3> QED BY <3>3 DEF Abstract!Next
  <2> QED BY <1>4, <2>5, <2>6
<1> QED BY <1>1, <1>3, <1>4

(* unlink_file_ext2 returns -1 only if no entry has the name. *)
LEMMA NotFoundMeans ==
  ASSUME Intact, NotFound
  PROVE  \A e \in Entries : e.name # op.name
<1>1. Walking /\ Chain(live, Rec, size) /\ op.kind = "unlink" /\ walk.next >= size
  BY WalkStage DEF NotFound, Ended, Tidy
<1>2. \A o \in live : o \in Nat /\ o < size /\ size \in Nat
  BY <1>1 DEF Chain, Link
<1>3. \A o \in live : o < walk.next
  BY <1>1, <1>2, SMT DEF Walking
<1>4. \A o \in Complete : mem[o + Header].name # op.name
  BY <1>1, <1>3 DEF Walking, Complete
<1>5. Entries = {Entry(mem[o + Header].name, mem[o].a) : o \in Complete}
  BY DEF Entries, Complete
<1> QED BY <1>4, <1>5 DEF Entry

LEMMA EndMaps ==
  ASSUME Intact, Distinct, DotsPlaced, Making, Plain, torn \in BOOLEAN, ~torn, torn' \in BOOLEAN, ~torn',
         Gone \/ NotFound \/ RmdirChecks \/ Created \/ BeyondBound \/ Unlinked \/ Crash
  PROVE  [Abstract!Next]_Abstract!vars
<1>1. Kept /\ op' = NoOp /\ op'.kind = "none" /\ Entries' = Entries
  <2>1. Kept /\ op' = NoOp
    BY EndInv
  <2> QED BY <2>1, KeptEntries DEF NoOp
<1>2. torn' = torn
  BY Zenon
<1>3. Request' = Abstract!Quiet
  BY <1>1 DEF Request, Abstract!Quiet, Abstract!Asked
<1>4. CASE Crash
  <2>1. crashes' = crashes + 1
    BY <1>4 DEF Crash
  <2> QED BY <1>1, <1>2, <1>3, <2>1 DEF Abstract!Next, Abstract!Abort
<1>5. CASE Gone \/ RmdirChecks
  <2>1. op.kind \notin {"create", "unlink"} /\ crashes' = crashes
    BY <1>5 DEF Gone, RmdirChecks, Return, Intact, Stages, Stage, AtRest, NoOp
  <2>2. Request' = Request
    BY <1>3, <2>1, RequestFields
  <2> QED BY <1>1, <1>2, <2>1, <2>2, StutterMaps
<1>6. CASE NotFound \/ Created \/ BeyondBound \/ Unlinked
  <2>1. crashes' = crashes
    BY <1>6, AssertStage DEF NotFound, Created, BeyondBound, Unlinked, Return
  <2>2. op.kind \in {"create", "unlink"}
    BY <1>6 DEF NotFound, Created, BeyondBound, Unlinked, Intact, Stages, Stage, Removed, Removing
  <2>3. /\ Request.kind = op.kind /\ Request.name = op.name /\ Request.done = op.done
        /\ Request # Abstract!Quiet
    BY <2>2, RequestFields
  <2>4. \/ op.done
        \/ op.kind = "create"
        \/ \A e \in Entries : e.name # op.name
    BY <1>6, NotFoundMeans DEF Created, BeyondBound, Unlinked, Intact, Stages, Stage, Removed
  <2>5. \/ Request.done
        \/ Request.kind = "create"
        \/ \A e \in Entries : e.name # Request.name
    BY <2>3, <2>4
  <2>6. Abstract!End
    BY <1>1, <1>2, <1>3, <2>1, <2>3, <2>5 DEF Abstract!End
  <2> QED BY <2>6 DEF Abstract!Next
<1> QED BY <1>4, <1>5, <1>6

(* A crash in a window, or the removal of the first entry. *)
LEMMA DamageMaps ==
  ASSUME Intact, torn \in BOOLEAN, torn' \in BOOLEAN, ~torn, torn', [Next]_vars
  PROVE  Abstract!Next
<1>0. torn' = TRUE
  BY Zenon
<1>1. (Crash /\ InWindow) \/ (Wipe /\ IsFirst)
  BY DEF Next, Step, Create, Unlink, Rmdir, Continue, Start, Gone, Visit, NotFound, RmdirChecks,
     Return, SetSize, TakeNull, Split, AppendEntry, BeyondBound, Grow, WriteHeader, WriteName,
     Created, Lengthen, NullHeader, NullName, Wipe, Unlinked, Crash, Stopped, vars
<1>2. CASE Crash /\ InWindow
  <2>1. op.kind = "create" /\ ~op.done /\ crashes' = crashes + 1
    BY <1>2 DEF Crash, InWindow
  <2>2. Request.kind = "create" /\ ~Request.done
    BY <2>1, RequestFields
  <2> QED BY <1>0, <2>1, <2>2 DEF Abstract!Next, Abstract!Damage
<1>3. CASE Wipe /\ IsFirst
  <2>1. op.kind = "unlink" /\ crashes' = crashes
    BY <1>3 DEF Wipe, Write, Intact, Stages, Stage, Merged, Removing
  <2>2. op'.kind = "unlink" /\ op'.done = TRUE
    <3> DEFINE o2 == [op EXCEPT !.done = TRUE]
    <3>1. o2.done = TRUE /\ o2.kind = "unlink"
      BY <2>1
    <3>2. Write(walk.at, Zeros(Wiped), "unlinked", o2)
      BY <1>3 DEF Wipe
    <3> HIDE DEF o2
    <3>3. op'.kind = o2.kind
      BY <3>2 DEF Write
    <3> QED BY <3>1, <3>2, <3>3, WriteDone
  <2>3. Request.kind = "unlink"
    BY <2>1, RequestFields
  <2>4. Request'.done
    BY <2>2 DEF Request
  <2> QED BY <1>0, <2>1, <2>3, <2>4 DEF Abstract!Next, Abstract!Damage
<1> QED BY <1>1, <1>2, <1>3

LEMMA StepMaps ==
  ASSUME IInv, NInv, Plain, IInv', Plain', [Next]_vars
  PROVE  [Abstract!Next]_Abstract!vars
<1>1. CASE torn
  <2>1. torn'
    BY <1>1, TornStays DEF IInv
  <2> QED BY <1>1, <2>1 DEF Abstract!Next
<1>2. CASE ~torn /\ torn'
  BY <1>2, DamageMaps DEF IInv
<1>3. CASE ~torn /\ ~torn'
  <2>1. /\ Intact /\ Distinct /\ DotsPlaced /\ Making /\ torn \in BOOLEAN /\ torn' \in BOOLEAN
        /\ ~torn /\ ~torn'
    BY <1>3 DEF IInv, NInv
  <2>2. CASE \/ \E n \in NewNames, i \in Inodes : Create(n, i)
             \/ \E n \in Names : Unlink(n)
             \/ Rmdir \/ Continue
    BY <2>1, <2>2, StartMaps
  <2>3. CASE Gone \/ NotFound \/ RmdirChecks \/ Created \/ BeyondBound \/ Unlinked \/ Crash
    BY <2>1, <2>3, EndMaps
  <2>4. CASE WithinOperation
    BY <2>1, <2>4, WithinMaps
  <2>5. CASE Stopped \/ UNCHANGED vars
    <3>1. UNCHANGED <<mem, op, live, torn, crashes>>
      BY <2>5 DEF Stopped, vars
    <3>2. Kept /\ Request' = Request
      BY <3>1 DEF Kept, SameNames, Complete, Pending, Request
    <3> QED BY <3>1, <3>2, StutterMaps
  <2> QED BY <2>2, <2>3, <2>4, <2>5, NextIs
<1> QED BY <1>1, <1>2, <1>3

(* Splitting, appending and merging entries, block by block and in as many  *)
(* writes as it takes, is adding and removing names at a single moment each,*)
(* and a crash outside of the windows comes before or after that moment.    *)
THEOREM DirImplementsNames == Spec => ImplementsNames
<1>1. Init => Abstract!Init
  <2> SUFFICES ASSUME Init PROVE Abstract!Init
    OBVIOUS
  <2>1. live = {} /\ op = NoOp /\ torn = FALSE /\ crashes = 0 /\ op.kind = "none"
    BY DEF Init, NoOp
  <2>2. Entries = {}
    BY <2>1 DEF Entries
  <2> QED BY <2>1, <2>2, RequestFields DEF Abstract!Init
<1>2. IInv /\ NInv /\ Plain /\ (IInv /\ NInv /\ Plain)' /\ [Next]_vars => [Abstract!Next]_Abstract!vars
  BY StepMaps
<1> QED BY <1>1, <1>2, NamesInvariant, PTL DEF Spec, ImplementsNames, Abstract!Spec

-----------------------------------------------------------------------------
(* What no entry uses is zero. *)
Covered(u) == \E o \in live : u \in o .. o + Used(o) - 1

LEMMA UsedIs ==
  ASSUME Intact, NEW p \in live
  PROVE  /\ p \in Nat /\ Used(p) \in Nat /\ Header <= Used(p) /\ Used(p) <= mem[p + 1].a
         /\ p \in Units /\ p + 1 \in Units /\ mem[p + 1].a \in Nat
<1>1. Content(p)
  BY DEF Intact, Contents
<1>2. p \in Starts /\ Chain(Starts, Reach, End)
  BY DEF Starts, Intact, Shape
<1>3. p \in Nat /\ p \in Units /\ p + 1 \in Units /\ Reach[p] \in Nat
  BY <1>2, Offsets
<1>4. mem[p + 1].a \in Nat
  <2>1. CASE Hole /\ p = op.at
    BY <2>1 DEF Hole, Intact, Stages, Placing, Creating
  <2>2. CASE ~(Hole /\ p = op.at)
    BY <1>3, <2>2 DEF Reach
  <2> QED BY <2>1, <2>2
<1>5. Header = 2 /\ mem[p + 1].b \in Nat /\ Header <= mem[p + 1].b /\ mem[p + 1].b <= mem[p + 1].a
  BY <1>1 DEF Content, Header
<1>6. Used(p) = Header \/ Used(p) = mem[p + 1].b
  BY DEF Used
<1> QED BY <1>3, <1>4, <1>5, <1>6, SMT

LEMMA CoverStays ==
  ASSUME NEW o \in Nat, o \in live', Used(o)' \in Nat, Header <= Used(o)',
         \A u \in Units : u # o /\ u # o + 1 => mem'[u] = mem[u],
         NEW G,
         \A p \in live : \/ /\ p \in live' /\ p \in Nat /\ Used(p) \in Nat
                            /\ Used(p)' \in Nat /\ Used(p) <= Used(p)'
                         \/ \A u \in p .. p + Used(p) - 1 : u \in G,
         \A u \in Units : mem[u] # Zero => Covered(u)
  PROVE  \A u \in Units : mem'[u] # Zero => Covered(u)' \/ u \in G
<1> SUFFICES ASSUME NEW u \in Units, mem'[u] # Zero, u \notin G
             PROVE  \E p \in live' : u \in p .. p + Used(p)' - 1
  BY DEF Covered, Used
<1>1. u \in Int
  BY DirConstants, SMT DEF Units
<1>2. CASE u = o \/ u = o + 1
  <2>1. u \in o .. o + Used(o)' - 1
    BY <1>1, <1>2, SMT DEF Header
  <2> QED BY <2>1
<1>3. CASE u # o /\ u # o + 1
  <2>1. PICK p \in live : u \in p .. p + Used(p) - 1
    BY <1>3 DEF Covered
  <2>2. p \in live' /\ p \in Nat /\ Used(p) \in Nat /\ Used(p)' \in Nat /\ Used(p) <= Used(p)'
    BY <2>1
  <2>3. u \in p .. p + Used(p)' - 1
    BY <1>1, <2>1, <2>2, SMT
  <2> QED BY <2>2, <2>3
<1> QED BY <1>2, <1>3

(* The header of one entry is written; all others use what they used. *)
LEMMA HeaderElse ==
  ASSUME NEW S, NEW r, NEW e, Chain(S, r, e), NEW q \in S, NEW p \in S, p # q,
         \A u \in Units : u # q /\ u # q + 1 => mem'[u] = mem[u]
  PROVE  Used(p)' = Used(p)
<1>1. p \in Nat /\ q \in Nat /\ r[q] \in Nat /\ Header < r[q] /\ Header = 2
  BY Offsets DEF Header
<1>2. \A u \in Units : u < q \/ u >= q + r[q] => u # q /\ u # q + 1
  <2>1. \A u \in Units : u \in Int
    BY DirConstants, SMT DEF Units
  <2> QED BY <1>1, <2>1, SMT
<1>3. mem'[p] = mem[p] /\ mem'[p + 1] = mem[p + 1]
  BY <1>2, OthersKept
<1> QED BY <1>3 DEF Used

LEMMA UsedAfter ==
  ASSUME Intact'
  PROVE  \A p \in live' : Used(p)' \in Nat /\ Header <= Used(p)' /\ p \in Starts' /\ p \in Nat
<1> SUFFICES ASSUME NEW p \in live'
             PROVE  Used(p)' \in Nat /\ Header <= Used(p)' /\ p \in Starts' /\ p \in Nat
  OBVIOUS
<1>1. Content(p)'
  BY DEF Intact, Contents
<1>2. p \in Starts' /\ Chain(Starts', Reach', End')
  BY DEF Intact, Shape, Starts
<1>3. p \in Nat
  BY <1>2, Offsets
<1>4. Used(p)' \in Nat /\ Header <= Used(p)'
  BY <1>1, SMT DEF Content, Used, Header
<1> QED BY <1>2, <1>3, <1>4

LEMMA HeaderCover ==
  ASSUME Intact, Intact', NEW q, q \in live', NEW G,
         \A u \in Units : u # q /\ u # q + 1 => mem'[u] = mem[u],
         q \in live => Used(q) <= Used(q)' \/ \A u \in q .. q + Used(q) - 1 : u \in G,
         \A p \in live : p # q => p \in live' \/ \A u \in p .. p + Used(p) - 1 : u \in G,
         \A u \in Units : mem[u] # Zero => Covered(u)
  PROVE  \A u \in Units : mem'[u] # Zero => Covered(u)' \/ u \in G
<1>1. Chain(Starts', Reach', End')
  BY DEF Intact, Shape
<1>2. q \in Nat /\ q \in Starts' /\ Used(q)' \in Nat /\ Header <= Used(q)'
  BY UsedAfter
<1>3. \A p \in live : \/ /\ p \in live' /\ p \in Nat /\ Used(p) \in Nat
                         /\ Used(p)' \in Nat /\ Used(p) <= Used(p)'
                      \/ \A u \in p .. p + Used(p) - 1 : u \in G
  <2> SUFFICES ASSUME NEW p \in live, ~(\A u \in p .. p + Used(p) - 1 : u \in G)
               PROVE  /\ p \in live' /\ p \in Nat /\ Used(p) \in Nat
                      /\ Used(p)' \in Nat /\ Used(p) <= Used(p)'
    BY Zenon
  <2>1. p \in Nat /\ Used(p) \in Nat
    BY UsedIs
  <2>2. CASE p = q
    BY <1>2, <2>1, <2>2
  <2>3. CASE p # q
    <3>1. p \in live'
      BY <2>3, Zenon
    <3>2. p \in Starts' /\ Used(p)' \in Nat
      BY <3>1, UsedAfter
    <3>3. Used(p)' = Used(p)
      BY <1>1, <1>2, <2>3, <3>2, HeaderElse
    <3> QED BY <2>1, <3>1, <3>3, SMT
  <2> QED BY <2>2, <2>3
<1> QED BY <1>2, <1>3, CoverStays

Clear == \A u \in Units : mem[u] # Zero => Covered(u)

LEMMA HeaderClear ==
  ASSUME Intact, Intact', Clear, NEW q, q \in live', live \subseteq live',
         \A u \in Units : u # q /\ u # q + 1 => mem'[u] = mem[u],
         q \in live => Used(q) <= Used(q)'
  PROVE  Clear'
<1>0. PICK G : G = {}
  OBVIOUS
<1>1. \A u \in Units : mem[u] # Zero => Covered(u)
  BY DEF Clear
<1>2. \A p \in live : p # q => p \in live' \/ \A u \in p .. p + Used(p) - 1 : u \in G
  OBVIOUS
<1>3. q \in live => Used(q) <= Used(q)' \/ \A u \in q .. q + Used(q) - 1 : u \in G
  OBVIOUS
<1>4. \A u \in Units : mem'[u] # Zero => Covered(u)' \/ u \in G
  BY <1>1, <1>2, <1>3, HeaderCover
<1> QED BY <1>0, <1>4 DEF Clear

LEMMA SplitClear ==
  ASSUME Intact, Split, Clear
  PROVE  Clear'
<1>1. /\ Intact' /\ live' = live /\ Found /\ Tidy /\ walk.at \in live /\ Seen /\ Sound(walk.at)
  BY SplitStep, FoundStage DEF Split
<1>2. /\ walk.at \in Units /\ walk.at + 1 \in Units
  BY <1>1, Offsets DEF Tidy
<1>3. \E o2 : Write(walk.at, HeaderOf(walk.ino, walk.need, walk.need), "header", o2)
  BY DEF Split
<1>4. /\ mem'[walk.at] = InoUnit(walk.ino) /\ mem'[walk.at + 1] = RecUnit(walk.need, walk.need)
      /\ \A u \in Units : u # walk.at /\ u # walk.at + 1 => mem'[u] = mem[u]
  BY <1>2, <1>3, HeaderWritten
<1>5. walk.ino # 0 /\ mem[walk.at].a = walk.ino /\ mem[walk.at + 1].b = walk.need
  BY <1>1 DEF Split, Seen
<1>6. mem[walk.at].k = "ino" /\ mem'[walk.at].k = "ino" /\ mem'[walk.at + 1].b = walk.need
  BY <1>1, <1>4, <1>5 DEF Sound, NullEntry, InoUnit, RecUnit, Unit
<1>7. \A q : q = walk.at => Used(q)' = Used(q)
  BY <1>5, <1>6 DEF Used
<1>8. \E q : q = walk.at
  OBVIOUS
<1>9. PICK q : q = walk.at
  BY <1>8
<1>10. Used(q) \in Nat
  BY <1>1, <1>9, UsedIs
<1>11. Used(q) <= Used(q)'
  BY <1>7, <1>9, <1>10, SMT
<1>12. \A u \in Units : u # q /\ u # q + 1 => mem'[u] = mem[u]
  BY <1>4, <1>9
<1>13. q \in live' /\ live \subseteq live' /\ Intact'
  BY <1>1, <1>9
<1> QED BY <1>11, <1>12, <1>13, HeaderClear

LEMMA UsedSame ==
  ASSUME NEW q, mem'[q].k = mem[q].k, mem'[q + 1].b = mem[q + 1].b
  PROVE  Used(q)' = Used(q)
BY DEF Used

LEMMA SameClear ==
  ASSUME Clear, UNCHANGED <<mem, live>>
  PROVE  Clear'
<1>1. \A u : Covered(u)' <=> Covered(u)
  BY DEF Covered, Used
<1> QED BY <1>1 DEF Clear

LEMMA AppendClear ==
  ASSUME Intact, AppendEntry, Clear
  PROVE  Clear'
<1>1. Intact' /\ live' = live /\ op.kind = "create"
  BY AppendEntryStep DEF AppendEntry
<1>2. CASE size = 0
  BY <1>1, <1>2, SameClear DEF AppendEntry
<1>3. CASE size # 0
  <2>1. walk.at \in live /\ Seen /\ walk.ino # 0 /\ Sound(walk.at) /\ Tidy
    BY <1>3, NewStartIs, WalkStage DEF AppendEntry, Ended
  <2>2. PICK q : q = walk.at
    OBVIOUS
  <2>3. q \in live /\ q \in Units /\ q + 1 \in Units /\ Used(q) \in Nat
    BY <2>1, <2>2, UsedIs
  <2>4. PICK i, r, n, o2 : /\ Write(q, HeaderOf(i, r, n), "header", o2)
                           /\ i = walk.ino /\ n = walk.need
    BY <1>3, <2>2 DEF AppendEntry
  <2>5. /\ mem'[q] = InoUnit(i) /\ mem'[q + 1] = RecUnit(r, n)
        /\ \A u \in Units : u # q /\ u # q + 1 => mem'[u] = mem[u]
    BY <2>3, <2>4, HeaderWritten
  <2>6. mem[q].k = "ino" /\ mem[q + 1].b = n
    BY <2>1, <2>2, <2>4 DEF Seen, Sound, NullEntry
  <2>7. mem'[q].k = "ino" /\ mem'[q + 1].b = n
    BY <2>1, <2>4, <2>5 DEF InoUnit, RecUnit, Unit
  <2>8. Used(q)' = Used(q)
    BY <2>6, <2>7, UsedSame
  <2>9. Used(q) <= Used(q)'
    BY <2>3, <2>8, SMT
  <2> QED BY <1>1, <2>3, <2>5, <2>9, HeaderClear
<1> QED BY <1>2, <1>3

LEMMA WriteHeaderClear ==
  ASSUME Intact, WriteHeader, Clear
  PROVE  Clear'
<1>1. Intact' /\ live' = live \cup {op.at} /\ Placing /\ Creating
  BY WriteHeaderStep DEF Placing
<1>2. PICK q : q = op.at
  OBVIOUS
<1>3. q \in live' /\ live \subseteq live' /\ Chain(Starts', Reach', End') /\ q \in Starts'
  BY <1>1, <1>2 DEF Intact, Shape, Starts
<1>4. q \in Units /\ q + 1 \in Units
  BY <1>3, Offsets
<1>5. PICK need : need = Need[op.name]
  OBVIOUS
<1>6. Write(q, HeaderOf(op.ino, op.rec, need), "name", op)
  BY <1>2, <1>5 DEF WriteHeader
<1>7. /\ mem'[q] = InoUnit(op.ino) /\ mem'[q + 1] = RecUnit(op.rec, need)
      /\ \A u \in Units : u # q /\ u # q + 1 => mem'[u] = mem[u]
  BY <1>4, <1>6, HeaderWritten
<1>8. op.ino # 0 /\ need \in Nat /\ Header < need
  <2>1. op.ino \in Inos /\ op.name \in Names
    BY <1>1 DEF Creating, Intact, Requests
  <2> QED BY <1>5, <2>1, DirConstants
<1>9. Used(q)' = need
  BY <1>7, <1>8 DEF Used, InoUnit, RecUnit, Unit
<1>10. q \in live => Used(q) = Header
  BY <1>1, <1>2 DEF Placing, Creating, Used
<1>11. q \in live => Used(q) <= Used(q)'
  BY <1>8, <1>9, <1>10, SMT DEF Header
<1> QED BY <1>1, <1>3, <1>7, <1>11, HeaderClear

LEMMA NameTail ==
  ASSUME NEW name, Need[name] \in Nat, Header < Need[name], NEW n \in Nat, NEW i \in 1 .. n,
         i > Need[name] - Header
  PROVE  NameIn(name, n)[i] = Zero
<1>1. i # 1 /\ ~(i <= Need[name] - Header)
  BY SMT DEF Header
<1> QED BY <1>1 DEF NameIn

LEMMA WriteNameClear ==
  ASSUME Intact, WriteName, Clear
  PROVE  Clear'
<1>1. Intact' /\ live' = live /\ Naming /\ Creating /\ Placed /\ Stage = "name"
  BY WriteNameStep DEF Naming
<1>2. PICK q, o, n, us : q = op.at /\ o = op.at + Header /\ n = op.rec - Header /\ us = NameIn(op.name, n)
  OBVIOUS
<1>3. /\ q \in live /\ mem[q].k = "ino" /\ mem[q + 1].b = Need[op.name] /\ mem[q + 1].a = op.rec
      /\ op.rec \in Nat /\ op.rec >= Need[op.name] /\ op.name \in Names
  BY <1>1, <1>2 DEF Placed, Creating, Intact, Requests
<1>4. Need[op.name] \in Nat /\ Header < Need[op.name] /\ Header = 2
  BY <1>3, DirConstants DEF Header
<1>5. q \in Nat /\ q \in Units /\ q + 1 \in Units /\ q \in Starts /\ Chain(Starts, Reach, End)
      /\ Reach[q] = op.rec
  <2>1. q \in Nat /\ q \in Units /\ q + 1 \in Units
    BY <1>3, UsedIs
  <2>2. ~Hole
    BY <1>1 DEF Hole
  <2> QED BY <1>3, <2>1, <2>2 DEF Intact, Shape, Starts, Reach
<1>6. o \in Nat /\ n \in Nat \ {0} /\ o = q + 2 /\ n = op.rec - 2
  BY <1>2, <1>3, <1>4, <1>5, SMT
<1>7. Len(us) = n
  BY <1>2, <1>6, NameBuffer
<1>8. \E o2 : Write(o, us, "assert", o2)
  BY <1>2 DEF WriteName
<1>9. \A u \in Units : mem'[u] = IF o <= u /\ u < o + n THEN us[u - o + 1] ELSE mem[u]
  BY <1>6, <1>7, <1>8, RangeWritten
<1>10. \A u \in Units : u \in Int
  BY DirConstants, SMT DEF Units
<1>11. \A u \in Units : u < q \/ u >= q + Reach[q] => mem'[u] = mem[u]
  <2>1. \A u \in Units : u < q \/ u >= q + Reach[q] => ~(o <= u /\ u < o + n)
    BY <1>3, <1>5, <1>6, <1>10, SMT
  <2> QED BY <1>9, <2>1
<1>12. mem'[q] = mem[q] /\ mem'[q + 1] = mem[q + 1]
  <2>1. ~(o <= q) /\ ~(o <= q + 1)
    BY <1>5, <1>6, SMT
  <2> QED BY <1>5, <1>9, <2>1
<1>13. \A p \in live : Used(p)' = Used(p)
  <2> SUFFICES ASSUME NEW p \in live PROVE Used(p)' = Used(p)
    OBVIOUS
  <2>1. p \in Starts
    BY DEF Starts
  <2>2. p # q => mem'[p] = mem[p] /\ mem'[p + 1] = mem[p + 1]
    BY <1>5, <1>11, <2>1, OthersKept
  <2> QED BY <1>12, <2>2 DEF Used
<1>14. Used(q) = Need[op.name]
  BY <1>3 DEF Used
<1>15. ASSUME NEW u \in Units, mem'[u] # Zero
       PROVE  \E p \in live' : u \in p .. p + Used(p)' - 1
  <2>1. CASE o <= u /\ u < o + n
    <3>1. us[u - o + 1] # Zero /\ u - o + 1 \in 1 .. n
      BY <1>6, <1>9, <1>10, <1>15, <2>1, SMT
    <3>2. ~(u - o + 1 > Need[op.name] - Header)
      BY <1>2, <1>4, <1>6, <3>1, NameTail
    <3>3. PICK m : m = Need[op.name]
      OBVIOUS
    <3>4. m \in Nat /\ ~(u - o + 1 > m - 2) /\ Used(q)' = m
      BY <1>3, <1>4, <1>13, <1>14, <3>2, <3>3
    <3>5. u \in q .. q + m - 1
      BY <1>5, <1>6, <1>10, <2>1, <3>4, SMT
    <3> QED BY <1>1, <1>3, <3>4, <3>5
  <2>2. CASE ~(o <= u /\ u < o + n)
    <3>1. PICK p \in live : u \in p .. p + Used(p) - 1
      BY <1>9, <1>15, <2>2 DEF Clear, Covered
    <3> QED BY <1>1, <1>13, <3>1
  <2> QED BY <2>1, <2>2
<1> QED BY <1>15 DEF Clear, Covered, Used

(* What is left of an entry until it is wiped. *)
Clean == \A u \in Units : mem[u] # Zero => Covered(u) \/ Cleared(u)

LEMMA LengthenClean ==
  ASSUME Intact, Lengthen, Clear
  PROVE  Clean'
<1>1. /\ Intact' /\ live' = (IF CrossesBlock THEN live ELSE live \ {walk.at})
      /\ Seen /\ Tidy /\ walk.at \in live /\ ~IsFirst
  BY LengthenStep, FoundStage DEF Lengthen
<1>2. PICK q : q = walk.before
  OBVIOUS
<1>3. q \in live /\ q # walk.at
  BY <1>1, <1>2 DEF Seen, Behind, IsFirst
<1>4. q \in Units /\ q + 1 \in Units /\ Used(q) \in Nat /\ q \in live'
  BY <1>1, <1>3, UsedIs
<1>5. PICK r, next, w : Write(q, HeaderOf(mem[q].a, r, mem[q + 1].b), next, w)
  BY <1>2 DEF Lengthen
<1>6. /\ mem'[q] = InoUnit(mem[q].a) /\ mem'[q + 1] = RecUnit(r, mem[q + 1].b)
      /\ \A u \in Units : u # q /\ u # q + 1 => mem'[u] = mem[u]
      /\ walk' = walk
  BY <1>4, <1>5, HeaderWritten
<1>7. mem'[q].k = mem[q].k /\ mem'[q + 1].b = mem[q + 1].b
  <2>1. Sound(q)
    BY <1>1, <1>3 DEF Tidy
  <2>2. (mem[q].a = 0 /\ mem[q].k = "zero") \/ (mem[q].a # 0 /\ mem[q].k = "ino")
    BY <2>1, DirConstants DEF Sound, NullEntry
  <2> QED BY <1>6, <2>2 DEF InoUnit, RecUnit, Unit, Zero
<1>8. Used(q)' = Used(q)
  BY <1>7, UsedSame
<1>9. Used(q) <= Used(q)'
  BY <1>4, <1>8, SMT
<1>10. CASE CrossesBlock
  <2>1. Clear'
    BY <1>1, <1>3, <1>6, <1>9, <1>10, HeaderClear
  <2> QED BY <2>1 DEF Clear, Clean, Covered, Used, Cleared
<1>11. CASE ~CrossesBlock
  <2>1. PICK at, G : at = walk.at /\ G = walk.at .. walk.at + walk.rec - 1
    OBVIOUS
  <2>2. Stage' = "wipe"
    <3>1. /\ \E o, us, o2 : Write(o, us, "wipe", o2)
      BY <1>11 DEF Lengthen
    <3>2. pc' = "size" /\ op'.next = "wipe"
      BY <3>1 DEF Write
    <3> QED BY <3>2 DEF Stage
  <2>3. \A u \in at .. at + Used(at) - 1 : u \in G
    <3>1. at \in Nat /\ Used(at) \in Nat /\ Used(at) <= mem[at + 1].a /\ mem[at + 1].a \in Nat
      BY <1>1, <2>1, UsedIs
    <3>2. walk.rec = mem[at + 1].a
      BY <1>1, <2>1 DEF Seen
    <3>3. G = at .. at + walk.rec - 1
      BY <2>1
    <3> QED BY <3>1, <3>2, <3>3, SMT
  <2>4. \A p \in live : p # q => p \in live' \/ \A u \in p .. p + Used(p) - 1 : u \in G
    <3>1. \A p \in live : p # at => p \in live'
      BY <1>1, <1>11, <2>1
    <3> QED BY <2>3, <3>1
  <2>5. q \in live => Used(q) <= Used(q)' \/ \A u \in q .. q + Used(q) - 1 : u \in G
    BY <1>9
  <2>6. \A u \in Units : mem[u] # Zero => Covered(u)
    BY DEF Clear
  <2>7. \A u \in Units : mem'[u] # Zero => Covered(u)' \/ u \in G
    BY <1>1, <1>4, <1>6, <2>4, <2>5, <2>6, HeaderCover
  <2>8. \A u : u \in G => Cleared(u)'
    BY <1>6, <2>1, <2>2 DEF Cleared
  <2> QED BY <2>7, <2>8 DEF Clean, Covered, Used
<1> QED BY <1>10, <1>11

LEMMA NullHeaderClean ==
  ASSUME Intact, NullHeader, Clear
  PROVE  Clean'
<1>1. Intact' /\ Crossing /\ live' = live
  BY NullHeaderStep
<1>2. PICK q, G : q = walk.at /\ G = walk.at .. walk.at + walk.rec - 1
  OBVIOUS
<1>3. q \in live /\ walk.rec = mem[q + 1].a
  BY <1>1, <1>2 DEF Crossing
<1>4. q \in Nat /\ q \in Units /\ q + 1 \in Units /\ Used(q) \in Nat /\ Used(q) <= mem[q + 1].a
      /\ mem[q + 1].a \in Nat
  BY <1>3, UsedIs
<1>5. \E o2 : Write(q, HeaderOf(0, walk.rec, Header), "nullname", o2)
  BY <1>2 DEF NullHeader
<1>6. /\ \A u \in Units : u # q /\ u # q + 1 => mem'[u] = mem[u]
      /\ walk' = walk /\ Stage' = "nullname"
  <2>1. pc' = "size" /\ op'.next = "nullname"
    BY <1>5 DEF Write
  <2> QED BY <1>4, <1>5, <2>1, HeaderWritten DEF Stage
<1>7. \A u \in q .. q + Used(q) - 1 : u \in G
  <2>1. G = q .. q + walk.rec - 1
    BY <1>2
  <2> QED BY <1>3, <1>4, <2>1, SMT
<1>8. q \in live => Used(q) <= Used(q)' \/ \A u \in q .. q + Used(q) - 1 : u \in G
  BY <1>7
<1>9. \A p \in live : p # q => p \in live' \/ \A u \in p .. p + Used(p) - 1 : u \in G
  BY <1>1
<1>10. \A u \in Units : mem[u] # Zero => Covered(u)
  BY DEF Clear
<1>11. \A u \in Units : mem'[u] # Zero => Covered(u)' \/ u \in G
  BY <1>1, <1>3, <1>6, <1>8, <1>9, <1>10, HeaderCover
<1>12. \A u : u \in G => Cleared(u)'
  BY <1>2, <1>6 DEF Cleared
<1> QED BY <1>11, <1>12 DEF Clean, Covered, Used

(* Zeros are written to a part of one entry behind its header. *)
LEMMA ZerosClear ==
  ASSUME Intact, Clean, ~Hole, live' = live,
         NEW q \in live, NEW o \in Nat, NEW n \in Nat,
         q + Header <= o, o + n <= q + mem[q + 1].a,
         \A u \in Units : mem'[u] = IF o <= u /\ u < o + n THEN Zero ELSE mem[u],
         \A u \in Units : Cleared(u) => (o <= u /\ u < o + n) \/ u \in q .. q + Used(q) - 1
  PROVE  Clear'
<1>1. /\ q \in Nat /\ q \in Units /\ q + 1 \in Units /\ mem[q + 1].a \in Nat /\ Header = 2
      /\ q \in Starts /\ Chain(Starts, Reach, End) /\ Reach[q] = mem[q + 1].a
  BY UsedIs DEF Header, Intact, Shape, Starts, Reach
<1>2. \A u \in Units : u \in Int
  BY DirConstants, SMT DEF Units
<1>3. mem'[q] = mem[q] /\ mem'[q + 1] = mem[q + 1]
  <2>1. ~(o <= q) /\ ~(o <= q + 1)
    BY <1>1, SMT
  <2> QED BY <1>1, <2>1
<1>4. \A u \in Units : u < q \/ u >= q + Reach[q] => mem'[u] = mem[u]
  <2>1. PICK m : m = mem[q + 1].a
    OBVIOUS
  <2>2. m \in Nat /\ Reach[q] = m /\ o + n <= q + m /\ q + 2 <= o
    BY <1>1, <2>1
  <2>3. ASSUME NEW u \in Units, u < q \/ u >= q + m PROVE ~(o <= u /\ u < o + n)
    <3>1. u \in Int
      BY <1>2
    <3> QED BY <1>1, <2>2, <2>3, <3>1, SMT
  <2> QED BY <2>2, <2>3
<1>5. ASSUME NEW p \in live PROVE Used(p)' = Used(p)
  <2>1. p \in Starts
    BY DEF Starts
  <2>2. p # q => mem'[p] = mem[p] /\ mem'[p + 1] = mem[p + 1]
    BY <1>1, <1>4, <2>1, OthersKept
  <2> QED BY <1>3, <2>2, UsedSame
<1>6. ASSUME NEW u \in Units, mem'[u] # Zero
      PROVE  \E p \in live' : u \in p .. p + Used(p)' - 1
  <2>1. mem[u] # Zero /\ ~(o <= u /\ u < o + n)
    BY <1>6
  <2>2. Covered(u) \/ u \in q .. q + Used(q) - 1
    BY <2>1 DEF Clean
  <2>3. PICK p \in live : u \in p .. p + Used(p) - 1
    BY <2>2 DEF Covered
  <2> QED BY <1>5, <2>3
<1> QED BY <1>6 DEF Clear, Covered, Used

LEMMA NullNameClear ==
  ASSUME Intact, NullName, Clean
  PROVE  Clear'
<1>1. Nulled /\ Stage = "nullname" /\ ~Hole
  BY DEF NullName, Stage, Intact, Stages, Hole
<1>2. PICK q, o, n : q = walk.at /\ o = walk.at + Header /\ n = walk.rec - Header
  OBVIOUS
<1>3. q \in live /\ mem[q].k = "zero" /\ walk.rec = mem[q + 1].a
  BY <1>1, <1>2 DEF Nulled
<1>4. /\ q \in Nat /\ Used(q) = Header /\ Header <= mem[q + 1].a /\ mem[q + 1].a \in Nat /\ Header = 2
  BY <1>3, UsedIs DEF Used, Header
<1>5. o = q + Header /\ o \in Nat /\ n \in Nat /\ o + n = q + mem[q + 1].a
  BY <1>2, <1>3, <1>4, SMT
<1>6. live' = live /\ \A u \in Units : mem'[u] = IF o <= u /\ u < o + n THEN Zero ELSE mem[u]
  BY <1>2, NullNameStep
<1>7. ASSUME NEW u \in Units, Cleared(u)
      PROVE  (o <= u /\ u < o + n) \/ u \in q .. q + Used(q) - 1
  <2>1. u \in q .. q + mem[q + 1].a - 1
    BY <1>2, <1>3, <1>7 DEF Cleared
  <2> QED BY <1>4, <1>5, <2>1, SMT
<1>8. q + Header <= o /\ o + n <= q + mem[q + 1].a
  BY <1>4, <1>5, SMT
<1> QED BY <1>1, <1>3, <1>5, <1>6, <1>7, <1>8, ZerosClear

LEMMA WipeClear ==
  ASSUME Intact, Wipe, ~torn', Clean
  PROVE  Clear'
<1>1. /\ Merged /\ live' = live
      /\ \A u \in Units : mem'[u] = IF walk.at <= u /\ u < walk.at + walk.rec THEN Zero ELSE mem[u]
  BY WipeStage
<1>2. ~Hole
  BY <1>1 DEF Merged, Removing, Hole
<1>3. PICK q, o, n : q = walk.before /\ o = walk.at /\ n = walk.rec
  OBVIOUS
<1>4. /\ q \in live /\ o \in Nat /\ n \in Nat /\ q + mem[q + 1].b <= o
      /\ o + n <= q + mem[q + 1].a
  BY <1>1, <1>3 DEF Merged
<1>5. q \in Nat /\ mem[q + 1].b \in Nat /\ Header <= mem[q + 1].b
  BY <1>4, UsedIs DEF Intact, Contents, Content
<1>6. q + Header <= o
  BY <1>4, <1>5, SMT DEF Header
<1>7. \A u \in Units : mem'[u] = IF o <= u /\ u < o + n THEN Zero ELSE mem[u]
  BY <1>1, <1>3
<1>8. ASSUME NEW u \in Units, Cleared(u)
      PROVE  (o <= u /\ u < o + n) \/ u \in q .. q + Used(q) - 1
  <2>1. u \in o .. o + n - 1
    BY <1>3, <1>8 DEF Cleared
  <2>2. o <= u /\ u < o + n
    BY <1>4, <2>1, SMT
  <2> QED BY <2>2
<1> QED BY <1>1, <1>2, <1>4, <1>6, <1>7, <1>8, ZerosClear

LEMMA ClearOther ==
  ASSUME Clean, Stage \notin {"wipe", "nullname"}
  PROVE  Clear
BY DEF Clean, Cleared, Clear

LEMMA ClearIsClean ==
  ASSUME Clear
  PROVE  Clean
BY DEF Clean, Clear

LEMMA CleanSame ==
  ASSUME Clean, UNCHANGED <<mem, live, walk>>, Stage' = Stage
  PROVE  Clean'
<1>1. \A u : (Covered(u)' <=> Covered(u)) /\ (Cleared(u)' <=> Cleared(u))
  BY DEF Covered, Used, Cleared
<1> QED BY <1>1 DEF Clean

LEMMA CleanNext ==
  ASSUME Intact, Intact', ~torn', Clean, [Next]_vars, ~Crash
  PROVE  Clean'
<1>0. Clear' => Clean'
  BY DEF Clean, Clear, Covered, Used, Cleared
<1>1. CASE UNCHANGED vars \/ Stopped \/ SetSize
  <2>1. CASE SetSize
    <3>1. op'.next = op.next /\ pc = "size" /\ pc' = op.next /\ UNCHANGED <<mem, live, walk>>
      BY <2>1 DEF SetSize
    <3>2. Stage' = Stage
      BY <3>1 DEF Stage
    <3> QED BY <3>1, <3>2, CleanSame
  <2>2. CASE UNCHANGED vars \/ Stopped
    <3>1. UNCHANGED <<mem, live, walk>> /\ Stage' = Stage
      BY <2>2 DEF vars, Stopped, Stage
    <3> QED BY <3>1, CleanSame
  <2> QED BY <1>1, <2>1, <2>2
<1>2. CASE \/ \E n \in NewNames, i \in Inodes : Create(n, i)
           \/ \E n \in Names : Unlink(n)
           \/ Rmdir \/ Continue \/ Gone \/ Visit \/ NotFound \/ RmdirChecks
           \/ TakeNull \/ BeyondBound \/ Grow \/ Created \/ Unlinked
  <2>1. UNCHANGED <<mem, live>> /\ pc \in {"rest", "walk", "found", "header", "assert", "unlinked"}
    BY <1>2 DEF Create, Unlink, Rmdir, Continue, Start, Gone, Visit, NotFound, RmdirChecks, Ended,
       TakeNull, BeyondBound, Grow, Created, Unlinked, Return
  <2>2. Clear
    BY <2>1, ClearOther DEF Stage
  <2> QED BY <1>0, <2>1, <2>2, SameClear
<1>3. CASE Split \/ AppendEntry \/ WriteHeader \/ WriteName \/ Lengthen \/ NullHeader
  <2>1. pc \in {"found", "walk", "header", "name", "null"}
    BY <1>3 DEF Split, AppendEntry, Ended, WriteHeader, WriteName, Lengthen, NullHeader
  <2>2. Clear
    BY <2>1, ClearOther DEF Stage
  <2> QED BY <1>0, <1>3, <2>2, SplitClear, AppendClear, WriteHeaderClear, WriteNameClear,
         LengthenClean, NullHeaderClean
<1>4. CASE NullName \/ Wipe
  BY <1>0, <1>4, NullNameClear, WipeClear
<1> QED BY <1>1, <1>2, <1>3, <1>4 DEF Next, Step

CrashedOrClean == crashes \in Nat /\ (~torn /\ crashes = 0 => Clean)

(* As long as the program has not been killed, what an intact directory     *)
(* does not use is zero: a removed entry leaves nothing behind, whether its *)
(* room goes to the entry before it or it stays as one without inode.       *)
THEOREM SlackIsClear == Spec => []SlackClear
<1>1. Init => CrashedOrClean
  <2> SUFFICES ASSUME Init PROVE CrashedOrClean
    OBVIOUS
  <2>1. \A u \in Units : mem[u] = Zero
    BY DEF Init
  <2> QED BY <2>1 DEF Init, CrashedOrClean, Clean
<1>2. IInv /\ IInv' /\ CrashedOrClean /\ [Next]_vars
      => CrashedOrClean'
  <2>0. SUFFICES ASSUME IInv, IInv', CrashedOrClean, [Next]_vars
                 PROVE  CrashedOrClean'
    OBVIOUS
  <2>1. CASE Crash
    BY <2>0, <2>1, SMT DEF Crash, CrashedOrClean
  <2>2. CASE ~Crash
    <3>1. crashes' = crashes
      BY <2>0, <2>2 DEF Next, Step, Create, Unlink, Rmdir, Continue, Start, Gone, Visit, NotFound,
         RmdirChecks, Return, SetSize, TakeNull, Split, AppendEntry, BeyondBound, Grow, WriteHeader,
         WriteName, Created, Lengthen, NullHeader, NullName, Wipe, Unlinked, Write, Stopped, vars
    <3>2. ASSUME ~torn', crashes' = 0 PROVE Clean'
      <4>1. torn \in BOOLEAN /\ ~torn
        BY <2>0, <3>2, TornStays DEF IInv
      <4>2. Intact /\ Intact' /\ Clean
        BY <2>0, <3>1, <3>2, <4>1 DEF IInv, CrashedOrClean
      <4> QED BY <2>0, <2>2, <3>2, <4>2, CleanNext
    <3> QED BY <2>0, <3>1, <3>2 DEF CrashedOrClean
  <2> QED BY <2>1, <2>2
<1>3. CrashedOrClean => SlackClear
  <2>1. pc = "rest" => Stage = "rest"
    BY DEF Stage
  <2> QED BY <2>1 DEF CrashedOrClean, Clean, Covered, Cleared, SlackClear
<1> QED BY <1>1, <1>2, <1>3, DirInvariant, PTL DEF Spec

-----------------------------------------------------------------------------
(* Where a write of the inode goes on, and where the program can be.        *)
Places == {"header", "name", "assert", "wipe", "null", "nullname", "unlinked"}
Points == Places \cup {"rest", "walk", "found", "size", "gone", "halted", "garbled"}

(* What holds of any directory, a damaged one too.  A header at o: its      *)
(* entry ends with the block, or where there is room for another.           *)
Fits(o, r) ==
  /\ o \in Units /\ r \in Nat
  /\ (o % BlockLen) + r = BlockLen \/ (o % BlockLen) + r + Header < BlockLen

HeaderFits(o, r, n) == Fits(o, r) /\ n \in Nat /\ Header <= n /\ n <= r

(* What a unit may hold at u. *)
Proper(x, u) ==
  /\ x.k \in {"zero", "ino", "rec", "text", "more"}
  /\ x.k = "zero" => x = Zero
  /\ x.k = "ino" => x.a \in Inos
  /\ x.k = "rec" => HeaderFits(u - 1, x.a, x.b)
  /\ x.b \in 0 .. BlockLen /\ x.name \in Names \cup {NoName}

WalkFits ==
  /\ Fits(walk.at, walk.rec) /\ (walk.at % BlockLen) + Header < BlockLen
  /\ walk.before \in Units /\ (walk.before % BlockLen) + Header < BlockLen
  /\ walk.next = walk.at + walk.rec
  /\ walk.ino \in Inos \cup {0} /\ walk.need \in Nat /\ Header <= walk.need
  /\ IF walk.rec = 0 THEN walk.need = Header ELSE walk.need <= walk.rec
  /\ walk.buf \in Names \cup {NoName}
  /\ walk.buf \in Names => Need[walk.buf] <= walk.need

(* The walk has read a header at o that leads on by r. *)
Passed(o, r) == mem[o].k \in {"zero", "ino"} /\ mem[o + 1].k = "rec" /\ mem[o + 1].a = r

WalkSees ==
  pc \in {"walk", "found"} =>
    /\ size > 0 => walk.at < size
    /\ walk.rec # 0 => Passed(walk.at, walk.rec)
    /\ walk.before # walk.at => Passed(walk.before, walk.at - walk.before)
    /\ pc = "found" => Stops(walk)

OpFits ==
  /\ op.kind \in {"none", "create", "unlink", "last"} /\ op.at \in Units
  /\ op.kind = "create" => op.name \in Names /\ op.ino \in Inos
  /\ op.kind = "unlink" => op.name \in Names
  /\ pc = "size" => op.end \in Nat /\ op.end <= Limit /\ op.next \in Places
  /\ Stage \in {"header", "name"} => /\ op.kind = "create" /\ Fits(op.at, op.rec)
                                     /\ Need[op.name] <= op.rec
  /\ Stage \in {"wipe", "null", "nullname"} => walk.rec > Header

Fitting ==
  /\ \A u \in Units : Proper(mem[u], u)
  /\ size \in Nat /\ size <= Limit /\ pc \in Points
  /\ WalkFits /\ WalkSees /\ OpFits
  /\ plan \in {<<>>, MakeDots, MakeDotDot, DropDots, DropDot, DropSelf}
  /\ live \subseteq Units /\ torn \in BOOLEAN /\ crashes \in 0 .. MaxCrashes


-----------------------------------------------------------------------------
LEMMA BlockHolds ==
  ASSUME NEW o \in Nat, o < Limit
  PROVE  /\ o % BlockLen \in Nat /\ o % BlockLen < BlockLen
         /\ o - (o % BlockLen) \in Nat /\ (o - (o % BlockLen)) % BlockLen = 0
         /\ o - (o % BlockLen) + BlockLen <= Limit
<1> DEFINE q == o \div BlockLen
           r == o % BlockLen
<1>1. BlockLen \in Nat \ {0} /\ Limit \in Nat /\ Limit % BlockLen = 0
  BY DirConstants
<1>2. q \in Nat /\ r \in Nat /\ r < BlockLen /\ o = q * BlockLen + r
  BY <1>1, Division
<1>3. q * BlockLen \in Nat /\ (q * BlockLen + 0) % BlockLen = 0
  BY <1>1, <1>2, Quotient, SMT
<1> HIDE DEF q, r
<1>4. o - r = q * BlockLen /\ o - r = q * BlockLen + 0 /\ o - r < Limit
  BY <1>1, <1>2, <1>3, SMT
<1>5. (o - r) + BlockLen <= Limit
  BY <1>1, <1>3, <1>4, NextBlock
<1> QED BY <1>2, <1>3, <1>4, <1>5 DEF r

LEMMA RoomInBlock ==
  ASSUME NEW o \in Nat, o < Limit, (o % BlockLen) + Header < BlockLen
  PROVE  o \in Units /\ o + 1 \in Units /\ o + Header \in Units
<1> DEFINE r == o % BlockLen
<1>1. r \in Nat /\ o - r \in Nat /\ o - r + BlockLen <= Limit /\ r + Header < BlockLen
  BY BlockHolds
<1>2. Limit \in Nat /\ BlockLen \in Nat
  BY DirConstants
<1> HIDE DEF r
<1> QED BY <1>1, <1>2, SMT DEF Units, Header

LEMMA UnitsAre == \A u \in Units : u \in Nat /\ u < Limit
BY DirConstants, SMT DEF Units

LEMMA FitsNext ==
  ASSUME NEW o, NEW r, Fits(o, r)
  PROVE  /\ o \in Nat /\ r \in Nat /\ o + r <= Limit /\ o + r \in Nat /\ r <= BlockLen
         /\ (o % BlockLen) + r <= BlockLen /\ o % BlockLen \in Nat
         /\ ((o + r) % BlockLen) + Header < BlockLen
         /\ r = 0 \/ r > Header => (o % BlockLen) + Header < BlockLen
<1> DEFINE s == o % BlockLen
<1>1. o \in Nat /\ o < Limit /\ r \in Nat
  BY UnitsAre DEF Fits
<1>2. s \in Nat /\ s < BlockLen /\ o - s \in Nat /\ o - s + BlockLen <= Limit
  BY <1>1, BlockHolds
<1>3. s + r = BlockLen \/ s + r + Header < BlockLen
  BY DEF Fits
<1>4. BlockLen \in Nat \ {0} /\ BlockLen >= 2 * (Header + 1) /\ Limit \in Nat
  BY DirConstants
<1>5. (s + r = BlockLen => (o + r) % BlockLen = 0)
  BY <1>1, <1>4, Upto
<1>6. s + r + Header < BlockLen => (o + r) % BlockLen = s + r
  <2>1. s + r + Header < BlockLen => s + r < BlockLen
    BY <1>1, <1>2, <1>4, SMT DEF Header
  <2> QED BY <1>1, <1>4, <2>1, Within
<1> HIDE DEF s
<1>7. ((o + r) % BlockLen) + Header < BlockLen
  BY <1>2, <1>3, <1>4, <1>5, <1>6, SMT DEF Header
<1>8. o + r <= Limit /\ o + r \in Nat /\ r <= BlockLen /\ s + r <= BlockLen
  BY <1>1, <1>2, <1>3, <1>4, SMT DEF Header
<1>9. r = 0 \/ r > Header => s + Header < BlockLen
  BY <1>1, <1>2, <1>3, <1>4, SMT DEF Header
<1> QED BY <1>1, <1>2, <1>7, <1>8, <1>9 DEF s

-----------------------------------------------------------------------------
(* What the writes put into the units.                                      *)
LEMMA ZeroProper == \A u : Proper(Zero, u) /\ Zero.a = 0 /\ Zero.b = Header
<1>1. Zero.k = "zero" /\ Zero.b = Header /\ Zero.name = NoName /\ Zero.a = 0
  BY DEF Zero, Unit
<1>2. Header \in 0 .. BlockLen
  BY DirConstants, SMT DEF Header
<1> QED BY <1>1, <1>2 DEF Proper

LEMMA InoProper ==
  ASSUME NEW i \in Inos \cup {0}, NEW u
  PROVE  Proper(InoUnit(i), u)
<1>1. CASE i = 0
  BY <1>1, ZeroProper DEF InoUnit
<1>2. CASE i # 0
  <2>1. /\ InoUnit(i).k = "ino" /\ InoUnit(i).a = i /\ InoUnit(i).b = 0 /\ InoUnit(i).name = NoName
    BY <1>2 DEF InoUnit, Unit
  <2>2. 0 \in 0 .. BlockLen
    BY DirConstants, SMT
  <2> QED BY <1>2, <2>1, <2>2 DEF Proper
<1> QED BY <1>1, <1>2

LEMMA RecProper ==
  ASSUME NEW o \in Nat, NEW r, NEW n, HeaderFits(o, r, n)
  PROVE  Proper(RecUnit(r, n), o + 1)
<1>1. /\ RecUnit(r, n).k = "rec" /\ RecUnit(r, n).a = r /\ RecUnit(r, n).b = n
      /\ RecUnit(r, n).name = NoName
  BY DEF RecUnit, Unit
<1>2. (o + 1) - 1 = o
  BY SMT
<1>3. n \in 0 .. BlockLen
  BY FitsNext, DirConstants, SMT DEF HeaderFits
<1> QED BY <1>1, <1>2, <1>3 DEF Proper

LEMMA NameProper ==
  ASSUME NEW name \in Names, NEW n \in Nat, NEW i \in 1 .. n, NEW u
  PROVE  Proper(NameIn(name, n)[i], u)
<1>1. 0 \in 0 .. BlockLen
  BY DirConstants, SMT
<1>2. \A k \in {"text", "more"} : Proper(Unit(k, 0, 0, name), u)
  <2> TAKE k \in {"text", "more"}
  <2>1. /\ Unit(k, 0, 0, name).k = k /\ Unit(k, 0, 0, name).b = 0
        /\ Unit(k, 0, 0, name).name = name
    BY DEF Unit
  <2> QED BY <1>1, <2>1 DEF Proper
<1>3. NameIn(name, n)[i] \in {Unit("text", 0, 0, name), Unit("more", 0, 0, name), Zero}
  BY DEF NameIn
<1> QED BY <1>2, <1>3, ZeroProper

LEMMA HeaderKeeps ==
  ASSUME \A u \in Units : Proper(mem[u], u),
         NEW o, NEW i \in Inos \cup {0}, NEW r, NEW n, NEW next, NEW o2,
         HeaderFits(o, r, n), (o % BlockLen) + Header < BlockLen,
         Write(o, HeaderOf(i, r, n), next, o2)
  PROVE  /\ \A u \in Units : Proper(mem'[u], u)
         /\ OpIs(o2, o + Header, next) /\ o + Header \in Nat /\ o + Header <= Limit
<1>1. o \in Units /\ o + 1 \in Units /\ o \in Nat /\ o + Header \in Units
  BY UnitsAre, RoomInBlock DEF HeaderFits, Fits
<1>2. /\ mem'[o] = InoUnit(i) /\ mem'[o + 1] = RecUnit(r, n)
      /\ \A u \in Units : u # o /\ u # o + 1 => mem'[u] = mem[u]
      /\ OpIs(o2, o + Header, next)
  BY <1>1, HeaderWritten
<1>3. Proper(InoUnit(i), o) /\ Proper(RecUnit(r, n), o + 1)
  BY <1>1, InoProper, RecProper
<1>4. o + Header \in Nat /\ o + Header <= Limit
  BY <1>1, UnitsAre, DirConstants, SMT DEF Header
<1> QED BY <1>2, <1>3, <1>4

LEMMA RangeKeeps ==
  ASSUME \A u \in Units : Proper(mem[u], u),
         NEW o \in Nat, NEW n \in Nat, NEW us, Len(us) = n, NEW next, NEW o2, Write(o, us, next, o2),
         \A i \in 1 .. n, u \in Units : Proper(us[i], u)
  PROVE  (\A u \in Units : Proper(mem'[u], u)) /\ OpIs(o2, o + n, next)
<1>1. /\ \A u \in Units : mem'[u] = IF o <= u /\ u < o + n THEN us[u - o + 1] ELSE mem[u]
      /\ OpIs(o2, o + n, next)
  BY RangeWritten
<1>2. ASSUME NEW u \in Units, o <= u, u < o + n PROVE u - o + 1 \in 1 .. n
  BY <1>2, UnitsAre, SMT
<1> QED BY <1>1, <1>2

-----------------------------------------------------------------------------
(* One step of the directory after the other.                               *)
(* A step that leaves the device and the requests alone.                    *)
LEMMA FittingIdle ==
  ASSUME Fitting, mem' = mem, size' = size, live' = live, torn' \in BOOLEAN,
         crashes' \in 0 .. MaxCrashes, WalkFits', WalkSees', OpFits', pc' \in Points,
         plan' \in {<<>>, MakeDots, MakeDotDot, DropDots, DropDot, DropSelf}
  PROVE  Fitting'
BY DEF Fitting

(* The values before the first header is read. *)
LEMMA NothingYet ==
  /\ Fits(0, 0) /\ (0 % BlockLen) + Header < BlockLen /\ 0 \in Units /\ Header \in Nat /\ NoWalk.at = 0 /\ NoWalk.before = 0
  /\ NoWalk.next = 0 /\ NoWalk.ino = 0 /\ NoWalk.rec = 0 /\ NoWalk.need = Header
  /\ NoWalk.buf = NoName
  /\ NoOp.kind = "none" /\ NoOp.at = 0
<1>1. 0 \in Units /\ Fits(0, 0) /\ (0 % BlockLen) + Header < BlockLen /\ Header \in Nat
  <2>1. 0 \in Nat /\ 0 < BlockLen /\ 0 % BlockLen = 0 /\ 0 < Limit
    BY DirConstants, SMT DEF Header
  <2>2. 0 + 0 + Header < BlockLen
    BY DirConstants, SMT DEF Header
  <2> QED BY <2>1, <2>2, DirConstants, SMT DEF Fits, Units, Header
<1> QED BY <1>1 DEF NoWalk, NoOp

LEMMA NoWalkFits ==
  ASSUME walk' = NoWalk
  PROVE  WalkFits' /\ walk'.at = 0 /\ walk'.before = 0 /\ walk'.rec = 0
<1>1. 0 = 0 + 0 /\ Header <= Header
  BY DirConstants, SMT DEF Header
<1> QED BY <1>1, NothingYet, DirConstants DEF WalkFits

LEMMA FittingInit ==
  ASSUME Init
  PROVE  Fitting
<1>1. \A u \in Units : mem[u] = Zero
  BY DEF Init
<1>2. 0 \in Units /\ Fits(0, 0) /\ (0 % BlockLen) + Header < BlockLen /\ Header \in Nat
  BY NothingYet
<1>3. WalkFits
  BY <1>2, DirConstants, SMT DEF Init, NoWalk, WalkFits
<1>4. WalkSees /\ OpFits
  BY <1>2, SMT DEF Init, NoOp, WalkSees, OpFits, Stage
<1>5. size \in Nat /\ size <= Limit /\ pc \in Points /\ crashes \in 0 .. MaxCrashes
  BY DirConstants, DirAssumption, SMT DEF Init, Points
<1>6. /\ plan \in {<<>>, MakeDots, MakeDotDot, DropDots, DropDot, DropSelf}
      /\ live \subseteq Units /\ torn \in BOOLEAN
  BY DEF Init, MakeDots
<1> QED BY <1>1, <1>3, <1>4, <1>5, <1>6, ZeroProper DEF Fitting

LEMMA FittingStart ==
  ASSUME Fitting, NEW t, Start(t), t.kind \in {"create", "unlink", "last"},
         t.kind = "create" => t.name \in Names /\ t.ino \in Inos,
         t.kind = "unlink" => t.name \in Names,
         plan' \in {<<>>, MakeDots, MakeDotDot, DropDots, DropDot, DropSelf}
  PROVE  Fitting'
<1>1. /\ walk' = NoWalk /\ pc' = "walk" /\ mem' = mem /\ size' = size /\ live' = live
      /\ torn' = torn /\ crashes' = crashes
  BY DEF Start
<1>2. op'.kind = t.kind /\ op'.name = t.name /\ op'.ino = t.ino /\ op'.at = 0
  BY DEF Start, NoOp
<1>3. WalkFits' /\ walk'.at = 0 /\ walk'.before = 0 /\ walk'.rec = 0
  BY <1>1, NoWalkFits
<1>4. size' > 0 => walk'.at < size'
  BY <1>3
<1>5. WalkSees'
  BY <1>1, <1>3, <1>4 DEF WalkSees
<1>6. OpFits'
  BY <1>1, <1>2, NothingYet DEF OpFits, Stage
<1>7. pc' \in Points /\ torn' \in BOOLEAN /\ crashes' \in 0 .. MaxCrashes
  BY <1>1 DEF Points, Fitting
<1> QED BY <1>1, <1>3, <1>5, <1>6, <1>7, FittingIdle

LEMMA FittingRequests ==
  ASSUME Fitting,
         \/ \E n \in NewNames, i \in Inodes : Create(n, i)
         \/ \E n \in Names : Unlink(n)
         \/ Rmdir \/ Continue
  PROVE  Fitting'
<1>1. ASSUME NEW n \in NewNames, NEW i \in Inodes, Create(n, i) PROVE Fitting'
  <2> DEFINE t == Task("create", n, i)
  <2>1. t.kind = "create" /\ t.name = n /\ t.ino = i /\ n \in Names /\ i \in Inos
    BY Plans, DirConstants DEF Inos
  <2>2. Start(t) /\ plan' = plan /\ plan = <<>>
    BY <1>1 DEF Create
  <2> HIDE DEF t
  <2> QED BY <2>1, <2>2, FittingStart
<1>2. ASSUME NEW n \in Names, Unlink(n) PROVE Fitting'
  <2> DEFINE t == Task("unlink", n, 0)
  <2>1. t.kind = "unlink" /\ t.name = n
    BY Plans
  <2>2. Start(t) /\ plan' = plan /\ plan = <<>>
    BY <1>2 DEF Unlink
  <2> HIDE DEF t
  <2> QED BY <2>1, <2>2, FittingStart
<1>3. CASE Rmdir
  <2> DEFINE t == Task("last", NoName, 0)
  <2>1. t.kind = "last"
    BY Plans
  <2>2. Start(t) /\ plan' = plan /\ plan = <<>>
    BY <1>3 DEF Rmdir
  <2> HIDE DEF t
  <2> QED BY <2>1, <2>2, FittingStart
<1>4. CASE Continue
  <2>1. plan \in {MakeDots, MakeDotDot, DropDots, DropDot}
    BY <1>4, Plans DEF Continue, Fitting
  <2>2. Start(Head(plan)) /\ plan' = Tail(plan)
    BY <1>4 DEF Continue
  <2>3. PICK t : t = Head(plan)
    OBVIOUS
  <2>4. /\ t.kind \in {"create", "unlink"} /\ t.name \in Names
        /\ t.kind = "create" => t.ino \in Inos
    BY <2>1, <2>3, Plans, DirConstants DEF Inos
  <2>5. plan' \in {<<>>, MakeDotDot, DropDot, DropSelf}
    BY <2>1, <2>2, Plans
  <2> QED BY <2>2, <2>3, <2>4, <2>5, FittingStart
<1> QED BY <1>1, <1>2, <1>3, <1>4

LEMMA FittingReturn ==
  ASSUME Fitting, Return, plan' \in {<<>>, MakeDots, MakeDotDot, DropDots, DropDot, DropSelf}
  PROVE  Fitting'
<1>1. /\ walk' = NoWalk /\ pc' = "rest" /\ op' = NoOp /\ mem' = mem /\ size' = size /\ live' = live
      /\ torn' = torn /\ crashes' = crashes
  BY DEF Return
<1>2. WalkFits' /\ WalkSees'
  BY <1>1, NoWalkFits DEF WalkSees
<1>3. OpFits'
  BY <1>1, NothingYet DEF OpFits, Stage
<1>4. pc' \in Points /\ torn' \in BOOLEAN /\ crashes' \in 0 .. MaxCrashes
  BY <1>1 DEF Points, Fitting
<1> QED BY <1>1, <1>2, <1>3, <1>4, FittingIdle

LEMMA FittingEnds ==
  ASSUME Fitting, Gone \/ NotFound \/ RmdirChecks \/ BeyondBound \/ Created \/ Unlinked \/ Crash
  PROVE  Fitting'
<1>1. CASE Gone
  <2>1. /\ pc = "rest" /\ pc' = "gone" /\ plan' = <<>> /\ UNCHANGED <<mem, size, op, walk, live, torn, crashes>>
    BY <1>1 DEF Gone
  <2>2. WalkFits' /\ WalkSees'
    BY <2>1 DEF Fitting, WalkFits, WalkSees
  <2>3. OpFits'
    BY <2>1 DEF Fitting, OpFits, Stage
  <2> QED BY <2>1, <2>2, <2>3, FittingIdle DEF Fitting, Points
<1>2. CASE NotFound \/ BeyondBound \/ Unlinked
  <2>1. Return /\ plan' = plan
    BY <1>2 DEF NotFound, BeyondBound, Unlinked
  <2> QED BY <2>1, FittingReturn DEF Fitting
<1>3. CASE RmdirChecks
  <2>1. Return /\ plan' \in {DropDots, <<>>}
    BY <1>3 DEF RmdirChecks, DropDots
  <2> QED BY <2>1, FittingReturn
<1>4. CASE Created
  <2>1. plan' = plan /\ pc = "assert"
    BY <1>4 DEF Created
  <2>2. CASE Return
    BY <2>1, <2>2, FittingReturn DEF Fitting
  <2>3. CASE pc' = "halted" /\ UNCHANGED <<mem, size, op, walk, live, torn, crashes>>
    <3>1. WalkFits' /\ WalkSees'
      BY <2>3 DEF Fitting, WalkFits, WalkSees
    <3>2. OpFits'
      BY <2>3 DEF Fitting, OpFits, Stage
    <3> QED BY <2>1, <2>3, <3>1, <3>2, FittingIdle DEF Fitting, Points
  <2> QED BY <1>4, <2>2, <2>3 DEF Created
<1>5. CASE Crash
  <2>1. /\ walk' = NoWalk /\ pc' = "rest" /\ op' = NoOp /\ mem' = mem /\ size' = size
        /\ live' = live /\ plan' = <<>> /\ crashes < MaxCrashes /\ crashes' = crashes + 1
    BY <1>5 DEF Crash
  <2>2. WalkFits' /\ WalkSees'
    BY <2>1, NoWalkFits DEF WalkSees
  <2>3. OpFits'
    BY <2>1, NothingYet DEF OpFits, Stage
  <2>4. crashes' \in 0 .. MaxCrashes
    BY <2>1, DirAssumption, SMT DEF Fitting
  <2>5. torn' \in BOOLEAN
    BY <1>5 DEF Crash, Fitting, InWindow
  <2> QED BY <2>1, <2>2, <2>3, <2>4, <2>5, FittingIdle DEF Points
<1> QED BY <1>1, <1>2, <1>3, <1>4, <1>5

(* The walk never leaves the units: the offset it goes on to has room for a *)
(* header, whatever the bytes are that it reads as one.                     *)
LEMMA FittingVisit ==
  ASSUME Fitting, Visit
  PROVE  Fitting'
<1> DEFINE o == walk.next
<1>1. /\ pc = "walk" /\ o < size /\ UNCHANGED <<mem, size, op, plan, live, torn, crashes>>
      /\ WalkFits /\ WalkSees /\ OpFits /\ size \in Nat /\ size <= Limit
      /\ torn \in BOOLEAN /\ crashes \in 0 .. MaxCrashes
  BY DEF Visit, Fitting
<1>2. o \in Nat /\ o < Limit /\ (o % BlockLen) + Header < BlockLen /\ o = walk.at + walk.rec
      /\ walk.at \in Nat /\ walk.rec \in Nat
  <2>1. o = walk.at + walk.rec /\ Fits(walk.at, walk.rec)
    BY <1>1 DEF WalkFits
  <2>2. o \in Nat /\ (o % BlockLen) + Header < BlockLen /\ walk.at \in Nat /\ walk.rec \in Nat
    BY <2>1, FitsNext
  <2> QED BY <1>1, <2>1, <2>2, DirConstants, SMT
<1>3. o \in Units /\ o + 1 \in Units /\ o + Header \in Units
  BY <1>2, RoomInBlock
<1>4. Proper(mem[o], o) /\ Proper(mem[o + 1], o + 1) /\ Proper(mem[o + Header], o + Header)
  BY <1>3 DEF Fitting
<1>6. CASE pc' = "garbled" /\ UNCHANGED walk
  <2>1. WalkFits' /\ WalkSees'
    BY <1>1, <1>6 DEF WalkFits, WalkSees
  <2>2. OpFits'
    BY <1>1, <1>6 DEF OpFits, Stage
  <2> QED BY <1>1, <1>6, <2>1, <2>2, FittingIdle DEF Fitting, Points
<1>7. CASE /\ mem[o].k \in {"zero", "ino"} /\ mem[o + 1].k \in {"zero", "rec"}
           /\ \E b \in NamesRead(o, mem[o + 1].b) :
                 /\ walk' = Visited(o, b)
                 /\ pc' = IF Stops(walk') THEN "found" ELSE "walk"
  <2> PICK b \in NamesRead(o, mem[o + 1].b) :
                 /\ walk' = Visited(o, b)
                 /\ pc' = IF Stops(walk') THEN "found" ELSE "walk"
    BY <1>7
  <2>1. /\ walk'.at = o /\ walk'.before = walk.at /\ walk'.next = o + mem[o + 1].a
        /\ walk'.ino = mem[o].a /\ walk'.rec = mem[o + 1].a /\ walk'.need = mem[o + 1].b
        /\ walk'.buf = b
    BY DEF Visited
  <2>2. mem[o].a \in Inos \cup {0}
    BY <1>4, <1>7, ZeroProper DEF Proper
  <2>3. /\ Fits(o, mem[o + 1].a) /\ mem[o + 1].b \in Nat /\ Header <= mem[o + 1].b
        /\ IF mem[o + 1].a = 0 THEN mem[o + 1].b = Header ELSE mem[o + 1].b <= mem[o + 1].a
        /\ mem[o + 1].a # 0 => mem[o + 1].k = "rec"
    <3>1. CASE mem[o + 1].k = "zero"
      <4>1. mem[o + 1].a = 0 /\ mem[o + 1].b = Header
        BY <1>4, <3>1, ZeroProper DEF Proper
      <4>2. Fits(o, 0) /\ Header \in Nat /\ Header <= Header
        <5>1. o % BlockLen \in Nat
          BY <1>2, BlockHolds
        <5> QED BY <1>2, <1>3, <5>1, SMT DEF Fits, Header
      <4> QED BY <4>1, <4>2
    <3>2. CASE mem[o + 1].k = "rec"
      <4>1. (o + 1) - 1 = o
        BY <1>2, SMT
      <4>2. HeaderFits(o, mem[o + 1].a, mem[o + 1].b)
        BY <1>4, <3>2, <4>1 DEF Proper
      <4>3. mem[o + 1].a # 0
        BY <4>2, SMT DEF HeaderFits, Header
      <4> QED BY <3>2, <4>2, <4>3 DEF HeaderFits
    <3> QED BY <1>7, <3>1, <3>2
  <2>4. b \in Names \cup {NoName} /\ (b \in Names => Need[b] <= mem[o + 1].b)
    <3>1. \A n, c : Cut(n, c) \in Names \cup {NoName} /\ (Cut(n, c) \in Names => Need[Cut(n, c)] <= c)
      BY DirConstants DEF Cut
    <3>2. b = NoName \/ \E n : b = Cut(n, mem[o + 1].b)
      BY DEF NamesRead
    <3> QED BY <3>1, <3>2, DirConstants
  <2>5. WalkFits'
    BY <1>1, <1>2, <2>1, <2>2, <2>3, <2>4 DEF WalkFits, Fits
  <2>6. WalkSees'
    <3>1. walk.at # o => Passed(walk.at, o - walk.at)
      <4>1. ASSUME walk.at # o PROVE walk.rec # 0 /\ o - walk.at = walk.rec
        BY <1>2, <4>1, SMT
      <4> QED BY <1>1, <4>1 DEF WalkSees
    <3>2. mem[o + 1].a # 0 => Passed(o, mem[o + 1].a)
      BY <1>7, <2>3 DEF Passed
    <3>3. pc' = "found" => Stops(walk')
      OBVIOUS
    <3>4. pc' = "found" => Stops(walk)'
      BY <1>1, <3>3 DEF Stops, FreeSpace
    <3> QED BY <1>1, <2>1, <3>1, <3>2, <3>4 DEF WalkSees, Passed
  <2>7. pc' \in {"walk", "found"}
    OBVIOUS
  <2>8. OpFits'
    BY <1>1, <2>7 DEF OpFits, Stage
  <2> QED BY <1>1, <2>5, <2>6, <2>7, <2>8, FittingIdle DEF Fitting, Points
<1> QED BY <1>6, <1>7 DEF Visit

LEMMA FittingSetSize ==
  ASSUME Fitting, SetSize
  PROVE  Fitting'
<1>1. /\ pc = "size" /\ size' = Larger(size, op.end) /\ pc' = op.next
      /\ UNCHANGED <<mem, walk, plan, live, torn, crashes>>
      /\ op'.kind = op.kind /\ op'.at = op.at /\ op'.name = op.name /\ op'.ino = op.ino
      /\ op'.rec = op.rec
  BY DEF SetSize
<1>2. op.end \in Nat /\ op.end <= Limit /\ op.next \in Places /\ Stage = op.next
  BY <1>1 DEF Fitting, OpFits, Stage
<1>3. size' \in Nat /\ size' <= Limit
  BY <1>1, <1>2 DEF Fitting, Larger
<1>4. WalkFits' /\ WalkSees'
  BY <1>1, <1>2 DEF Fitting, WalkFits, WalkSees, Places
<1>5. Stage' = Stage /\ pc' # "size"
  BY <1>1, <1>2 DEF Stage, Places
<1>6. OpFits'
  BY <1>1, <1>5 DEF Fitting, OpFits
<1> QED BY <1>1, <1>2, <1>3, <1>4, <1>6 DEF Fitting, Points

(* What is left of a write, when its units are proper.                      *)
LEMMA FittingWrite ==
  ASSUME Fitting, \A u \in Units : Proper(mem'[u], u), pc' = "size", UNCHANGED <<size, walk, plan, crashes>>,
         live' \subseteq Units, torn' \in BOOLEAN, NEW o2, NEW end \in Nat, end <= Limit,
         NEW next \in Places, OpIs(o2, end, next),
         o2.kind = op.kind, o2.name = op.name, o2.ino = op.ino, o2.at \in Units,
         next \in {"header", "name"} => /\ op.kind = "create" /\ Fits(o2.at, o2.rec)
                                        /\ Need[op.name] <= o2.rec,
         next \in {"wipe", "null", "nullname"} => walk.rec > Header
  PROVE  Fitting'
<1>1. WalkFits' /\ WalkSees'
  BY DEF Fitting, WalkFits, WalkSees
<1>2. Stage' = next
  BY DEF Stage, OpIs
<1>3. OpFits'
  BY <1>2 DEF Fitting, OpFits, OpIs
<1> QED BY <1>1, <1>3 DEF Fitting, Points

(* What is known of the entry that the walk has found.                      *)
LEMMA FoundEntry ==
  ASSUME Fitting, pc = "found"
  PROVE  /\ walk.at \in Nat /\ walk.rec \in Nat /\ walk.need \in Nat /\ walk.rec # 0
         /\ HeaderFits(walk.at, walk.rec, walk.need) /\ walk.rec > Header
         /\ Passed(walk.at, walk.rec) /\ (walk.at % BlockLen) + Header < BlockLen
         /\ op.kind = "unlink" => Header < walk.need
         /\ op.kind = "create" => /\ Need[op.name] <= FreeSpace(walk)
                                  /\ op.name \in Names /\ op.ino \in Inos
         /\ op.kind \in {"create", "unlink"}
<1>1. WalkFits /\ WalkSees /\ OpFits
  BY DEF Fitting
<1>2. Stops(walk) /\ Fits(walk.at, walk.rec) /\ walk.need \in Nat /\ Header <= walk.need
  BY <1>1 DEF WalkFits, WalkSees
<1>3. walk.at \in Nat /\ walk.rec \in Nat
  BY <1>2, FitsNext
<1>4. CASE op.kind = "unlink"
  <2>1. walk.buf \in Names
    BY <1>1, <1>2, <1>4 DEF Stops, OpFits
  <2>2. PICK n : n = walk.buf
    OBVIOUS
  <2>3. n \in Names /\ Need[n] <= walk.need
    BY <1>1, <2>1, <2>2 DEF WalkFits
  <2>4. Header < walk.need
    BY <1>2, <2>3, DirConstants, SMT DEF Header
  <2>5. walk.rec # 0
    BY <1>1, <1>2, <2>4, SMT DEF WalkFits, Header
  <2> QED BY <1>1, <1>2, <1>3, <1>4, <2>4, <2>5, FitsNext, SMT DEF WalkFits, WalkSees, HeaderFits, Header
<1>5. CASE op.kind = "create"
  <2>1. FreeSpace(walk) >= Need[op.name] /\ op.name \in Names /\ op.ino \in Inos
    BY <1>1, <1>2, <1>5 DEF Stops, OpFits
  <2>2. PICK n \in Names : n = op.name
    BY <2>1
  <2>3. Need[n] \in Nat /\ Need[n] > Header /\ FreeSpace(walk) >= Need[n]
    BY <2>1, <2>2, DirConstants
  <2>4. FreeSpace(walk) = walk.rec \/ FreeSpace(walk) = walk.rec - walk.need
    BY DEF FreeSpace
  <2>5. walk.rec > Header
    BY <1>2, <1>3, <2>3, <2>4, SMT DEF Header
  <2>6. walk.rec # 0 /\ FreeSpace(walk) \in Int
    BY <1>2, <1>3, <2>4, <2>5, SMT DEF Header
  <2>7. Need[op.name] <= FreeSpace(walk)
    BY <2>2, <2>3, <2>6, SMT
  <2> QED BY <1>1, <1>2, <1>3, <1>5, <2>1, <2>5, <2>6, <2>7, FitsNext DEF WalkFits, WalkSees, HeaderFits
<1> QED BY <1>2, <1>4, <1>5 DEF Stops

LEMMA FittingTakeNull ==
  ASSUME Fitting, TakeNull
  PROVE  Fitting'
<1>1. /\ pc = "found" /\ op.kind = "create" /\ walk.ino = 0 /\ pc' = "header"
      /\ UNCHANGED <<mem, size, walk, plan, live, torn, crashes>>
      /\ op'.kind = op.kind /\ op'.name = op.name /\ op'.ino = op.ino
      /\ op'.at = walk.at /\ op'.rec = walk.rec
  BY DEF TakeNull
<1>2. Fits(walk.at, walk.rec) /\ Need[op.name] <= walk.rec
  BY <1>1, FoundEntry DEF HeaderFits, FreeSpace
<1>3. walk.at \in Units
  BY <1>2 DEF Fits
<1>4. WalkFits' /\ WalkSees'
  BY <1>1 DEF Fitting, WalkFits, WalkSees
<1>5. OpFits'
  <2>1. Stage' = "header" /\ pc' # "size"
    BY <1>1 DEF Stage
  <2> QED BY <1>1, <1>2, <1>3, <2>1 DEF Fitting, OpFits
<1>6. pc' \in Points /\ torn' \in BOOLEAN /\ crashes' \in 0 .. MaxCrashes
  BY <1>1 DEF Fitting, Points, Places
<1> QED BY <1>1, <1>4, <1>5, <1>6, FittingIdle DEF Fitting

LEMMA FittingSplit ==
  ASSUME Fitting, Split
  PROVE  Fitting'
<1> DEFINE at == walk.at
           s  == at % BlockLen
           n  == walk.need
           r  == walk.rec
           o2 == [op EXCEPT !.at = at + n, !.rec = SplitRec, !.how = "split"]
           m  == Need[op.name]
<1>1. /\ pc = "found" /\ op.kind = "create" /\ walk.ino # 0 /\ UNCHANGED <<live, torn>>
      /\ Write(at, HeaderOf(walk.ino, n, n), "header", o2)
      /\ UNCHANGED <<size, walk, plan, crashes>> /\ pc' = "size"
  BY DEF Split, Write
<1>2. /\ at \in Nat /\ r \in Nat /\ n \in Nat /\ Header <= n /\ n <= r /\ Fits(at, r) /\ s + Header < BlockLen
      /\ m \in Nat /\ Header < m /\ m <= r - n
  BY <1>1, FoundEntry, DirConstants DEF HeaderFits, FreeSpace
<1>3. /\ s \in Nat /\ s + r <= BlockLen /\ at < Limit
      /\ (s + r = BlockLen \/ s + r + Header < BlockLen) /\ at \in Units /\ BlockLen \in Nat \ {0} /\ Limit \in Nat
  BY <1>2, UnitsAre, FitsNext, DirConstants DEF Fits
<1>4. SplitRec = r - n /\ o2.at = at + n /\ o2.rec = SplitRec /\ o2.kind = op.kind /\ o2.name = op.name
      /\ o2.ino = op.ino
  BY DEF SplitRec
<1>5. walk.ino \in Inos \cup {0}
  BY DEF Fitting, WalkFits
<1>6. at - s + BlockLen <= Limit
  BY <1>3, <1>2, BlockHolds
<1> HIDE DEF at, s, n, r, o2, m
<1>7. s + n + Header < BlockLen /\ s + n < BlockLen
  BY <1>2, <1>3, SMT DEF Header
<1>8. HeaderFits(at, n, n)
  BY <1>2, <1>3, <1>7, SMT DEF HeaderFits, Fits, s
<1>9. (at + n) % BlockLen = s + n
  BY <1>2, <1>3, <1>7, Within DEF s
<1>10. at + n \in Units
  BY <1>2, <1>3, <1>6, <1>7, SMT DEF Units, Header
<1>11. Fits(at + n, r - n) /\ m <= r - n
  BY <1>2, <1>3, <1>9, <1>10, SMT DEF Fits, Header
<1>12. /\ \A u \in Units : Proper(mem'[u], u)
       /\ OpIs(o2, at + Header, "header") /\ at + Header \in Nat /\ at + Header <= Limit
  <2>1. (at % BlockLen) + Header < BlockLen
    BY <1>2 DEF s
  <2> QED BY <1>1, <1>5, <1>8, <2>1, HeaderKeeps DEF Fitting
<1> QED BY <1>1, <1>4, <1>10, <1>11, <1>12, FittingWrite DEF Fitting, Places, m

LEMMA FittingGrow ==
  ASSUME Fitting, Grow
  PROVE  Fitting'
<1>1. /\ pc = "header" /\ size' = op.at + Header /\ UNCHANGED <<mem, pc, op, walk, plan, live, torn, crashes>>
  BY DEF Grow
<1>2. Fits(op.at, op.rec) /\ Need[op.name] <= op.rec /\ op.name \in Names
  BY <1>1 DEF Fitting, OpFits, Stage
<1>3. op.at \in Nat /\ op.at + op.rec <= Limit /\ op.rec \in Nat /\ op.rec > Header
  <2>1. PICK n \in Names : n = op.name
    BY <1>2
  <2>2. Need[n] \in Nat /\ Header < Need[n] /\ Need[n] <= op.rec
    BY <1>2, <2>1, DirConstants
  <2> QED BY <1>2, <2>2, FitsNext, SMT DEF Header
<1>4. size' \in Nat /\ size' <= Limit
  BY <1>1, <1>3, DirConstants, SMT DEF Header
<1>5. WalkFits' /\ WalkSees'
  BY <1>1 DEF Fitting, WalkFits, WalkSees
<1>6. OpFits'
  BY <1>1 DEF Fitting, OpFits, Stage
<1> QED BY <1>1, <1>4, <1>5, <1>6 DEF Fitting

(* The entry that is being made. *)
LEMMA EntryMade ==
  ASSUME Fitting, pc \in {"header", "name"}
  PROVE  /\ op.kind = "create" /\ op.name \in Names /\ op.ino \in Inos
         /\ op.at \in Nat /\ op.rec \in Nat /\ Fits(op.at, op.rec) /\ op.at \in Units
         /\ Need[op.name] \in Nat /\ Header < Need[op.name] /\ Need[op.name] <= op.rec
         /\ op.rec > Header /\ op.at + op.rec <= Limit
<1>1. /\ op.kind = "create" /\ op.name \in Names /\ op.ino \in Inos /\ Fits(op.at, op.rec)
      /\ Need[op.name] <= op.rec /\ op.at \in Units
  BY DEF Fitting, OpFits, Stage
<1>2. PICK n \in Names : n = op.name
  BY <1>1
<1>3. Need[n] \in Nat /\ Header < Need[n] /\ Need[n] <= op.rec
  BY <1>1, <1>2, DirConstants
<1>4. op.at \in Nat /\ op.rec \in Nat /\ op.at + op.rec <= Limit
  BY <1>1, FitsNext
<1>5. op.rec > Header
  BY <1>3, <1>4, SMT DEF Header
<1> QED BY <1>1, <1>2, <1>3, <1>4, <1>5

LEMMA FittingWriteHeader ==
  ASSUME Fitting, WriteHeader
  PROVE  Fitting'
<1> DEFINE at == op.at
           m  == Need[op.name]
<1>1. /\ pc = "header" /\ Write(at, HeaderOf(op.ino, op.rec, m), "name", op)
      /\ live' = live \cup {at} /\ torn' = torn
      /\ UNCHANGED <<size, walk, plan, crashes>> /\ pc' = "size"
  BY DEF WriteHeader, Write
<1>2. /\ op.kind = "create" /\ op.name \in Names /\ op.ino \in Inos
      /\ at \in Nat /\ op.rec \in Nat /\ Fits(at, op.rec) /\ at \in Units
      /\ m \in Nat /\ Header < m /\ m <= op.rec /\ op.rec > Header
  BY <1>1, EntryMade
<1> HIDE DEF at, m
<1>3. HeaderFits(at, op.rec, m) /\ (at % BlockLen) + Header < BlockLen
  <2>1. Header <= m
    BY <1>2, SMT DEF Header
  <2> QED BY <1>2, <2>1, FitsNext DEF HeaderFits
<1>4. /\ \A u \in Units : Proper(mem'[u], u)
      /\ OpIs(op, at + Header, "name") /\ at + Header \in Nat /\ at + Header <= Limit
  BY <1>1, <1>2, <1>3, HeaderKeeps DEF Fitting
<1>5. live' \subseteq Units /\ torn' \in BOOLEAN
  BY <1>1, <1>2 DEF Fitting
<1> QED BY <1>1, <1>2, <1>4, <1>5, FittingWrite DEF Places, at, m

LEMMA FittingWriteName ==
  ASSUME Fitting, WriteName
  PROVE  Fitting'
<1> DEFINE o  == op.at + Header
           n  == op.rec - Header
           us == NameIn(op.name, n)
           o2 == [op EXCEPT !.done = op.at + Header < size]
<1>1. /\ pc = "name" /\ Write(o, us, "assert", o2) /\ live' = live /\ torn' = torn
      /\ UNCHANGED <<size, walk, plan, crashes>> /\ pc' = "size"
  BY DEF WriteName, Write
<1>2. /\ op.kind = "create" /\ op.name \in Names /\ op.at \in Units
      /\ o \in Nat /\ n \in Nat \ {0} /\ o + n <= Limit /\ o + n \in Nat
  <2>1. /\ op.kind = "create" /\ op.name \in Names /\ op.at \in Units
        /\ op.at \in Nat /\ op.rec \in Nat /\ op.rec > Header /\ op.at + op.rec <= Limit
    BY <1>1, EntryMade
  <2> QED BY <2>1, SMT DEF Header
<1>3. Len(us) = n
  BY <1>2, NameBuffer
<1>4. \A i \in 1 .. n, u \in Units : Proper(us[i], u)
  BY <1>2, NameProper
<1>5. o2.kind = op.kind /\ o2.name = op.name /\ o2.ino = op.ino /\ o2.at = op.at
  OBVIOUS
<1> HIDE DEF o, n, us, o2
<1>6. (\A u \in Units : Proper(mem'[u], u)) /\ OpIs(o2, o + n, "assert")
  BY <1>1, <1>2, <1>3, <1>4, RangeKeeps DEF Fitting
<1> QED BY <1>1, <1>2, <1>5, <1>6, FittingWrite DEF Fitting, Places

LEMMA FittingWipes ==
  ASSUME Fitting, NullHeader \/ NullName \/ Wipe
  PROVE  Fitting'
<1> DEFINE at == walk.at
           r  == walk.rec
<1>1. at \in Nat /\ r \in Nat /\ Fits(at, r) /\ at + r <= Limit /\ at + r \in Nat /\ r > Header
      /\ (at % BlockLen) + Header < BlockLen /\ at \in Units /\ op.at \in Units
  <2>1. Fits(at, r) /\ at \in Units /\ op.at \in Units
    BY DEF Fitting, WalkFits, OpFits, Fits
  <2>2. r > Header
    <3>1. CASE pc = "found"
      BY <3>1, FoundEntry
    <3>2. CASE pc \in {"wipe", "null", "nullname"}
      BY <3>2 DEF Fitting, OpFits, Stage
    <3> QED BY <3>1, <3>2 DEF NullHeader, NullName, Wipe
  <2> QED BY <2>1, <2>2, FitsNext
<1>2. CASE NullHeader
  <2> DEFINE o2 == [op EXCEPT !.done = TRUE]
  <2>1. /\ Write(at, HeaderOf(0, r, Header), "nullname", o2) /\ live' = live /\ torn' = torn
        /\ UNCHANGED <<size, walk, plan, crashes>> /\ pc' = "size"
    BY <1>2 DEF NullHeader, Write
  <2>2. o2.kind = op.kind /\ o2.name = op.name /\ o2.ino = op.ino /\ o2.at = op.at
    OBVIOUS
  <2> HIDE DEF at, r, o2
  <2>3. HeaderFits(at, r, Header)
    BY <1>1, SMT DEF HeaderFits, Header
  <2>4. /\ \A u \in Units : Proper(mem'[u], u)
        /\ OpIs(o2, at + Header, "nullname") /\ at + Header \in Nat /\ at + Header <= Limit
    BY <1>1, <2>1, <2>3, HeaderKeeps DEF Fitting
  <2> QED BY <1>1, <2>1, <2>2, <2>4, FittingWrite DEF Fitting, Places, r
<1>3. CASE NullName
  <2> DEFINE o == at + Header
             n == r - Header
  <2>1. /\ Write(o, Zeros(n), "unlinked", op) /\ live' = live /\ torn' = torn
        /\ UNCHANGED <<size, walk, plan, crashes>> /\ pc' = "size"
    BY <1>3 DEF NullName, Write
  <2> HIDE DEF at, r
  <2>2. o \in Nat /\ n \in Nat /\ o + n <= Limit /\ o + n \in Nat
    BY <1>1, SMT DEF Header
  <2>3. Len(Zeros(n)) = n /\ \A i \in 1 .. n, u \in Units : Proper(Zeros(n)[i], u)
    BY <2>2, ZeroBuffer, ZeroProper
  <2> HIDE DEF o, n
  <2>4. (\A u \in Units : Proper(mem'[u], u)) /\ OpIs(op, o + n, "unlinked")
    BY <2>1, <2>2, <2>3, RangeKeeps DEF Fitting
  <2> QED BY <1>1, <2>1, <2>2, <2>4, FittingWrite DEF Fitting, Places
<1>4. CASE Wipe
  <2> DEFINE o2 == [op EXCEPT !.done = TRUE]
  <2>1. /\ Write(at, Zeros(r), "unlinked", o2) /\ live' = live \ {walk.at}
        /\ torn' = (torn \/ IsFirst)
        /\ UNCHANGED <<size, walk, plan, crashes>> /\ pc' = "size"
    BY <1>4 DEF Wipe, Wiped, Write
  <2>2. o2.kind = op.kind /\ o2.name = op.name /\ o2.ino = op.ino /\ o2.at = op.at
    OBVIOUS
  <2>3. live' \subseteq Units /\ torn' \in BOOLEAN
    BY <2>1 DEF Fitting, IsFirst
  <2> HIDE DEF at, r, o2
  <2>4. Len(Zeros(r)) = r /\ \A i \in 1 .. r, u \in Units : Proper(Zeros(r)[i], u)
    BY <1>1, ZeroBuffer, ZeroProper
  <2>5. (\A u \in Units : Proper(mem'[u], u)) /\ OpIs(o2, at + r, "unlinked")
    BY <1>1, <2>1, <2>4, RangeKeeps DEF Fitting
  <2> QED BY <1>1, <2>1, <2>2, <2>3, <2>5, FittingWrite DEF Fitting, Places
<1> QED BY <1>2, <1>3, <1>4

(* Rounding up to the end of the block that begins at e. *)
LEMMA AlignIn ==
  ASSUME NEW e \in Nat, e % BlockLen = 0, NEW x \in Nat, e < x, x <= e + BlockLen
  PROVE  Align(x) = e + BlockLen
<1>1. BlockLen \in Nat
  BY DirConstants
<1>2. PICK n \in Nat : n = x - e
  BY SMT
<1>3. n <= BlockLen /\ n # 0 /\ e + n = x
  BY <1>1, <1>2, SMT
<1> QED BY <1>3, Aligned

(* Where a new entry is appended to a walk that has ended.                  *)
LEMMA AppendFits ==
  ASSUME Fitting, Ended, op.kind = "create", NewStart + Need[op.name] <= Limit, size # 0
  PROVE  /\ walk.rec # 0 /\ HeaderFits(walk.at, NewStart - walk.at, walk.need)
         /\ NewStart \in Nat /\ NewStart \in Units
         /\ LET r == Align(Larger(NewStart + Need[op.name], size)) - NewStart
            IN  Fits(NewStart, r) /\ Need[op.name] <= r
<1> DEFINE at == walk.at
           s  == at % BlockLen
           n  == walk.need
           r  == walk.rec
           m  == Need[op.name]
           B  == BlockLen
           st == at + n
           N  == NewStart
<1>1. /\ pc = "walk" /\ walk.next >= size /\ size \in Nat /\ size <= Limit /\ WalkFits /\ WalkSees /\ OpFits
  BY DEF Ended, Fitting
<1>2. /\ at < size /\ walk.next = at + r /\ Fits(at, r) /\ n \in Nat /\ Header <= n
      /\ IF r = 0 THEN n = Header ELSE n <= r
  <2>1. size > 0
    BY <1>1, SMT
  <2> QED BY <1>1, <2>1 DEF WalkFits, WalkSees
<1>3. /\ at \in Nat /\ at < Limit /\ at \in Units /\ r \in Nat /\ s \in Nat /\ s + r <= B
      /\ (s + r = B \/ s + r + Header < B)
  BY <1>2, UnitsAre, FitsNext DEF Fits
<1>4. /\ B \in Nat \ {0} /\ Limit \in Nat /\ m \in Nat /\ Header < m /\ m <= B /\ Limit % B = 0
  <2>1. PICK k \in Names : k = op.name
    BY <1>1 DEF OpFits
  <2> QED BY <2>1, DirConstants
<1>5. /\ s < B /\ at - s \in Nat /\ (at - s) % B = 0 /\ at - s + B <= Limit
  BY <1>3, BlockHolds
<1>6. NewStart = IF B - (st % B) < m THEN st + (B - (st % B)) ELSE st
  BY <1>1, SMT DEF NewStart
<1>7. NewStart + m <= Limit
  OBVIOUS
<1> HIDE DEF at, s, n, r, m, B, st, N
<1>8. r # 0 /\ n <= r /\ size <= at + r
  BY <1>1, <1>2, <1>3, SMT
<1>9. s + n <= B /\ st = at + n /\ st \in Nat
  BY <1>2, <1>3, <1>4, <1>8, SMT DEF st
<1>10. s + n = B => st % B = 0
  BY <1>2, <1>3, <1>4, <1>9, Upto DEF s, B
<1>11. s + n < B => st % B = s + n
  BY <1>2, <1>3, <1>4, <1>9, Within DEF s, B
<1> DEFINE e == at - s
<1>12. e \in Nat /\ e % B = 0 /\ e + B <= Limit /\ at = e + s /\ (e + B) % B = 0
  <2>1. e \in Nat /\ e % B = 0 /\ e + B <= Limit /\ at = e + s
    BY <1>3, <1>4, <1>5, SMT
  <2>2. (e + B) % B = 0
    <3>1. 0 + B = B /\ B - 0 = B
      BY <1>4, SMT
    <3>2. (e % B) + B = B
      BY <1>4, <2>1, SMT
    <3> HIDE DEF e
    <3> QED BY <1>4, <2>1, <3>2, Upto
  <2> QED BY <2>1, <2>2
<1> HIDE DEF e
<1>13. CASE N = e + B
  <2>1. HeaderFits(at, N - at, n)
    BY <1>2, <1>3, <1>4, <1>9, <1>12, <1>13, SMT DEF HeaderFits, Fits, s, B
  <2>2. N \in Nat /\ N \in Units /\ N % B = 0
    BY <1>4, <1>7, <1>12, <1>13, SMT DEF N, Units, Header
  <2>3. size <= N
    BY <1>1, <1>3, <1>4, <1>8, <1>12, <1>13, SMT
  <2>4. Larger(N + m, size) = N + m
    <3>1. N + m >= size
      BY <1>1, <1>4, <2>2, <2>3, SMT
    <3> QED BY <3>1 DEF Larger
  <2>5. Align(N + m) = N + B
    <3>1. N + m \in Nat /\ N < N + m /\ N + m <= N + B
      BY <1>4, <2>2, SMT DEF Header
    <3> QED BY <2>2, <3>1, AlignIn DEF B
  <2>6. Align(Larger(N + m, size)) - N = B
    BY <1>4, <2>2, <2>4, <2>5, SMT
  <2>7. Fits(N, B) /\ m <= B
    BY <1>4, <2>2, SMT DEF Fits, B
  <2> QED BY <1>8, <2>1, <2>2, <2>6, <2>7 DEF N, at, n, r, m
<1>14. CASE N = st /\ s + n + m <= B
  <2>0. s + n < B /\ st % B = s + n
    BY <1>2, <1>3, <1>4, <1>11, <1>14, SMT DEF Header
  <2>1. HeaderFits(at, N - at, n)
    BY <1>2, <1>3, <1>4, <1>9, <1>14, <2>0, SMT DEF HeaderFits, Fits, s, Header, B
  <2>2. N \in Nat /\ N \in Units /\ N + m \in Nat
    BY <1>4, <1>7, <1>9, <1>14, SMT DEF N, Units, Header
  <2>3. PICK x \in Nat : x = Larger(N + m, size)
    BY <1>1, <2>2 DEF Larger
  <2>4. e < x /\ x <= e + B
    BY <1>1, <1>2, <1>3, <1>4, <1>8, <1>9, <1>12, <1>14, <2>2, <2>3, SMT DEF Larger, Header
  <2>5. Align(x) = e + B
    BY <1>12, <2>4, AlignIn DEF B
  <2>6. Align(Larger(N + m, size)) - N = B - (s + n)
    BY <1>2, <1>3, <1>4, <1>9, <1>12, <1>14, <2>3, <2>5, SMT
  <2>7. Fits(N, B - (s + n)) /\ m <= B - (s + n)
    BY <1>2, <1>3, <1>4, <1>14, <2>0, <2>2, SMT DEF Fits, B
  <2> QED BY <1>8, <2>1, <2>2, <2>6, <2>7 DEF N, at, n, r, m
<1>15. (N = e + B) \/ (N = st /\ s + n + m <= B)
  <2>1. CASE s + n = B
    BY <1>2, <1>3, <1>4, <1>6, <1>9, <1>10, <1>12, <2>1, SMT DEF N
  <2>2. CASE s + n < B
    BY <1>2, <1>3, <1>4, <1>6, <1>9, <1>11, <1>12, <2>2, SMT DEF N
  <2> QED BY <1>2, <1>3, <1>4, <1>9, <2>1, <2>2, SMT
<1> QED BY <1>13, <1>14, <1>15

LEMMA FittingAppend ==
  ASSUME Fitting, AppendEntry
  PROVE  Fitting'
<1> DEFINE m  == Need[op.name]
           rc == Align(Larger(NewStart + m, size)) - NewStart
           o2 == [op EXCEPT !.at = NewStart, !.how = "append", !.rec = rc]
<1>1. /\ Ended /\ op.kind = "create" /\ NewStart + m <= Limit /\ UNCHANGED <<live, torn>>
      /\ pc = "walk" /\ op.name \in Names
  BY DEF AppendEntry, Ended, Fitting, OpFits
<1>2. o2.kind = op.kind /\ o2.name = op.name /\ o2.ino = op.ino /\ o2.at = NewStart /\ o2.rec = rc
  OBVIOUS
<1>3. CASE size = 0
  <2>1. op' = o2 /\ pc' = "header" /\ UNCHANGED <<mem, size, walk, plan, crashes>>
    BY <1>3 DEF AppendEntry
  <2>2. PICK n \in Nat : n = m /\ n <= BlockLen /\ Header < n
    <3>1. PICK k \in Names : k = op.name
      BY <1>1
    <3> QED BY <3>1, DirConstants
  <2>3. BlockLen \in Nat \ {0} /\ 0 \in Units /\ 0 % BlockLen = 0
    BY DirConstants, NothingYet, SMT
  <2>4. NewStart = 0
    BY <1>3, <2>2, <2>3, SMT DEF NewStart
  <2>5. rc = BlockLen
    <3>1. Larger(NewStart + m, size) = n
      BY <1>3, <2>2, <2>4, SMT DEF Larger
    <3>2. Align(n) = 0 + BlockLen
      BY <2>2, <2>3, AlignIn, SMT DEF Header
    <3> QED BY <2>3, <2>4, <3>1, <3>2, SMT
  <2> HIDE DEF rc, o2, m
  <2>6. Fits(0, BlockLen) /\ m <= BlockLen
    BY <2>2, <2>3, SMT DEF Fits
  <2>7. WalkFits' /\ WalkSees'
    BY <2>1 DEF Fitting, WalkFits, WalkSees
  <2>8. OpFits'
    <3>1. Stage' = "header" /\ pc' # "size"
      BY <2>1 DEF Stage
    <3>2. /\ op'.kind = op.kind /\ op'.name = op.name /\ op'.ino = op.ino /\ op'.at = 0
          /\ op'.rec = BlockLen
      BY <1>2, <2>1, <2>4, <2>5
    <3> QED BY <1>1, <2>3, <2>6, <3>1, <3>2 DEF Fitting, OpFits, m
  <2>9. pc' \in Points /\ torn' \in BOOLEAN /\ crashes' \in 0 .. MaxCrashes /\ live' = live
    BY <1>1, <2>1 DEF Fitting, Points, Places
  <2> QED BY <2>1, <2>7, <2>8, <2>9, FittingIdle DEF Fitting
<1>4. CASE size # 0
  <2>1. /\ Write(walk.at, HeaderOf(walk.ino, NewStart - walk.at, walk.need), "header", o2)
        /\ UNCHANGED <<size, walk, plan, crashes>> /\ pc' = "size"
    BY <1>4 DEF AppendEntry, Write
  <2>2. /\ walk.rec # 0 /\ HeaderFits(walk.at, NewStart - walk.at, walk.need)
        /\ NewStart \in Nat /\ NewStart \in Units /\ Fits(NewStart, rc) /\ m <= rc
    BY <1>1, <1>4, AppendFits
  <2>3. walk.ino \in Inos \cup {0}
    BY DEF Fitting, WalkFits
  <2>4. (walk.at % BlockLen) + Header < BlockLen
    BY DEF Fitting, WalkFits
  <2> HIDE DEF rc, o2, m
  <2>5. /\ \A u \in Units : Proper(mem'[u], u)
        /\ OpIs(o2, walk.at + Header, "header")
        /\ walk.at + Header \in Nat /\ walk.at + Header <= Limit
    BY <2>1, <2>2, <2>3, <2>4, HeaderKeeps DEF Fitting
  <2> QED BY <1>1, <1>2, <2>1, <2>2, <2>5, FittingWrite DEF Fitting, Places, m
<1> QED BY <1>3, <1>4

(* An entry that goes leaves its room to the one before, up to the end of   *)
(* the block that this one is in.                                           *)
LEMMA FittingLengthen ==
  ASSUME Fitting, Lengthen
  PROVE  Fitting'
<1> DEFINE at  == walk.at
           r   == walk.rec
           bf  == walk.before
           s   == bf % BlockLen
           a   == mem[bf + 1].a
           n   == mem[bf + 1].b
           rec == IF CrossesBlock THEN BlockLen - s ELSE RecBefore
           o2  == [op EXCEPT !.done = ~CrossesBlock]
           nx  == IF CrossesBlock THEN "null" ELSE "wipe"
<1>1. /\ pc = "found" /\ op.kind = "unlink" /\ at # bf
      /\ Write(bf, HeaderOf(mem[bf].a, rec, n), nx, o2)
      /\ live' = (IF CrossesBlock THEN live ELSE live \ {walk.at}) /\ torn' = torn
      /\ UNCHANGED <<size, walk, plan, crashes>> /\ pc' = "size"
  BY DEF Lengthen, Write, IsFirst
<1>2. /\ WalkFits /\ WalkSees /\ OpFits /\ \A u \in Units : Proper(mem[u], u)
  BY DEF Fitting
<1>3. /\ Fits(at, r) /\ bf \in Units /\ Passed(bf, at - bf) /\ r > Header
  BY <1>1, <1>2, FoundEntry DEF WalkFits, WalkSees
<1>4. bf \in Nat /\ bf < Limit /\ bf + 1 \in Units /\ BlockLen \in Nat \ {0}
      /\ s \in Nat /\ s < BlockLen /\ bf - s + BlockLen <= Limit /\ s + Header < BlockLen
  <2>1. bf \in Nat /\ bf < Limit /\ BlockLen \in Nat \ {0} /\ BlockLen >= 2 * (Header + 1) /\ Limit \in Nat
    BY <1>3, UnitsAre, DirConstants
  <2>2. /\ s \in Nat /\ s < BlockLen /\ bf - s + BlockLen <= Limit
    BY <2>1, BlockHolds
  <2>3. s + Header < BlockLen
    BY <1>2 DEF WalkFits
  <2>4. bf + 1 \in Units
    BY <2>1, <2>3, RoomInBlock
  <2> QED BY <2>1, <2>2, <2>3, <2>4
<1>5. HeaderFits(bf, a, n) /\ a = at - bf /\ mem[bf].a \in Inos \cup {0}
  <2>1. Proper(mem[bf], bf) /\ Proper(mem[bf + 1], bf + 1) /\ (bf + 1) - 1 = bf
    BY <1>2, <1>3, <1>4, SMT
  <2>2. mem[bf].a \in Inos \cup {0}
    BY <1>3, <2>1, ZeroProper DEF Passed, Proper
  <2> QED BY <1>3, <2>1, <2>2 DEF Passed, Proper
<1>6. /\ RecBefore = a + r
      /\ CrossesBlock <=> s + RecBefore > BlockLen
  BY <1>1 DEF RecBefore, CrossesBlock, IsFirst
<1>7. o2.kind = op.kind /\ o2.name = op.name /\ o2.ino = op.ino /\ o2.at = op.at
  OBVIOUS
<1>8. nx \in {"null", "wipe"} /\ op.at \in Units /\ live' \subseteq Units
  BY <1>1, <1>2 DEF Fitting, OpFits
<1>9. /\ rec = (IF CrossesBlock THEN BlockLen - s ELSE RecBefore)
  OBVIOUS
<1> HIDE DEF at, r, bf, s, a, n, rec, o2, nx
<1>10. HeaderFits(bf, rec, n)
  <2>1. /\ at \in Nat /\ r \in Nat /\ a \in Nat /\ n \in Nat /\ Header <= n /\ n <= a /\ s + a <= BlockLen
        /\ at = bf + a
    <3>1. at \in Nat /\ r \in Nat /\ a \in Nat /\ s + a <= BlockLen /\ n \in Nat /\ Header <= n /\ n <= a
      BY <1>3, <1>5, FitsNext DEF HeaderFits, s
    <3> QED BY <1>4, <1>5, <3>1, SMT
  <2>2. CASE CrossesBlock
    <3>1. rec = BlockLen - s
      BY <1>9, <2>2
    <3>2. rec \in Nat /\ s + rec = BlockLen /\ n <= rec
      BY <1>4, <2>1, <3>1, SMT
    <3> QED BY <1>3, <2>1, <3>2 DEF HeaderFits, Fits, s
  <2>3. CASE ~CrossesBlock
    <3>1. rec = a + r /\ s + rec <= BlockLen
      BY <1>4, <1>6, <1>9, <2>1, <2>3, SMT
    <3>2. s + a < BlockLen /\ rec \in Nat /\ n <= rec
      BY <1>3, <1>4, <2>1, <3>1, SMT DEF Header
    <3>3. at % BlockLen = s + a
      BY <1>4, <2>1, <3>2, Within DEF s
    <3>4. s + rec = BlockLen \/ s + rec + Header < BlockLen
      BY <1>3, <1>4, <2>1, <3>1, <3>3, SMT DEF Fits, Header
    <3> QED BY <1>3, <2>1, <3>2, <3>4 DEF HeaderFits, Fits, s
  <2> QED BY <2>2, <2>3
<1>11. /\ \A u \in Units : Proper(mem'[u], u)
       /\ OpIs(o2, bf + Header, nx) /\ bf + Header \in Nat /\ bf + Header <= Limit
  <2>1. (bf % BlockLen) + Header < BlockLen
    BY <1>4 DEF s
  <2> QED BY <1>1, <1>2, <1>5, <1>10, <2>1, HeaderKeeps
<1> QED BY <1>1, <1>3, <1>7, <1>8, <1>11, FittingWrite DEF Fitting, Places, r

LEMMA FittingNext ==
  ASSUME Fitting, [Next]_vars
  PROVE  Fitting'
<1>1. CASE UNCHANGED vars
  <2>1. UNCHANGED <<mem, size, pc, op, walk, plan, live, torn, crashes>>
    BY <1>1 DEF vars
  <2>2. WalkFits' /\ WalkSees'
    BY <2>1 DEF Fitting, WalkFits, WalkSees, Passed, Stops, FreeSpace
  <2>3. OpFits'
    BY <2>1 DEF Fitting, OpFits, Stage
  <2> QED BY <2>1, <2>2, <2>3 DEF Fitting
<1>2. CASE Step
  BY <1>2, FittingRequests, FittingEnds, FittingVisit, FittingSetSize, FittingTakeNull, FittingSplit,
    FittingAppend, FittingGrow, FittingWriteHeader, FittingWriteName, FittingLengthen,
    FittingWipes DEF Step
<1> QED BY <1>1, <1>2, FittingRequests, FittingEnds DEF Next, Stopped

(* A directory of any size, intact or damaged, after any number of crashes: *)
(* no header that is ever read leads out of its block or to an offset       *)
(* without room for a header, so that walks stay in the directory and what  *)
(* they lead to being written ends within its blocks.                       *)
THEOREM DirTypeCorrect == Spec => []TypeOK
<1>1. Init => Fitting
  BY FittingInit
<1>2. Fitting /\ [Next]_vars => Fitting'
  BY FittingNext
<1>3. Fitting => TypeOK
  <2> SUFFICES ASSUME Fitting PROVE TypeOK
    OBVIOUS
  <2>1. ASSUME NEW u \in Units
        PROVE  /\ mem[u].k \in {"zero", "ino", "rec", "text", "more"}
               /\ mem[u].k = "ino" => mem[u].a \in Inodes \cup {Self, Parent}
               /\ mem[u].k = "rec" => mem[u].a \in 0 .. BlockLen
               /\ mem[u].b \in 0 .. BlockLen /\ mem[u].name \in Names \cup {NoName}
    <3>1. Proper(mem[u], u)
      BY DEF Fitting
    <3>2. ASSUME mem[u].k = "rec" PROVE mem[u].a \in 0 .. BlockLen
      <4>1. HeaderFits(u - 1, mem[u].a, mem[u].b)
        BY <3>1, <3>2 DEF Proper
      <4>2. mem[u].a \in Nat /\ mem[u].a <= BlockLen
        BY <4>1, FitsNext DEF HeaderFits
      <4> QED BY <4>2, DirConstants, SMT
    <3> QED BY <3>1, <3>2 DEF Proper, Inos
  <2>2. size \in 0 .. Limit /\ Limit \in Nat
    BY DirConstants, SMT DEF Fitting
  <2>3. walk.at \in Units /\ walk.before \in Units /\ walk.next \in 0 .. Limit
    <3>1. Fits(walk.at, walk.rec) /\ walk.before \in Units /\ walk.next = walk.at + walk.rec
      BY DEF Fitting, WalkFits
    <3>2. walk.next \in Nat /\ walk.next <= Limit
      BY <3>1, FitsNext
    <3> QED BY <2>2, <3>1, <3>2, SMT DEF Fits
  <2>4. Len(plan) <= 3
    <3>1. \A a, b, c : Len(<<a>>) = 1 /\ Len(<<a, b>>) = 2 /\ Len(<<a, b, c>>) = 3
      OBVIOUS
    <3>2. /\ Len(MakeDots) = 2 /\ Len(MakeDotDot) = 1 /\ Len(DropDots) = 3 /\ Len(DropDot) = 2
          /\ Len(DropSelf) = 1
      BY <3>1 DEF MakeDots, MakeDotDot, DropDots, DropDot, DropSelf
    <3>3. Len(<<>>) = 0
      BY SMT
    <3>4. Len(plan) \in {0, 1, 2, 3}
      <4>1. plan \in {<<>>, MakeDots, MakeDotDot, DropDots, DropDot, DropSelf}
        BY DEF Fitting
      <4>2. /\ plan = <<>> => Len(plan) = 0
            /\ plan = MakeDots => Len(plan) = 2
            /\ plan = MakeDotDot => Len(plan) = 1
            /\ plan = DropDots => Len(plan) = 3
            /\ plan = DropDot => Len(plan) = 2
            /\ plan = DropSelf => Len(plan) = 1
        BY <3>2, <3>3
      <4> HIDE DEF MakeDots, MakeDotDot, DropDots, DropDot, DropSelf
      <4> QED BY <4>1, <4>2
    <3>5. PICK k \in {0, 1, 2, 3} : k = Len(plan)
      BY <3>4
    <3>6. k <= 3
      BY SMT
    <3> QED BY <3>5, <3>6
  <2> QED BY <2>1, <2>2, <2>3, <2>4 DEF TypeOK, Fitting, OpFits, Points, Places
<1> QED BY <1>1, <1>2, <1>3, PTL DEF Spec
=============================================================================
