-------------------------- MODULE FunctionsProofs ---------------------------
(***************************************************************************)
(* Facts about the functions that keep no state: the block-group           *)
(* arithmetic, for every volume, block size and inode-table position, and  *)
(* get_indirect_blocks, for every block size and number of direct entries: *)
(* the path it computes is inside the tree and belongs to one block of the *)
(* file only, and no path is left out.  Then what MCFunctions checks of    *)
(* them, for volumes of every size, and parse_buf, for lines of every      *)
(* length.                                                                 *)
(***************************************************************************)
EXTENDS MCFunctions, WellFoundedInduction, TLAPS

(* Induction over the natural numbers, in terms of sets.                    *)
LEMMA LeastOne ==
  ASSUME NEW T, T \subseteq Nat, T # {}
  PROVE  \E n \in T : \A k \in T : n <= k
<1> DEFINE R == {p \in Nat \X Nat : p[1] < p[2]}
<1>1. R = OpToRel(<, Nat)
  BY Zenon DEF OpToRel
<1>2. IsWellFoundedOn(R, Nat)
  BY <1>1, NatLessThanWellFounded, Zenon
<1>3. PICK n \in T : \A k \in T : ~(<<k, n>> \in R)
  BY <1>2, WFMin, Zenon
<1>4. ASSUME NEW k \in T PROVE n <= k
  <2>1. <<k, n>> \notin R
    BY <1>3
  <2> QED BY <2>1, SMT
<1> QED BY <1>4

LEMMA SetInduction ==
  ASSUME NEW S, 0 \in S, \A n \in Nat : n \in S => n + 1 \in S
  PROVE  Nat \subseteq S
<1> SUFFICES ASSUME Nat \ S # {} PROVE FALSE
  OBVIOUS
<1>1. PICK n \in Nat \ S : \A k \in Nat \ S : n <= k
  <2> DEFINE T == Nat \ S
  <2>1. T \subseteq Nat /\ T # {}
    OBVIOUS
  <2> HIDE DEF T
  <2>2. \E n \in T : \A k \in T : n <= k
    BY <2>1, LeastOne
  <2> QED BY <2>2 DEF T
<1>2. n # 0 /\ n \in Nat
  OBVIOUS
<1>3. n - 1 \in Nat /\ (n - 1) + 1 = n /\ ~(n <= n - 1)
  BY <1>2, SMT
<1>4. n - 1 \in S
  BY <1>1, <1>3
<1> QED BY <1>3, <1>4

-----------------------------------------------------------------------------

(* Dividing a group's start plus a position inside the group gives the      *)
(* group back.                                                              *)
LEMMA DivGroup ==
  ASSUME NEW B \in Nat \ {0}, NEW g \in Nat, NEW r \in Nat, r < B
  PROVE  (g * B + r) \div B = g
BY SMT

(* There are enough groups for every start below the block count.           *)
LEMMA GroupCountBound ==
  ASSUME NEW B \in Nat \ {0}, NEW g \in Nat, NEW c \in Nat, g * B < c
  PROVE  g <= ((c + (B - 1)) \div B) - 1
BY SMT

(* The count is the least one that covers the blocks.                       *)
LEMMA GroupCountLeast ==
  ASSUME NEW B \in Nat \ {0}, NEW c \in Nat \ {0}
  PROVE  LET n == (c + (B - 1)) \div B
         IN  n \in Nat \ {0} /\ (n - 1) * B < c /\ c <= n * B
BY SMT

(* num_block_groups is a positive number, and its groups cover the volume.  *)
LEMMA GroupsNumber ==
  ASSUME NEW sb, SuperblockOK(sb)
  PROVE  /\ num_block_groups(sb) \in Nat \ {0}
         /\ (num_block_groups(sb) - 1) * sb.s_blocks_per_group < sb.s_blocks_count
         /\ sb.s_blocks_count <= num_block_groups(sb) * sb.s_blocks_per_group
<1>1. sb.s_blocks_per_group \in Nat \ {0} /\ sb.s_blocks_count \in Nat \ {0}
  BY SMT DEF SuperblockOK
<1> QED BY <1>1, GroupCountLeast DEF num_block_groups

(* first_bit of an existing group does not wrap.                            *)
LEMMA FirstBit ==
  ASSUME NEW sb, SuperblockOK(sb), NEW table, NEW g \in GroupsOf(sb),
         GroupOK(sb, table, g)
  PROVE  /\ first_bit(sb, table, g) \in Nat
         /\ first_bit(sb, table, g)
              = table[g] + sb.s_table_blocks - blk_group_to_blk_num(sb, g)
         /\ first_bit(sb, table, g) <= sb.s_blocks_per_group
<1>1. num_block_groups(sb) \in Nat /\ g \in Nat
  BY GroupsNumber, SMT DEF GroupsOf
<1>2. blk_group_to_blk_num(sb, g) \in Nat
  BY <1>1, SMT DEF blk_group_to_blk_num, SuperblockOK
<1> QED
  BY <1>1, <1>2, SMT DEF first_bit, Sub32, get_first_data_block, GroupOK, SuperblockOK

(* The block allocate_block reports for a bit of group g is the one that    *)
(* many blocks behind the group's start, and deallocate_block, given that   *)
(* block, clears the same bit of the same group.                            *)
THEOREM BlockBitRoundTrip ==
  ASSUME NEW sb, SuperblockOK(sb), NEW table, NEW g \in GroupsOf(sb),
         GroupOK(sb, table, g),
         NEW bit \in 0 .. sb.s_blocks_per_group - 1
  PROVE  LET b == bit_to_blk(sb, table, g, bit)
         IN  /\ b = blk_group_to_blk_num(sb, g) + bit
             /\ blk_num_to_blk_group(sb, b) = g
             /\ blk_to_bit(sb, b) = bit
<1> DEFINE B == sb.s_blocks_per_group
           F == sb.s_first_data_block
           start == blk_group_to_blk_num(sb, g)
           b == bit_to_blk(sb, table, g, bit)
<1>1. num_block_groups(sb) \in Nat /\ g \in Nat /\ B \in Nat \ {0} /\ F \in {0, 1}
  BY GroupsNumber, SMT DEF GroupsOf, SuperblockOK
<1>2. bit \in Nat /\ bit < B
  BY <1>1, SMT
<1>3. g * B \in Nat /\ start = g * B + F
  BY <1>1, SMT DEF blk_group_to_blk_num
<1>4. b = start + bit
  BY <1>1, <1>2, <1>3, FirstBit, SMT
     DEF bit_to_blk, get_first_data_block, Sub32, GroupOK, SuperblockOK
<1>5. Sub32(b, F) = g * B + bit
  <2> HIDE DEF b
  <2> QED BY <1>1, <1>2, <1>3, <1>4, SMT DEF Sub32
<1>6. blk_num_to_blk_group(sb, b) = g
  BY <1>1, <1>2, <1>5, DivGroup DEF blk_num_to_blk_group
<1>7. Sub32(b, start) = bit
  <2> HIDE DEF b, start
  <2> QED BY <1>1, <1>2, <1>3, <1>4, SMT DEF Sub32
<1>8. blk_to_bit(sb, b) = bit
  BY <1>6, <1>7 DEF blk_to_bit
<1> QED BY <1>4, <1>6, <1>8

(* The scan of an existing group reaches every existing block behind the    *)
(* inode table: last_bit is never too small.                                *)
THEOREM ScanReachesAll ==
  ASSUME NEW sb, SuperblockOK(sb), NEW table, NEW g \in GroupsOf(sb),
         GroupOK(sb, table, g), NEW bit \in ExistingBits(sb, g),
         first_bit(sb, table, g) <= bit
  PROVE  bit \in ScanRange(sb, table, g)
<1>1. num_block_groups(sb) \in Nat /\ g \in Nat /\ bit \in Nat
  BY GroupsNumber, SMT DEF GroupsOf, ExistingBits
<1>2. g * sb.s_blocks_per_group \in Nat
  BY <1>1, SMT DEF SuperblockOK
<1>3. bit <= last_bit(sb, g) /\ last_bit(sb, g) \in Int
  BY <1>1, <1>2, SMT
     DEF last_bit, ExistingBits, blk_group_to_blk_num, SuperblockOK
<1> QED BY <1>1, <1>3, FirstBit, SMT DEF ScanRange

(* The scan stays inside the group's bitmap: last_bit never passes the last *)
(* position of a group, though it may pass the last block of the volume.    *)
THEOREM ScanInBitmap ==
  ASSUME NEW sb, SuperblockOK(sb), NEW table, NEW g \in GroupsOf(sb),
         GroupOK(sb, table, g), NEW bit \in ScanRange(sb, table, g)
  PROVE  bit \in 0 .. sb.s_blocks_per_group - 1
<1>1. num_block_groups(sb) \in Nat /\ g \in Nat
  BY GroupsNumber, SMT DEF GroupsOf
<1>2. first_bit(sb, table, g) \in Nat
  BY FirstBit
<1>3. last_bit(sb, g) <= sb.s_blocks_per_group - 1 /\ last_bit(sb, g) \in Int
  <2>1. CASE g = num_block_groups(sb) - 1
    <3>1. sb.s_blocks_count <= (g + 1) * sb.s_blocks_per_group
      BY <2>1, <1>1, GroupsNumber, SMT
    <3>2. g * sb.s_blocks_per_group \in Nat
      BY <1>1, SMT DEF SuperblockOK
    <3>3. (g + 1) * sb.s_blocks_per_group
            = g * sb.s_blocks_per_group + sb.s_blocks_per_group
      BY <1>1, SMT DEF SuperblockOK
    <3> QED BY <2>1, <3>1, <3>2, <3>3, SMT DEF last_bit, SuperblockOK
  <2>2. CASE g # num_block_groups(sb) - 1
    BY <2>2, SMT DEF last_bit, SuperblockOK
  <2> QED BY <2>1, <2>2
<1> QED BY <1>2, <1>3, SMT DEF ScanRange, SuperblockOK

(* The group num_block_groups counts too many, whose descriptor is zero, is *)
(* skipped by the block scan: its first bit wraps past every bit position.  *)
THEOREM PhantomGroupSkipped ==
  ASSUME NEW sb, SuperblockOK(sb), NEW table, NEW g \in GroupsOf(sb),
         blk_group_to_blk_num(sb, g) >= sb.s_blocks_count, table[g] = 0,
         sb.s_table_blocks < sb.s_blocks_count
  PROVE  ScanRange(sb, table, g) = {}
<1>1. num_block_groups(sb) \in Nat /\ g \in Nat /\ g <= num_block_groups(sb) - 1
  BY GroupsNumber, SMT DEF GroupsOf
<1>2. g * sb.s_blocks_per_group \in Nat
  BY <1>1, SMT DEF SuperblockOK
<1>3. g * sb.s_blocks_per_group < sb.s_blocks_count
  <2>1. g * sb.s_blocks_per_group <= (num_block_groups(sb) - 1) * sb.s_blocks_per_group
    BY <1>1, SMT DEF SuperblockOK
  <2> QED BY <2>1, <1>1, <1>2, GroupsNumber, SMT DEF SuperblockOK
<1>4. last_bit(sb, g) <= sb.s_blocks_per_group /\ last_bit(sb, g) \in Int
  BY <1>1, <1>2, <1>3, SMT DEF last_bit, blk_group_to_blk_num, SuperblockOK
<1>5. first_bit(sb, table, g) > sb.s_blocks_per_group /\ first_bit(sb, table, g) \in Int
  BY <1>1, <1>2, <1>3, U32Assumption, SMT
     DEF first_bit, Sub32, get_first_data_block, blk_group_to_blk_num, SuperblockOK
<1> QED BY <1>4, <1>5, SMT DEF ScanRange, SuperblockOK

-----------------------------------------------------------------------------
(* The limits rise, so the first loop finds exactly one mode.               *)
LEMMA LimitsRise ==
  /\ limits(0) \in Nat /\ limits(1) \in Nat /\ limits(2) \in Nat /\ limits(3) \in Nat
  /\ 0 < limits(0) /\ limits(0) < limits(1) /\ limits(1) < limits(2) /\ limits(2) < limits(3)
  /\ limits(1) - limits(0) = Links
  /\ limits(2) - limits(1) = Links * Links
  /\ limits(3) - limits(2) = Links * Links * Links
<1>1. Links \in Nat /\ Links > 0 /\ Direct \in Nat /\ Direct > 0
  BY IndirectAssumption, SMT
<1>2. Links * Links \in Nat /\ Links * Links > 0
  BY <1>1, SMT
<1>3. Links * Links * Links \in Nat /\ Links * Links * Links > 0
  BY <1>1, <1>2, SMT
<1>4. /\ limits(0) = Direct /\ limits(1) = Direct + Links
      /\ limits(2) = Direct + Links + Links * Links
      /\ limits(3) = Direct + Links + Links * Links + Links * Links * Links
  BY DEF limits
<1> QED BY <1>1, <1>2, <1>3, <1>4, SMT

LEMMA ModeChosen ==
  ASSUME NEW b \in FileBlocks
  PROVE  /\ mode_of(b) \in 0 .. 3
         /\ b < limits(mode_of(b))
         /\ \A k \in 0 .. mode_of(b) - 1 : b >= limits(k)
<1> DEFINE P(i) == b < limits(i) /\ \A k \in 0 .. i - 1 : b >= limits(k)
<1>1. b \in Nat /\ b < limits(3)
  BY LimitsRise, SMT DEF FileBlocks
<1>2. \E i \in 0 .. 3 : P(i)
  <2>1. CASE b < limits(0)
    BY <2>1, SMT
  <2>2. CASE b >= limits(0) /\ b < limits(1)
    <3>1. \A k \in 0 .. 1 - 1 : k = 0
      BY SMT
    <3> QED BY <2>2, <3>1
  <2>3. CASE b >= limits(1) /\ b < limits(2)
    <3>1. \A k \in 0 .. 2 - 1 : k = 0 \/ k = 1
      BY SMT
    <3>2. b >= limits(0)
      BY <1>1, <2>3, LimitsRise, SMT
    <3> QED BY <2>3, <3>1, <3>2
  <2>4. CASE b >= limits(2)
    <3>1. \A k \in 0 .. 3 - 1 : k = 0 \/ k = 1 \/ k = 2
      BY SMT
    <3>2. b >= limits(0) /\ b >= limits(1)
      BY <1>1, <2>4, LimitsRise, SMT
    <3> QED BY <1>1, <2>4, <3>1, <3>2
  <2> QED BY <1>1, <2>1, <2>2, <2>3, <2>4, LimitsRise, SMT
<1>3. mode_of(b) = CHOOSE i \in 0 .. 3 : P(i)
  BY DEF mode_of
<1> HIDE DEF P
<1>4. mode_of(b) \in 0 .. 3 /\ P(mode_of(b))
  BY <1>2, <1>3
<1> QED BY <1>4 DEF P

(* A number below Links^2 or Links^3 is given by its base-Links digits.     *)
LEMMA TwoDigits ==
  ASSUME NEW L \in Nat \ {0, 1}, NEW r \in Nat, r < L * L
  PROVE  /\ r \div L \in 0 .. L - 1 /\ r % L \in 0 .. L - 1
         /\ (r \div L) * L + (r % L) = r
<1>1. r \div L \in Nat /\ r % L \in 0 .. L - 1 /\ L * (r \div L) + (r % L) = r
  BY SMT
<1>2. r \div L < L
  <2> SUFFICES ASSUME r \div L >= L PROVE FALSE
    BY <1>1, SMT
  <2>1. L * (r \div L) >= L * L
    BY <1>1, SMT
  <2> QED BY <1>1, <2>1, SMT
<1> QED BY <1>1, <1>2, SMT

LEMMA ThreeDigits ==
  ASSUME NEW L \in Nat \ {0, 1}, NEW r \in Nat, r < L * L * L
  PROVE  /\ (r \div (L * L)) \in 0 .. L - 1
         /\ (r \div L) % L \in 0 .. L - 1
         /\ r % L \in 0 .. L - 1
         /\ ((r \div (L * L)) * L + ((r \div L) % L)) * L + (r % L) = r
<1> DEFINE q == r \div L
<1>1. q \in Nat /\ r % L \in 0 .. L - 1 /\ L * q + (r % L) = r
  BY SMT
<1>2. L * L \in Nat /\ L * L > 0
  BY SMT
<1>3. q < L * L
  <2> SUFFICES ASSUME q >= L * L PROVE FALSE
    BY <1>1, <1>2, SMT
  <2> HIDE DEF q
  <2>1. L * q >= L * (L * L)
    BY <1>1, <1>2, SMT
  <2>2. L * (L * L) = L * L * L
    BY SMT
  <2> QED BY <1>1, <2>1, <2>2, SMT
<1>4. q \div L \in 0 .. L - 1 /\ q % L \in 0 .. L - 1 /\ (q \div L) * L + (q % L) = q
  <2> HIDE DEF q
  <2> QED BY <1>1, <1>3, TwoDigits
<1>5. q \div L = r \div (L * L)
  <2> DEFINE t == q \div L
             rem == (q % L) * L + (r % L)
  <2>1. t \in Nat /\ q % L \in Nat /\ q % L <= L - 1 /\ r % L \in Nat /\ r % L <= L - 1
    BY <1>1, <1>4, SMT
  <2>2. rem \in Nat /\ rem < L * L
    <3>1. (q % L) * L <= (L - 1) * L /\ (q % L) * L \in Nat
      <4> HIDE DEF q
      <4> QED BY <2>1, SMT
    <3>2. (L - 1) * L = L * L - L
      BY SMT
    <3> HIDE DEF q
    <3> QED BY <2>1, <3>1, <3>2, <1>2, SMT
  <2>3. r = t * (L * L) + rem
    <3>1. q = t * L + (q % L)
      BY <1>4
    <3>2. L * q = L * (t * L) + L * (q % L)
      <4> HIDE DEF q, t
      <4> QED BY <1>1, <2>1, <3>1, SMT
    <3>3. L * (t * L) = t * (L * L)
      <4> HIDE DEF t
      <4> QED BY <2>1, SMT
    <3> HIDE DEF q, t
    <3> QED BY <1>1, <2>1, <3>2, <3>3, <1>2, SMT
  <2> HIDE DEF t, rem, q
  <2>4. r \div (L * L) = t
    BY <1>2, <2>1, <2>2, <2>3, SMT
  <2> QED BY <2>4 DEF t
<1> HIDE DEF q
<1>6. ((r \div (L * L)) * L + (q % L)) * L + (r % L) = r
  <2>1. (r \div (L * L)) * L + (q % L) = q
    BY <1>4, <1>5
  <2> QED BY <1>1, <2>1, SMT
<1> QED BY <1>1, <1>4, <1>5, <1>6 DEF q

-----------------------------------------------------------------------------
(* The path of a block, mode by mode.                                       *)
LEMMA PathByMode ==
  ASSUME NEW b \in FileBlocks
  PROVE  LET m == mode_of(b)
             x == index_of(b)
         IN  /\ m \in 0 .. 3
             /\ m = 0 => /\ x[0] = b /\ x[1] = 0 /\ x[2] = 0 /\ x[3] = 0
                         /\ b \in 0 .. Direct - 1
             /\ m = 1 => /\ x[0] = SI_INDEX /\ x[1] \in 0 .. Links - 1
                         /\ x[2] = 0 /\ x[3] = 0
                         /\ x[1] = b - limits(0)
             /\ m = 2 => /\ x[0] = DI_INDEX /\ x[1] \in 0 .. Links - 1
                         /\ x[2] \in 0 .. Links - 1 /\ x[3] = 0
                         /\ x[1] * Links + x[2] = b - limits(1)
             /\ m = 3 => /\ x[0] = TI_INDEX
                         /\ x[1] \in 0 .. Links - 1
                         /\ x[2] \in 0 .. Links - 1 /\ x[3] \in 0 .. Links - 1
                         /\ (x[1] * Links + x[2]) * Links + x[3] = b - limits(2)
<1> DEFINE m == mode_of(b)
           x == index_of(b)
           r == rest_of(b)
<1>1. b \in Nat /\ Links \in Nat \ {0, 1} /\ Direct \in Nat \ {0}
  BY IndirectAssumption, LimitsRise, SMT DEF FileBlocks
<1>2. /\ m \in 0 .. 3 /\ b < limits(m)
      /\ \A k \in 0 .. m - 1 : b >= limits(k)
  BY ModeChosen
<1>3. x = [j \in 0 .. 3 |->
             IF j = 0 THEN IF m = 0 THEN b ELSE Direct - 1 + m
             ELSE IF j <= m THEN (r \div Span(m - j)) % Links ELSE 0]
  BY DEF index_of, index_at
<1>4. r = IF m = 0 THEN b ELSE b - limits(m - 1)
  BY DEF rest_of
<1> HIDE DEF m, x, r
<1>5. ASSUME m = 0
      PROVE  /\ x[0] = b /\ x[1] = 0 /\ x[2] = 0 /\ x[3] = 0
             /\ b \in 0 .. Direct - 1
  <2>1. x[0] = b /\ x[1] = 0 /\ x[2] = 0 /\ x[3] = 0
    BY <1>3, <1>5, SMT
  <2>2. b < Direct
    BY <1>2, <1>5 DEF limits
  <2> QED BY <2>1, <2>2, <1>1, SMT
<1>6. ASSUME m = 1
      PROVE  /\ x[0] = SI_INDEX /\ x[1] \in 0 .. Links - 1
             /\ x[2] = 0 /\ x[3] = 0
             /\ x[1] = b - limits(0)
  <2>1. r = b - limits(0) /\ b < limits(1) /\ b >= limits(0)
    BY <1>2, <1>4, <1>6, SMT
  <2>2. r \in Nat /\ r < Links
    BY <2>1, <1>1, LimitsRise, SMT
  <2>3. (r \div Span(0)) % Links = r
    BY <2>2, <1>1, SMT DEF Span
  <2>4. x[0] = Direct /\ x[1] = (r \div Span(0)) % Links /\ x[2] = 0 /\ x[3] = 0
    BY <1>1, <1>3, <1>6, SMT
  <2> QED BY <2>1, <2>2, <2>3, <2>4, <1>1, SMT DEF SI_INDEX
<1>7. ASSUME m = 2
      PROVE  /\ x[0] = DI_INDEX /\ x[1] \in 0 .. Links - 1
             /\ x[2] \in 0 .. Links - 1 /\ x[3] = 0
             /\ x[1] * Links + x[2] = b - limits(1)
  <2>1. r = b - limits(1) /\ b < limits(2) /\ b >= limits(1)
    BY <1>2, <1>4, <1>7, SMT
  <2>2. r \in Nat /\ r < Links * Links
    BY <2>1, <1>1, LimitsRise, SMT
  <2>3. /\ r \div Links \in 0 .. Links - 1 /\ r % Links \in 0 .. Links - 1
        /\ (r \div Links) * Links + (r % Links) = r
    BY <2>2, <1>1, TwoDigits
  <2>4. (r \div Links) % Links = r \div Links
    <3> DEFINE q == r \div Links
    <3>1. q \in 0 .. Links - 1
      BY <2>3
    <3> HIDE DEF q
    <3>2. q % Links = q
      BY <3>1, <1>1, SMT
    <3> QED BY <3>2 DEF q
  <2>5. /\ x[0] = Direct + 1
        /\ x[1] = (r \div Span(1)) % Links
        /\ x[2] = (r \div Span(0)) % Links /\ x[3] = 0
    BY <1>1, <1>3, <1>7, SMT
  <2>6. Span(1) = Links /\ Span(0) = 1 /\ r \div 1 = r
    BY <2>2, SMT DEF Span
  <2>7. x[1] = r \div Links /\ x[2] = r % Links
    BY <2>4, <2>5, <2>6
  <2> QED BY <2>1, <2>3, <2>5, <2>7 DEF DI_INDEX
<1>8. ASSUME m = 3
      PROVE  /\ x[0] = TI_INDEX
             /\ x[1] \in 0 .. Links - 1
             /\ x[2] \in 0 .. Links - 1 /\ x[3] \in 0 .. Links - 1
             /\ (x[1] * Links + x[2]) * Links + x[3] = b - limits(2)
  <2>1. r = b - limits(2) /\ b < limits(3) /\ b >= limits(2)
    BY <1>2, <1>4, <1>8, SMT
  <2>2. r \in Nat /\ r < Links * Links * Links
    BY <2>1, <1>1, LimitsRise, SMT
  <2>3. /\ (r \div (Links * Links)) \in 0 .. Links - 1
        /\ (r \div Links) % Links \in 0 .. Links - 1
        /\ r % Links \in 0 .. Links - 1
        /\ ((r \div (Links * Links)) * Links + ((r \div Links) % Links)) * Links
             + (r % Links) = r
    BY <2>2, <1>1, ThreeDigits
  <2>4. (r \div (Links * Links)) % Links = r \div (Links * Links)
    <3> DEFINE q == r \div (Links * Links)
    <3>1. q \in 0 .. Links - 1
      BY <2>3
    <3> HIDE DEF q
    <3>2. q % Links = q
      BY <3>1, <1>1, SMT
    <3> QED BY <3>2 DEF q
  <2>5. /\ x[0] = Direct + 2
        /\ x[1] = (r \div Span(2)) % Links
        /\ x[2] = (r \div Span(1)) % Links
        /\ x[3] = (r \div Span(0)) % Links
    BY <1>1, <1>3, <1>8, SMT
  <2>6. Span(2) = Links * Links /\ Span(1) = Links /\ Span(0) = 1 /\ r \div 1 = r
    BY <2>2, SMT DEF Span
  <2>7. /\ x[1] = r \div (Links * Links)
        /\ x[2] = (r \div Links) % Links /\ x[3] = r % Links
    BY <2>4, <2>5, <2>6
  <2> QED BY <2>1, <2>3, <2>5, <2>7 DEF TI_INDEX
<1> QED BY <1>2, <1>5, <1>6, <1>7, <1>8 DEF m, x

(* The path of every block of a file leads through entries that exist.      *)
THEOREM PathsInRange ==
  ASSUME NEW b \in FileBlocks
  PROVE  PathInRange(b)
<1> DEFINE m == mode_of(b)
           x == index_of(b)
<1>1. Links \in Nat \ {0, 1} /\ Direct \in Nat \ {0}
  BY IndirectAssumption
<1>2. m \in 0 .. 3
  BY ModeChosen
<1>3. x[0] \in 0 .. TI_INDEX
  <2> HIDE DEF m, x
  <2>1. m = 0 \/ m = 1 \/ m = 2 \/ m = 3
    BY <1>2, SMT
  <2>2. /\ m = 0 => x[0] = b /\ b \in 0 .. Direct - 1
        /\ m = 1 => x[0] = SI_INDEX
        /\ m = 2 => x[0] = DI_INDEX
        /\ m = 3 => x[0] = TI_INDEX
    BY PathByMode DEF m, x
  <2> QED BY <1>1, <2>1, <2>2, SMT DEF SI_INDEX, DI_INDEX, TI_INDEX
<1>4. ASSUME NEW j \in 1 .. 3
      PROVE  x[j] \in 0 .. Links - 1
  <2>1. 0 \in 0 .. Links - 1
    BY <1>1, SMT
  <2>2. (m = 0 \/ m = 1 \/ m = 2 \/ m = 3) /\ (j = 1 \/ j = 2 \/ j = 3)
    BY <1>2, <1>4, SMT
  <2>3. x[1] \in 0 .. Links - 1 /\ x[2] \in 0 .. Links - 1 /\ x[3] \in 0 .. Links - 1
    BY <2>1, <2>2, PathByMode
  <2> QED BY <2>2, <2>3
<1> QED BY <1>3, <1>4 DEF PathInRange

(* The path determines the block: what test_get_indirect_blocks computes    *)
(* back is the block, for every block size.                                 *)
THEOREM PathsDetermineBlocks ==
  ASSUME NEW b \in FileBlocks
  PROVE  PathDeterminesBlock(b)
<1> DEFINE m == mode_of(b)
           x == index_of(b)
<1>1. b \in Nat
  BY LimitsRise, SMT DEF FileBlocks
<1>2. m = 0 \/ m = 1 \/ m = 2 \/ m = 3
  BY ModeChosen, SMT
<1>3. offset_synth(b) = Digits(b) + IF m = 0 THEN x[0] ELSE limits(m - 1)
  BY DEF offset_synth
<1>4. CASE m = 0
  <2>1. Digits(b) = 0 /\ x[0] = b
    BY <1>4, PathByMode, SMT DEF Digits
  <2> QED BY <1>1, <1>3, <1>4, <2>1, SMT DEF PathDeterminesBlock
<1>5. CASE m = 1
  <2>1. Digits(b) = b - limits(0)
    BY <1>5, PathByMode, SMT DEF Digits
  <2>2. offset_synth(b) = Digits(b) + limits(0)
    BY <1>3, <1>5, SMT
  <2> QED BY <1>1, <2>1, <2>2, LimitsRise, SMT DEF PathDeterminesBlock
<1>6. CASE m = 2
  <2>1. Digits(b) = b - limits(1)
    <3>1. Digits(b) = x[1] * Links + x[2]
      BY <1>6, SMT DEF Digits
    <3> QED BY <1>6, <3>1, PathByMode
  <2>2. offset_synth(b) = Digits(b) + limits(1)
    BY <1>3, <1>6, SMT
  <2> QED BY <1>1, <2>1, <2>2, LimitsRise, SMT DEF PathDeterminesBlock
<1>7. CASE m = 3
  <2>1. Digits(b) = b - limits(2)
    <3>1. Digits(b) = (x[1] * Links + x[2]) * Links + x[3]
      BY <1>7, SMT DEF Digits
    <3> QED BY <1>7, <3>1, PathByMode
  <2>2. offset_synth(b) = Digits(b) + limits(2)
    BY <1>3, <1>7, SMT
  <2> QED BY <1>1, <2>1, <2>2, LimitsRise, SMT DEF PathDeterminesBlock
<1> QED BY <1>2, <1>4, <1>5, <1>6, <1>7

(* Two blocks with equal paths have equal modes, so the comparison of the   *)
(* index arrays in blk_iterator_next is enough.                             *)
THEOREM ModesTold ==
  ASSUME NEW b \in FileBlocks
  PROVE  ModeFromIndex(b)
<1> DEFINE m == mode_of(b)
           x == index_of(b)
<1>1. Direct \in Nat \ {0}
  BY IndirectAssumption
<1>2. m = 0 \/ m = 1 \/ m = 2 \/ m = 3
  BY ModeChosen, SMT
<1>3. /\ m = 0 => x[0] \in 0 .. Direct - 1
      /\ m = 1 => x[0] = SI_INDEX
      /\ m = 2 => x[0] = DI_INDEX
      /\ m = 3 => x[0] = TI_INDEX
  BY PathByMode
<1>4. m = IF x[0] < Direct THEN 0 ELSE x[0] - SI_INDEX + 1
  <2> HIDE DEF m, x
  <2> QED BY <1>1, <1>2, <1>3, SMT DEF SI_INDEX, DI_INDEX, TI_INDEX
<1> QED BY <1>4 DEF ModeFromIndex
-----------------------------------------------------------------------------
(* The inputs of MCFunctions: a volume with the position of its inode       *)
(* tables and one of its blocks, or a block of a file.                      *)
VolumeOK ==
  /\ SuperblockOK(volume) /\ volume.s_table_blocks = 1 /\ volume.s_blocks_count >= 2
  /\ \A g \in DescribedGroups(volume) : GroupOK(volume, tables, g)
  /\ \A g \in GroupsOf(volume) \ DescribedGroups(volume) : tables[g] = 0
  /\ probe \in Nat /\ volume.s_first_data_block <= probe /\ probe < volume.s_blocks_count

InputOK == /\ topic = "volume" => VolumeOK
           /\ topic = "file" => probe \in FileBlocks

LEMMA InputsStart ==
  ASSUME InputInit
  PROVE  InputOK
<1>1. CASE InitVolume
  <2>1. volume \in Superblocks /\ topic = "volume"
    BY <1>1 DEF InitVolume
  <2>2. SuperblockOK(volume) /\ volume.s_table_blocks = 1 /\ volume.s_blocks_count >= 2
    BY <2>1, SMT DEF Superblocks
  <2>3. \A g \in GroupsOf(volume) \ DescribedGroups(volume) : tables[g] = 0
    BY <1>1 DEF InitVolume
  <2>4. \A g \in DescribedGroups(volume) : GroupOK(volume, tables, g)
    BY <1>1 DEF InitVolume
  <2>5. probe \in Nat /\ volume.s_first_data_block <= probe /\ probe < volume.s_blocks_count
    BY <1>1, <2>2, SMT DEF InitVolume, SuperblockOK
  <2> QED BY <2>1, <2>2, <2>3, <2>4, <2>5 DEF InputOK, VolumeOK
<1>2. CASE topic \in {"file", "line"} /\ probe = 0
  <2>1. 0 \in FileBlocks
    BY LimitsRise, SMT DEF FileBlocks
  <2> QED BY <1>2, <2>1 DEF InputOK
<1> QED BY <1>1, <1>2 DEF InputInit

LEMMA InputsStay ==
  ASSUME InputOK, [InputNext]_inputs
  PROVE  InputOK'
<1>1. CASE NextBlock
  <2>1. CASE topic = "volume" /\ probe + 1 < volume.s_blocks_count
    <3>1. /\ VolumeOK /\ probe' = probe + 1
          /\ volume' = volume /\ tables' = tables /\ topic' = "volume"
      BY <1>1, <2>1 DEF NextBlock, InputOK
    <3>2. probe' \in Nat /\ volume.s_first_data_block <= probe' /\ probe' < volume.s_blocks_count
      BY <2>1, <3>1, SMT DEF VolumeOK, SuperblockOK
    <3> QED BY <3>1, <3>2 DEF InputOK, VolumeOK
  <2>2. CASE topic = "file" /\ probe + 1 \in FileBlocks
    BY <1>1, <2>2 DEF NextBlock, InputOK
  <2> QED BY <1>1, <2>1, <2>2 DEF NextBlock
<1>2. CASE NextCharacter
  BY <1>2 DEF NextCharacter, InputOK
<1>3. CASE Done \/ UNCHANGED inputs
  BY <1>3 DEF Done, inputs, InputOK, VolumeOK
<1> QED BY <1>1, <1>2, <1>3 DEF InputNext

(* A block is in a group that the volume has, at the bit that is its        *)
(* distance from the start of the group.                                    *)
LEMMA BlockInGroup ==
  ASSUME NEW s, SuperblockOK(s), NEW b \in Nat, s.s_first_data_block <= b, b < s.s_blocks_count
  PROVE  LET g == blk_num_to_blk_group(s, b)
         IN  /\ g \in DescribedGroups(s) /\ g \in GroupsOf(s) /\ g \in Nat
             /\ blk_group_to_blk_num(s, g) \in Nat
             /\ blk_group_to_blk_num(s, g) <= b
             /\ blk_to_bit(s, b) = b - blk_group_to_blk_num(s, g)
             /\ blk_to_bit(s, b) \in 0 .. s.s_blocks_per_group - 1
<1> DEFINE B == s.s_blocks_per_group
           F == s.s_first_data_block
           C == s.s_blocks_count
           g == blk_num_to_blk_group(s, b)
           n == num_block_groups(s)
<1>1. B \in Nat \ {0} /\ F \in {0, 1} /\ C \in Nat /\ F <= b /\ b < C
  BY DEF SuperblockOK
<1>2. n \in Nat \ {0} /\ C <= n * B
  BY GroupsNumber
<1>3. g = (b - F) \div B
  BY <1>1, SMT DEF blk_num_to_blk_group, Sub32
<1>4. blk_group_to_blk_num(s, g) = g * B + F
  BY DEF blk_group_to_blk_num
<1>5. GroupsOf(s) = 0 .. n - 1
  BY DEF GroupsOf
<1>6. DescribedGroups(s) = {k \in GroupsOf(s) : blk_group_to_blk_num(s, k) < C}
  BY DEF DescribedGroups
<1>7. blk_to_bit(s, b) = Sub32(b, blk_group_to_blk_num(s, g))
  BY DEF blk_to_bit
<1> HIDE DEF B, F, C, g, n
<1>8. b - F \in Nat
  BY <1>1, SMT
<1>9. g \in Nat /\ g * B <= b - F /\ b - F < g * B + B /\ g * B \in Nat
  BY <1>1, <1>3, <1>8, SMT
<1>10. g < n
  <2>1. g * B < n * B
    BY <1>1, <1>2, <1>9, SMT
  <2> QED BY <1>1, <1>2, <1>9, <2>1, SMT
<1>11. g * B + F \in Nat /\ g * B + F <= b
  BY <1>1, <1>9, SMT
<1>12. blk_to_bit(s, b) = b - (g * B + F)
  BY <1>4, <1>7, <1>11 DEF Sub32
<1>13. blk_to_bit(s, b) \in 0 .. B - 1
  BY <1>1, <1>9, <1>11, <1>12, SMT
<1>14. g \in GroupsOf(s) /\ blk_group_to_blk_num(s, g) < C
  BY <1>1, <1>2, <1>4, <1>5, <1>9, <1>10, <1>11, SMT
<1> QED BY <1>4, <1>6, <1>9, <1>11, <1>12, <1>13, <1>14 DEF g, B

(* Freeing undoes allocating and the scan reaches every block, on a volume  *)
(* of every number of blocks and groups.                                    *)
THEOREM BitsMatchEverywhere == InputSpec => []BitsMatchBlocks
<1>1. InputOK => BitsMatchBlocks
  <2> SUFFICES ASSUME VolumeOK
               PROVE  LET g == blk_num_to_blk_group(volume, probe)
                      IN  /\ g \in DescribedGroups(volume)
                          /\ bit_to_blk(volume, tables, g, blk_to_bit(volume, probe)) = probe
                          /\ probe >= get_first_data_block(volume, tables, g)
                               => blk_to_bit(volume, probe) \in ScanRange(volume, tables, g)
    BY DEF InputOK, BitsMatchBlocks
  <2> DEFINE g == blk_num_to_blk_group(volume, probe)
             bit == blk_to_bit(volume, probe)
             start == blk_group_to_blk_num(volume, g)
  <2>1. /\ g \in DescribedGroups(volume) /\ g \in GroupsOf(volume) /\ g \in Nat
        /\ start \in Nat /\ start <= probe /\ bit = probe - start
        /\ bit \in 0 .. volume.s_blocks_per_group - 1
    BY BlockInGroup DEF VolumeOK
  <2>2. /\ SuperblockOK(volume) /\ GroupOK(volume, tables, g)
        /\ probe \in Nat /\ probe < volume.s_blocks_count
    BY <2>1 DEF VolumeOK
  <2> HIDE DEF g, bit
  <2>3. bit_to_blk(volume, tables, g, bit) = start + bit
    BY <2>1, <2>2, BlockBitRoundTrip
  <2>4. start + bit = probe
    BY <2>1, <2>2, SMT
  <2>5. bit \in ExistingBits(volume, g)
    BY <2>1, <2>2, <2>4 DEF ExistingBits
  <2>6. ASSUME probe >= get_first_data_block(volume, tables, g)
        PROVE  bit \in ScanRange(volume, tables, g)
    <3>1. first_bit(volume, tables, g) = tables[g] + volume.s_table_blocks - start
      BY <2>1, <2>2, FirstBit
    <3>2. probe >= tables[g] + volume.s_table_blocks
      BY <2>6 DEF get_first_data_block
    <3>3. tables[g] \in Nat /\ volume.s_table_blocks \in Nat
      BY <2>2 DEF GroupOK, SuperblockOK
    <3>4. first_bit(volume, tables, g) <= bit
      <4>1. PICK t, len : t = tables[g] /\ len = volume.s_table_blocks
        OBVIOUS
      <4>2. /\ t \in Nat /\ len \in Nat /\ probe >= t + len
            /\ first_bit(volume, tables, g) = t + len - start
        BY <3>1, <3>2, <3>3, <4>1
      <4> QED BY <2>1, <2>2, <4>2, SMT
    <3> QED BY <2>1, <2>2, <2>5, <3>4, ScanReachesAll
  <2> QED BY <2>1, <2>3, <2>4, <2>6 DEF g, bit
<1> QED BY <1>1, InputsStart, InputsStay, PTL DEF InputSpec

(* Where the scan leaves a group, with every number of blocks and groups.   *)
THEOREM ScanBoundedEverywhere == InputSpec => []ScanBounded
<1>1. InputOK => ScanBounded
  <2> SUFFICES ASSUME VolumeOK
               PROVE  /\ \A g \in DescribedGroups(volume) :
                           \A bit \in ScanRange(volume, tables, g) \ ExistingBits(volume, g) :
                              /\ volume.s_first_data_block = 1
                              /\ g = num_block_groups(volume) - 1
                              /\ bit_to_blk(volume, tables, g, bit) = volume.s_blocks_count
                      /\ \A g \in GroupsOf(volume) \ DescribedGroups(volume) :
                           ScanRange(volume, tables, g) = {}
    BY DEF InputOK, ScanBounded
  <2>1. ASSUME NEW g \in DescribedGroups(volume),
               NEW bit \in ScanRange(volume, tables, g) \ ExistingBits(volume, g)
        PROVE  /\ volume.s_first_data_block = 1
               /\ g = num_block_groups(volume) - 1
               /\ bit_to_blk(volume, tables, g, bit) = volume.s_blocks_count
    <3> DEFINE B == volume.s_blocks_per_group
               F == volume.s_first_data_block
               C == volume.s_blocks_count
               n == num_block_groups(volume)
    <3>1. SuperblockOK(volume) /\ GroupOK(volume, tables, g) /\ g \in GroupsOf(volume)
      BY <2>1 DEF VolumeOK, DescribedGroups
    <3>2. /\ B \in Nat \ {0} /\ F \in {0, 1} /\ C \in Nat /\ n \in Nat \ {0} /\ C <= n * B
          /\ g \in 0 .. n - 1
      BY <3>1, GroupsNumber DEF SuperblockOK, GroupsOf
    <3>3. bit \in 0 .. B - 1
      BY <2>1, <3>1, ScanInBitmap
    <3>4. ~(g * B + F + bit < C)
      BY <2>1, <3>3 DEF ExistingBits, blk_group_to_blk_num
    <3>5. bit <= (IF g = n - 1 THEN C - g * B - 1 ELSE B - 1)
      <4>1. first_bit(volume, tables, g) \in Nat
        BY <3>1, FirstBit
      <4>2. last_bit(volume, g) = IF g = n - 1 THEN C - g * B - 1 ELSE B - 1
        BY DEF last_bit
      <4>3. last_bit(volume, g) \in Int
        <5>1. g * B \in Nat
          BY <3>2, SMT
        <5> QED BY <3>2, <4>2, <5>1, SMT
      <4>4. bit \in first_bit(volume, tables, g) .. last_bit(volume, g)
        BY <2>1 DEF ScanRange
      <4>5. bit <= last_bit(volume, g)
        BY <4>1, <4>3, <4>4, SMT
      <4> QED BY <4>2, <4>5
    <3>6. bit_to_blk(volume, tables, g, bit) = g * B + F + bit
      BY <3>1, <3>3, BlockBitRoundTrip DEF blk_group_to_blk_num
    <3>7. (n - 1) * B < C
      BY <3>1, GroupsNumber
    <3> HIDE DEF B, F, C, n
    <3>8. g * B \in Nat /\ g \in Nat
      BY <3>2, SMT
    <3>9. g = n - 1
      <4>1. ASSUME g < n - 1 PROVE FALSE
        <5>1. (g + 1) * B <= (n - 1) * B
          BY <3>2, <3>8, <4>1, SMT
        <5>2. (g + 1) * B = g * B + B
          BY <3>2, <3>8, SMT
        <5>3. g * B + B < C
          BY <3>2, <3>7, <3>8, <5>1, <5>2, SMT
        <5> QED BY <3>2, <3>3, <3>4, <3>8, <5>3, SMT
      <4> QED BY <3>2, <4>1, SMT
    <3>10. bit <= C - g * B - 1
      BY <3>5, <3>9
    <3>11. F = 1 /\ g * B + F + bit = C
      BY <3>2, <3>3, <3>4, <3>8, <3>10, SMT
    <3> QED BY <3>6, <3>9, <3>11 DEF B, F, C, n
  <2>2. ASSUME NEW g \in GroupsOf(volume) \ DescribedGroups(volume)
        PROVE  ScanRange(volume, tables, g) = {}
    <3>1. SuperblockOK(volume) /\ tables[g] = 0 /\ volume.s_table_blocks < volume.s_blocks_count
      BY SMT DEF VolumeOK, SuperblockOK
    <3>2. ~(blk_group_to_blk_num(volume, g) < volume.s_blocks_count)
      BY DEF DescribedGroups
    <3>3. blk_group_to_blk_num(volume, g) >= volume.s_blocks_count
      <4>1. g \in Nat
        BY <3>1, GroupsNumber, SMT DEF GroupsOf
      <4>2. /\ g * volume.s_blocks_per_group + volume.s_first_data_block \in Nat
            /\ volume.s_blocks_count \in Nat
        BY <3>1, <4>1, SMT DEF SuperblockOK
      <4> QED BY <3>2, <4>2, SMT DEF blk_group_to_blk_num
    <3> QED BY <3>1, <3>3, PhantomGroupSkipped
  <2> QED BY <2>1, <2>2
<1> QED BY <1>1, InputsStart, InputsStay, PTL DEF InputSpec

(* Every block of a file of every size has a place of its own.              *)
THEOREM PathsSoundEverywhere == InputSpec => []PathSound
<1>1. InputOK => PathSound
  BY PathsInRange, PathsDetermineBlocks, ModesTold DEF InputOK, PathSound
<1> QED BY <1>1, InputsStart, InputsStay, PTL DEF InputSpec

-----------------------------------------------------------------------------
(* Counts of width w that wrap: b is the true value and a is off by at most *)
(* k from it.                                                               *)
Multiples(w) == {q * w : q \in Int}

Near(a, b, w, k) == \E d \in (0 - k) .. k : a - (b + d) \in Multiples(w)

(* The shorter way round.                                                   *)
Distance(a, b, w) == IF (a - b) % w <= (b - a) % w THEN (a - b) % w ELSE (b - a) % w

LEMMA MultiplesClosed ==
  ASSUME NEW w \in Nat \ {0}
  PROVE  /\ 0 \in Multiples(w) /\ w \in Multiples(w) /\ Multiples(w) \subseteq Int
         /\ \A a, b \in Multiples(w) : a + b \in Multiples(w) /\ a - b \in Multiples(w)
<1>1. 0 = 0 * w /\ w = 1 * w
  BY SMT
<1>2. 0 \in Multiples(w) /\ w \in Multiples(w)
  BY <1>1 DEF Multiples
<1>3. \A q \in Int : q * w \in Int
  BY SMT
<1>4. Multiples(w) \subseteq Int
  BY <1>3 DEF Multiples
<1>5. ASSUME NEW a \in Multiples(w), NEW b \in Multiples(w)
      PROVE  a + b \in Multiples(w) /\ a - b \in Multiples(w)
  <2>1. PICK p \in Int : a = p * w
    BY DEF Multiples
  <2>2. PICK q \in Int : b = q * w
    BY DEF Multiples
  <2>3. a + b = (p + q) * w /\ a - b = (p - q) * w
    BY <2>1, <2>2, SMT
  <2>4. p + q \in Int /\ p - q \in Int
    OBVIOUS
  <2> QED BY <2>3, <2>4 DEF Multiples
<1> QED BY <1>2, <1>4, <1>5

(* A multiple is 0 or at least w away from it.                              *)
LEMMA MultiplesApart ==
  ASSUME NEW w \in Nat \ {0}, NEW a \in Multiples(w), a # 0
  PROVE  a >= w \/ a <= 0 - w
<1>1. PICK q \in Int : a = q * w
  BY DEF Multiples
<1>2. q >= 1 => q * w >= w
  BY SMT
<1>3. q <= 0 - 1 => q * w <= 0 - w
  BY SMT
<1>4. q = 0 => q * w = 0
  BY SMT
<1> QED BY <1>1, <1>2, <1>3, <1>4, SMT

LEMMA Remainders ==
  ASSUME NEW w \in Nat \ {0}, NEW a \in Int
  PROVE  a % w \in 0 .. w - 1 /\ a - (a % w) \in Multiples(w)
<1>1. a % w \in 0 .. w - 1 /\ a \div w \in Int /\ a = (w * (a \div w)) + (a % w)
  BY SMT
<1>2. w * (a \div w) = (a \div w) * w
  BY <1>1, SMT
<1>3. (a \div w) * w \in Multiples(w)
  BY <1>1 DEF Multiples
<1>4. (a \div w) * w \in Int
  BY <1>3, MultiplesClosed
<1>5. \A x \in Int, r \in Int, m \in Int : x = m + r => x - r = m
  BY SMT
<1> QED BY <1>1, <1>2, <1>3, <1>4, <1>5, SMT

(* What is near is at no greater distance.                                  *)
LEMMA NearDistance ==
  ASSUME NEW w \in Nat \ {0}, NEW a \in Int, NEW b \in Int, NEW k \in Nat,
         Near(a, b, w, k)
  PROVE  Distance(a, b, w) <= k
<1> DEFINE x == (a - b) % w
           y == (b - a) % w
<1>1. PICK d \in (0 - k) .. k : a - (b + d) \in Multiples(w)
  BY DEF Near
<1>2. d \in Int /\ 0 - k <= d /\ d <= k
  BY <1>1, SMT
<1>3. x \in 0 .. w - 1 /\ (a - b) - x \in Multiples(w)
  <2>1. a - b \in Int
    OBVIOUS
  <2> QED BY <2>1, Remainders
<1>4. y \in 0 .. w - 1 /\ (b - a) - y \in Multiples(w)
  <2>1. b - a \in Int
    OBVIOUS
  <2> QED BY <2>1, Remainders
<1>5. Distance(a, b, w) = IF x <= y THEN x ELSE y
  BY DEF Distance
<1> HIDE DEF x, y
<1>6. d - x \in Multiples(w)
  <2>1. ((a - b) - x) - (a - (b + d)) \in Multiples(w)
    BY <1>1, <1>3, MultiplesClosed
  <2>2. ((a - b) - x) - (a - (b + d)) = d - x
    BY <1>2, <1>3, SMT
  <2> QED BY <2>1, <2>2
<1>7. (0 - d) - y \in Multiples(w)
  <2>1. ((b - a) - y) + (a - (b + d)) \in Multiples(w)
    BY <1>1, <1>4, MultiplesClosed
  <2>2. ((b - a) - y) + (a - (b + d)) = (0 - d) - y
    BY <1>2, <1>4, SMT
  <2> QED BY <2>1, <2>2
<1>8. d >= 0 => x <= d
  BY <1>2, <1>3, <1>6, MultiplesApart, SMT
<1>9. d < 0 => y <= 0 - d
  BY <1>2, <1>4, <1>7, MultiplesApart, SMT
<1> QED BY <1>2, <1>3, <1>4, <1>5, <1>8, <1>9, SMT

(* A value is near itself.                                                  *)
LEMMA NearItself ==
  ASSUME NEW w \in Nat \ {0}, NEW a \in Int
  PROVE  Near(a, a, w, 0)
<1>1. 0 \in (0 - 0) .. 0 /\ a - (a + 0) = 0
  BY SMT
<1> QED BY <1>1, MultiplesClosed DEF Near

(* Both change by the same, but that the count may wrap.                    *)
LEMMA NearTogether ==
  ASSUME NEW w \in Nat \ {0}, NEW a \in Int, NEW b \in Int, NEW c \in Int, NEW e \in Int,
         NEW k \in Nat, Near(a, b, w, k),
         c - a = e - b \/ c - a = (e - b) + w \/ c - a = (e - b) - w
  PROVE  Near(c, e, w, k)
<1>1. PICK d \in (0 - k) .. k : a - (b + d) \in Multiples(w)
  BY DEF Near
<1>2. d \in Int
  BY <1>1, SMT
<1>3. PICK m \in Int : m = a - (b + d)
  BY <1>2
<1>4. c - (e + d) = m \/ c - (e + d) = m + w \/ c - (e + d) = m - w
  BY <1>2, <1>3, SMT
<1>5. m \in Multiples(w) /\ m + w \in Multiples(w) /\ m - w \in Multiples(w)
  BY <1>1, <1>3, MultiplesClosed
<1> QED BY <1>1, <1>4, <1>5 DEF Near

(* The true value changes by at most j, and the count stays behind.         *)
LEMMA NearBehind ==
  ASSUME NEW w \in Nat \ {0}, NEW a \in Int, NEW b \in Int, NEW c \in Int,
         NEW k \in Nat, NEW j \in Nat, Near(a, b, w, k), 0 - j <= c - b, c - b <= j,
         NEW n \in Nat, k + j <= n
  PROVE  Near(a, c, w, n)
<1>1. PICK d \in (0 - k) .. k : a - (b + d) \in Multiples(w)
  BY DEF Near
<1>2. d \in Int /\ 0 - k <= d /\ d <= k
  BY <1>1, SMT
<1>3. PICK f \in Int : f = d - (c - b)
  BY <1>2
<1>4. f \in (0 - n) .. n /\ a - (c + f) = a - (b + d)
  BY <1>2, <1>3, SMT
<1> QED BY <1>1, <1>4 DEF Near

-----------------------------------------------------------------------------
(* Conversely every entry of i_block and of every index block is on the     *)
(* path of a block.                                                         *)
LEMMA DigitsUnique ==
  ASSUME NEW L \in Nat \ {0}, NEW a \in Nat, NEW c \in Nat,
         NEW r \in 0 .. L - 1, NEW s \in 0 .. L - 1, a * L + r = c * L + s
  PROVE  a = c /\ r = s
<1>1. \A x, y \in Nat : x < y => x * L + L <= y * L
  <2> SUFFICES ASSUME NEW x \in Nat, NEW y \in Nat, x < y PROVE x * L + L <= y * L
    OBVIOUS
  <2>1. PICK z \in Nat : y = x + 1 + z
    <3>1. y - x - 1 \in Nat /\ y = x + 1 + (y - x - 1)
      BY SMT
    <3> QED BY <3>1
  <2>2. y * L = x * L + L + z * L /\ z * L >= 0 /\ x * L \in Nat /\ z * L \in Nat
    BY <2>1, SMT
  <2> QED BY <2>2, SMT
<1>2. a * L \in Nat /\ c * L \in Nat
  BY SMT
<1>3. ~(a < c) /\ ~(c < a)
  <2>1. ASSUME a < c PROVE FALSE
    <3>1. a * L + L <= c * L
      BY <1>1, <2>1
    <3> QED BY <1>2, <3>1, SMT
  <2>2. ASSUME c < a PROVE FALSE
    <3>1. c * L + L <= a * L
      BY <1>1, <2>2
    <3> QED BY <1>2, <3>1, SMT
  <2> QED BY <2>1, <2>2
<1>4. a = c
  BY <1>3, SMT
<1> QED BY <1>2, <1>4, SMT

LEMMA ModeByRange ==
  ASSUME NEW b \in FileBlocks
  PROVE  /\ b < limits(0) => mode_of(b) = 0
         /\ limits(0) <= b /\ b < limits(1) => mode_of(b) = 1
         /\ limits(1) <= b /\ b < limits(2) => mode_of(b) = 2
         /\ limits(2) <= b => mode_of(b) = 3
<1> DEFINE m == mode_of(b)
<1>1. m \in 0 .. 3 /\ b < limits(m) /\ (\A k \in 0 .. m - 1 : b >= limits(k)) /\ b \in Int
  BY ModeChosen, LimitsRise, SMT DEF FileBlocks
<1> HIDE DEF m
<1>2. /\ m = 0 => b < limits(0)
      /\ m = 1 => b < limits(1) /\ b >= limits(0)
      /\ m = 2 => b < limits(2) /\ b >= limits(1)
      /\ m = 3 => b >= limits(2)
  BY <1>1, SMT
<1>3. m = 0 \/ m = 1 \/ m = 2 \/ m = 3
  BY <1>1, SMT
<1> QED BY <1>1, <1>2, <1>3, LimitsRise, SMT DEF m

(* Every path is taken: for each mode and all indices into the blocks on    *)
(* the way there is a block of the file to which get_indirect_blocks leads  *)
(* them.  So the blocks the iterator passes are all blocks of the tree.     *)
THEOREM EveryPlaceTaken ==
  ASSUME NEW m \in 0 .. 3, NEW d \in [1 .. 3 -> 0 .. Links - 1]
  PROVE  \E b \in FileBlocks : mode_of(b) = m /\ \A j \in 1 .. m : index_of(b)[j] = d[j]
<1>1. Links \in Nat \ {0, 1} /\ Direct \in Nat \ {0} /\ Links \in Nat \ {0}
  BY IndirectAssumption
<1>2. /\ d[1] \in 0 .. Links - 1 /\ d[2] \in 0 .. Links - 1 /\ d[3] \in 0 .. Links - 1
      /\ d[1] \in Nat /\ d[2] \in Nat /\ d[3] \in Nat
  <2>1. d[1] \in 0 .. Links - 1 /\ d[2] \in 0 .. Links - 1 /\ d[3] \in 0 .. Links - 1
    BY SMT
  <2> QED BY <1>1, <2>1, SMT
<1>3. PICK x \in Nat : x = d[1]
  BY <1>2
<1>4. PICK y \in Nat : y = d[2]
  BY <1>2
<1>5. PICK z \in Nat : z = d[3]
  BY <1>2
<1>6. PICK two \in Nat : two = x * Links + y /\ two < Links * Links
  <2>1. x * Links + y \in Nat /\ x <= Links - 1 /\ y <= Links - 1
    BY <1>1, <1>2, <1>3, <1>4, SMT
  <2>2. x * Links <= (Links - 1) * Links
    BY <1>1, <2>1, SMT
  <2>3. (Links - 1) * Links = Links * Links - Links
    BY <1>1, SMT
  <2>4. x * Links \in Nat /\ Links * Links \in Nat
    BY <1>1, SMT
  <2>5. x * Links + y < Links * Links
    BY <1>1, <2>1, <2>2, <2>3, <2>4, SMT
  <2> QED BY <2>1, <2>5
<1>7. PICK three \in Nat : three = two * Links + z /\ three < Links * Links * Links
  <2>1. two * Links + z \in Nat /\ two <= Links * Links - 1 /\ z <= Links - 1
    BY <1>1, <1>2, <1>5, <1>6, SMT
  <2>2. two * Links <= (Links * Links - 1) * Links
    BY <1>1, <2>1, SMT
  <2>3. (Links * Links - 1) * Links = Links * Links * Links - Links
    BY <1>1, SMT
  <2>4. two * Links \in Nat /\ Links * Links * Links \in Nat
    BY <1>1, SMT
  <2>5. two * Links + z < Links * Links * Links
    BY <1>1, <2>1, <2>2, <2>3, <2>4, SMT
  <2> QED BY <2>1, <2>5
<1>8. CASE m = 0
  <2>1. 0 \in FileBlocks /\ 0 < limits(0)
    BY LimitsRise, SMT DEF FileBlocks
  <2>2. mode_of(0) = 0 /\ 1 .. 0 = {}
    BY <2>1, ModeByRange, SMT
  <2> QED BY <1>8, <2>1, <2>2
<1>9. CASE m = 1
  <2>1. PICK b \in FileBlocks : b = limits(0) + x /\ limits(0) <= b /\ b < limits(1)
    <3>1. limits(0) + x \in FileBlocks /\ limits(0) + x < limits(1) /\ limits(0) <= limits(0) + x
      BY <1>1, <1>2, <1>3, LimitsRise, SMT DEF FileBlocks
    <3> QED BY <3>1
  <2>2. mode_of(b) = 1
    BY <2>1, ModeByRange
  <2>3. index_of(b)[1] = x
    <3>1. index_of(b)[1] = b - limits(0)
      BY <2>2, PathByMode
    <3> QED BY <2>1, <3>1, LimitsRise, SMT
  <2>4. \A j \in 1 .. 1 : j = 1
    BY SMT
  <2> QED BY <1>3, <1>9, <2>2, <2>3, <2>4
<1>10. CASE m = 2
  <2>1. PICK b \in FileBlocks : b = limits(1) + two /\ limits(1) <= b /\ b < limits(2)
    <3>1. /\ limits(1) + two \in FileBlocks /\ limits(1) + two < limits(2)
          /\ limits(1) <= limits(1) + two
      BY <1>1, <1>6, LimitsRise, SMT DEF FileBlocks
    <3> QED BY <3>1
  <2>2. mode_of(b) = 2
    BY <2>1, ModeByRange
  <2>3. index_of(b)[1] = x /\ index_of(b)[2] = y
    <3> DEFINE X == index_of(b)[1]
               Y == index_of(b)[2]
    <3>1. X * Links + Y = b - limits(1) /\ X \in 0 .. Links - 1 /\ Y \in 0 .. Links - 1
      BY <2>2, PathByMode
    <3> HIDE DEF X, Y
    <3>2. b - limits(1) = two
      BY <2>1, LimitsRise, SMT
    <3>3. X \in Nat /\ y \in 0 .. Links - 1
      BY <1>1, <1>2, <1>4, <3>1, SMT
    <3>4. X * Links + Y = x * Links + y
      BY <1>6, <3>1, <3>2
    <3>5. X = x /\ Y = y
      BY <1>1, <3>1, <3>3, <3>4, DigitsUnique
    <3> QED BY <3>5 DEF X, Y
  <2>4. \A j \in 1 .. 2 : j = 1 \/ j = 2
    BY SMT
  <2> QED BY <1>3, <1>4, <1>10, <2>2, <2>3, <2>4
<1>11. CASE m = 3
  <2>1. PICK b \in FileBlocks : b = limits(2) + three /\ limits(2) <= b
    <3>1. limits(2) + three \in FileBlocks /\ limits(2) <= limits(2) + three
      BY <1>1, <1>7, LimitsRise, SMT DEF FileBlocks
    <3> QED BY <3>1
  <2>2. mode_of(b) = 3
    BY <2>1, ModeByRange
  <2>3. index_of(b)[1] = x /\ index_of(b)[2] = y /\ index_of(b)[3] = z
    <3> DEFINE X == index_of(b)[1]
               Y == index_of(b)[2]
               Z == index_of(b)[3]
    <3>1. /\ (X * Links + Y) * Links + Z = b - limits(2)
          /\ X \in 0 .. Links - 1 /\ Y \in 0 .. Links - 1 /\ Z \in 0 .. Links - 1
      BY <2>2, PathByMode
    <3> HIDE DEF X, Y, Z
    <3>2. b - limits(2) = three
      BY <2>1, LimitsRise, SMT
    <3>3. X \in Nat /\ y \in 0 .. Links - 1 /\ z \in 0 .. Links - 1 /\ X * Links + Y \in Nat
      BY <1>1, <1>2, <1>4, <1>5, <3>1, SMT
    <3>4. PICK w \in Nat : w = X * Links + Y
      BY <3>3
    <3>5. w * Links + Z = two * Links + z
      BY <1>7, <3>1, <3>2, <3>4
    <3>6. w = two /\ Z = z
      BY <1>1, <3>1, <3>3, <3>5, DigitsUnique
    <3>7. X * Links + Y = x * Links + y
      BY <1>6, <3>4, <3>6
    <3>8. X = x /\ Y = y
      BY <1>1, <3>1, <3>3, <3>7, DigitsUnique
    <3> QED BY <3>6, <3>8 DEF X, Y, Z
  <2>4. \A j \in 1 .. 3 : j = 1 \/ j = 2 \/ j = 3
    BY SMT
  <2> QED BY <1>3, <1>4, <1>5, <1>11, <2>2, <2>3, <2>4
<1>12. m = 0 \/ m = 1 \/ m = 2 \/ m = 3
  BY SMT
<1> QED BY <1>8, <1>9, <1>10, <1>11, <1>12

-----------------------------------------------------------------------------
(* parse_buf.  A loop that goes on to the first position in T.              *)
RunsOn(f, T, n) == f = [p \in 1 .. n |-> IF p \in T THEN p ELSE f[p + 1]]

FirstAt(T, p, q) == q \in T /\ p <= q /\ \A r \in T : p <= r => q <= r

LEMMA FirstExists ==
  ASSUME NEW n \in Nat, NEW T, T \subseteq 1 .. n, n \in T, NEW p \in 1 .. n
  PROVE  \E q : FirstAt(T, p, q)
<1> DEFINE U == {q \in T : p <= q}
<1>1. U \subseteq Nat /\ n \in U
  <2>1. p <= n /\ \A q \in 1 .. n : q \in Nat
    BY SMT
  <2> QED BY <2>1
<1> HIDE DEF U
<1>2. PICK q \in U : \A r \in U : q <= r
  BY <1>1, LeastOne
<1> QED BY <1>2 DEF U, FirstAt

LEMMA RunsExist ==
  ASSUME NEW n \in Nat, NEW T, T \subseteq 1 .. n, n \in T
  PROVE  \E f : RunsOn(f, T, n)
<1> DEFINE f == [p \in 1 .. n |-> CHOOSE q : FirstAt(T, p, q)]
<1>1. \A p \in 1 .. n : f[p] = CHOOSE q : FirstAt(T, p, q)
  OBVIOUS
<1>2. ASSUME NEW p \in 1 .. n PROVE f[p] = IF p \in T THEN p ELSE f[p + 1]
  <2>0. FirstAt(T, p, f[p])
    BY <1>1, FirstExists
  <2>1. CASE p \in T
    <3>1. f[p] \in T /\ p <= f[p] /\ f[p] <= p
      BY <2>0, <2>1, SMT DEF FirstAt
    <3>2. f[p] = p
      <4>1. PICK q \in 1 .. n : q = f[p]
        BY <3>1
      <4>2. p <= q /\ q <= p
        BY <3>1, <4>1
      <4> QED BY <4>1, <4>2, SMT
    <3> QED BY <2>1, <3>2
  <2>2. CASE p \notin T
    <3>1. p + 1 \in 1 .. n
      <4>1. p # n
        BY <2>2
      <4> QED BY <4>1, SMT
    <3>2. \A r \in T : p <= r <=> p + 1 <= r
      <4> TAKE r \in T
      <4>1. r # p /\ r \in Nat /\ p \in Nat
        BY <2>2, SMT
      <4> QED BY <4>1, SMT
    <3>3. \A q : FirstAt(T, p, q) <=> FirstAt(T, p + 1, q)
      BY <3>2 DEF FirstAt
    <3>4. (CHOOSE q : FirstAt(T, p, q)) = (CHOOSE q : FirstAt(T, p + 1, q))
      BY <3>3
    <3>5. f[p] = f[p + 1]
      BY <1>1, <3>1, <3>4
    <3> QED BY <2>2, <3>5
  <2> QED BY <2>1, <2>2
<1>3. f = [p \in 1 .. n |-> f[p]]
  OBVIOUS
<1> HIDE DEF f
<1>4. RunsOn(f, T, n)
  BY <1>2, <1>3, Zenon DEF RunsOn
<1> QED BY <1>4

LEMMA RunsToFirst ==
  ASSUME NEW n \in Nat, NEW T, T \subseteq 1 .. n, n \in T, NEW f, RunsOn(f, T, n), NEW p \in 1 .. n
  PROVE  /\ f[p] \in T /\ p <= f[p] /\ f[p] <= n /\ f[p] \in Nat
         /\ \A r \in p .. f[p] - 1 : r \notin T
<1> DEFINE S == {k \in Nat : k < n => FirstAt(T, n - k, f[n - k])}
<1>0. \A q \in 1 .. n : f[q] = IF q \in T THEN q ELSE f[q + 1]
  BY Zenon DEF RunsOn
<1>1. ASSUME NEW q \in 1 .. n, q \in T PROVE FirstAt(T, q, f[q])
  <2>1. f[q] = q
    BY <1>0, <1>1
  <2> QED BY <1>1, <2>1, SMT DEF FirstAt
<1>2. 0 \in S
  <2>1. 0 < n => n - 0 = n /\ n \in 1 .. n
    BY SMT
  <2> QED BY <1>1, <2>1
<1>3. ASSUME NEW k \in Nat, k \in S PROVE k + 1 \in S
  <2> SUFFICES ASSUME k + 1 < n PROVE FirstAt(T, n - (k + 1), f[n - (k + 1)])
    OBVIOUS
  <2>1. PICK q : q = n - (k + 1)
    OBVIOUS
  <2>2. q \in 1 .. n /\ q + 1 = n - k /\ k < n
    BY <2>1, SMT
  <2>3. FirstAt(T, q + 1, f[q + 1])
    BY <1>3, <2>2
  <2>4. CASE q \in T
    BY <1>1, <2>1, <2>2, <2>4
  <2>5. CASE q \notin T
    <3>1. f[q] = f[q + 1]
      BY <1>0, <2>2, <2>5
    <3>2. \A r \in T : (q <= r => q + 1 <= r) /\ (q + 1 <= r => q <= r)
      <4> TAKE r \in T
      <4>1. r # q /\ r \in Nat /\ q \in Nat
        BY <2>2, <2>5, SMT
      <4> QED BY <4>1, SMT
    <3> QED BY <2>1, <2>3, <3>1, <3>2 DEF FirstAt
  <2> QED BY <2>4, <2>5
<1>4. Nat \subseteq S
  <2> HIDE DEF S
  <2> QED BY <1>2, <1>3, SetInduction
<1>5. FirstAt(T, p, f[p])
  <2>1. PICK k \in Nat : k = n - p /\ k < n /\ n - k = p
    BY SMT
  <2>2. k \in S
    BY <1>4
  <2> QED BY <2>1, <2>2
<1>6. f[p] \in T /\ p <= f[p] /\ f[p] \in Nat /\ f[p] <= n
  <2>1. f[p] \in T /\ p <= f[p]
    BY <1>5 DEF FirstAt
  <2>2. \A q \in 1 .. n : q \in Nat /\ q <= n
    BY SMT
  <2> QED BY <2>1, <2>2
<1>7. ASSUME NEW r \in p .. f[p] - 1, r \in T PROVE FALSE
  <2>1. f[p] <= r
    BY <1>5, <1>7, SMT DEF FirstAt
  <2> QED BY <1>6, <2>1, SMT
<1> QED BY <1>6, <1>7

-----------------------------------------------------------------------------
(* The characters of a buffer.                                              *)
Lines == Seq({Delim, Plain})

LEMMA BufferIs ==
  ASSUME NEW l \in Lines
  PROVE  /\ Len(l) \in Nat /\ Len(Buffer(l)) = Len(l) + 1
         /\ Buffer(l)[Len(l) + 1] = Nul
         /\ \A i \in 1 .. Len(l) : Buffer(l)[i] = l[i] /\ l[i] \in {Delim, Plain}
         /\ Nul # Delim /\ Nul # Plain /\ Delim # Plain
<1>1. Nul # Delim /\ Nul # Plain /\ Delim # Plain
  BY DEF Nul, Delim, Plain
<1>2. \A n : Len(<<n>>) = 1 /\ <<n>>[1] = n
  OBVIOUS
<1>3. \A n, s, S : s \in Seq(S) => /\ Len(s) \in Nat /\ Len(s \o <<n>>) = Len(s) + 1
                               /\ (s \o <<n>>)[Len(s) + 1] = n
                               /\ \A i \in 1 .. Len(s) : (s \o <<n>>)[i] = s[i] /\ s[i] \in S
  OBVIOUS
<1> QED BY <1>1, <1>3 DEF Lines, Buffer

LEMMA DelimsSkipped ==
  ASSUME NEW l \in Lines, NEW p \in 1 .. Len(l) + 1
  PROVE  LET b == Buffer(l)
             q == SkipDelims(b)[p]
         IN  /\ q \in Nat /\ p <= q /\ q <= Len(l) + 1 /\ b[q] # Delim
             /\ \A r \in p .. q - 1 : b[r] = Delim
<1> DEFINE b == Buffer(l)
           n == Len(l) + 1
           T == {q \in 1 .. n : b[q] # Delim}
           G(g) == [q \in 1 .. Len(b) |-> IF in_delim(b[q]) THEN g[q + 1] ELSE q]
           f == CHOOSE g : g = G(g)
<1>1. SkipDelims(b) = f
  BY DEF SkipDelims
<1>2. n \in Nat /\ Len(b) = n /\ T \subseteq 1 .. n /\ n \in T
  <2>1. Len(l) \in Nat /\ Len(b) = n /\ b[n] # Delim
    BY BufferIs
  <2>2. n \in Nat /\ n \in 1 .. n
    BY <2>1, SMT
  <2> QED BY <2>1, <2>2
<1> HIDE DEF b, n
<1>3. \A g : RunsOn(g, T, n) <=> g = G(g)
  <2> TAKE g
  <2>1. [q \in 1 .. n |-> IF q \in T THEN q ELSE g[q + 1]] = G(g)
    BY <1>2 DEF in_delim
  <2> HIDE DEF G
  <2> QED BY <2>1 DEF RunsOn
<1> HIDE DEF G
<1>4. \E g : g = G(g)
  <2> HIDE DEF T
  <2> QED BY <1>2, <1>3, RunsExist
<1>5. RunsOn(f, T, n)
  BY <1>3, <1>4
<1> HIDE DEF f
<1>6. p \in 1 .. n
  BY DEF n
<1>7. /\ f[p] \in T /\ p <= f[p] /\ f[p] <= n /\ f[p] \in Nat
      /\ \A r \in p .. f[p] - 1 : r \notin T
  <2> HIDE DEF T
  <2> QED BY <1>2, <1>5, <1>6, RunsToFirst
<1>8. \A r \in p .. f[p] - 1 : r \in 1 .. n
  BY <1>2, <1>6, <1>7, SMT
<1>9. /\ f[p] \in Nat /\ p <= f[p] /\ f[p] <= n /\ b[f[p]] # Delim
      /\ \A r \in p .. f[p] - 1 : b[r] = Delim
  BY <1>7, <1>8
<1> QED BY <1>1, <1>9 DEF b, n

LEMMA WordSkipped ==
  ASSUME NEW l \in Lines, NEW p \in 1 .. Len(l) + 1
  PROVE  LET b == Buffer(l)
             q == SkipWord(b)[p]
         IN  /\ q \in Nat /\ p <= q /\ q <= Len(l) + 1 /\ b[q] \in {Nul, Delim}
             /\ \A r \in p .. q - 1 : b[r] \notin {Nul, Delim}
<1> DEFINE b == Buffer(l)
           n == Len(l) + 1
           T == {q \in 1 .. n : b[q] \in {Nul, Delim}}
           G(g) == [q \in 1 .. Len(b) |-> IF b[q] # Nul /\ ~in_delim(b[q]) THEN g[q + 1] ELSE q]
           f == CHOOSE g : g = G(g)
<1>1. SkipWord(b) = f
  BY DEF SkipWord
<1>2. n \in Nat /\ Len(b) = n /\ T \subseteq 1 .. n /\ n \in T
  <2>1. Len(l) \in Nat /\ Len(b) = n /\ b[n] = Nul
    BY BufferIs
  <2>2. n \in Nat /\ n \in 1 .. n
    BY <2>1, SMT
  <2> QED BY <2>1, <2>2
<1> HIDE DEF b, n
<1>3. \A g : RunsOn(g, T, n) <=> g = G(g)
  <2> TAKE g
  <2>1. [q \in 1 .. n |-> IF q \in T THEN q ELSE g[q + 1]] = G(g)
    BY <1>2 DEF in_delim
  <2> HIDE DEF G
  <2> QED BY <2>1 DEF RunsOn
<1> HIDE DEF G
<1>4. \E g : g = G(g)
  <2> HIDE DEF T
  <2> QED BY <1>2, <1>3, RunsExist
<1>5. RunsOn(f, T, n)
  BY <1>3, <1>4
<1> HIDE DEF f
<1>6. p \in 1 .. n
  BY DEF n
<1>7. /\ f[p] \in T /\ p <= f[p] /\ f[p] <= n /\ f[p] \in Nat
      /\ \A r \in p .. f[p] - 1 : r \notin T
  <2> HIDE DEF T
  <2> QED BY <1>2, <1>5, <1>6, RunsToFirst
<1>8. \A r \in p .. f[p] - 1 : r \in 1 .. n
  BY <1>2, <1>6, <1>7, SMT
<1>9. /\ f[p] \in Nat /\ p <= f[p] /\ f[p] <= n /\ b[f[p]] \in {Nul, Delim}
      /\ \A r \in p .. f[p] - 1 : b[r] \notin {Nul, Delim}
  BY <1>7, <1>8
<1> QED BY <1>1, <1>9 DEF b, n

-----------------------------------------------------------------------------
(* Where words begin, and the delimiters behind them, from p on.            *)
Begins(l, p) == {q \in 1 .. Len(l) : p <= q /\ l[q] = Plain /\ (q = 1 \/ l[q - 1] = Delim)}
Closes(l, p) == {q \in 1 .. Len(l) : p <= q /\ l[q] = Delim /\ q # 1 /\ l[q - 1] = Plain}

(* One pass of the outer loop at p, f being what the later ones find.       *)
CutAt(b, p)  == IF Cut(b, p) THEN {p} ELSE {}
WordAtOr(b, p) == SkipDelims(b)[IF CutAt(b, p) = {} THEN p ELSE p + 1]

Pass(b, len, f, p) ==
  IF p - 1 >= len THEN NoWords
  ELSE IF b[WordAtOr(b, p)] = Nul THEN [argv |-> <<>>, cut |-> CutAt(b, p)]
  ELSE [argv |-> <<WordAtOr(b, p)>> \o f[SkipWord(b)[WordAtOr(b, p)]].argv,
        cut  |-> CutAt(b, p) \cup f[SkipWord(b)[WordAtOr(b, p)]].cut]

PassesFrom(b, len, f, m) == f = [p \in m .. Len(b) |-> Pass(b, len, f, p)]

(* What a pass reads. *)
LEMMA PassReads ==
  ASSUME NEW l \in Lines, NEW p \in 1 .. Len(l) + 1
  PROVE  LET b == Buffer(l)
             w == WordAtOr(b, p)
             e == SkipWord(b)[w]
             c == IF CutAt(b, p) = {} THEN p ELSE p + 1
         IN  /\ CutAt(b, p) = IF p # 1 /\ b[p] # Nul THEN {p} ELSE {}
             /\ c \in Nat /\ c <= w /\ w \in 1 .. Len(l) + 1 /\ c \in 1 .. Len(l) + 1
             /\ b[w] \in {Nul, Plain} /\ \A r \in c .. w - 1 : b[r] = Delim
             /\ b[w] # Nul => /\ w \in 1 .. Len(l) /\ e \in 1 .. Len(l) + 1 /\ w < e
                              /\ b[e] \in {Nul, Delim} /\ \A r \in w .. e - 1 : b[r] = Plain
<1> DEFINE b == Buffer(l)
           n == Len(l)
           w == WordAtOr(b, p)
           e == SkipWord(b)[w]
           c == IF CutAt(b, p) = {} THEN p ELSE p + 1
<1>1. /\ n \in Nat /\ Len(b) = n + 1 /\ b[n + 1] = Nul
      /\ \A i \in 1 .. n : b[i] = l[i] /\ l[i] \in {Delim, Plain}
      /\ Nul # Delim /\ Nul # Plain /\ Delim # Plain
  BY BufferIs
<1>2. p > 1 <=> p # 1
  BY <1>1, SMT
<1>3. CutAt(b, p) = IF p # 1 /\ b[p] # Nul THEN {p} ELSE {}
  BY <1>2 DEF CutAt, Cut
<1>4. c \in 1 .. n + 1 /\ c \in Nat
  <2>1. CASE CutAt(b, p) = {}
    BY <1>1, <2>1, SMT
  <2>2. CASE CutAt(b, p) # {}
    <3>1. p # n + 1
      BY <1>1, <1>3, <2>2
    <3> HIDE DEF b, n
    <3> QED BY <1>1, <2>2, <3>1, SMT DEF n
  <2> QED BY <2>1, <2>2
<1>5. w = SkipDelims(b)[c]
  BY DEF WordAtOr
<1> HIDE DEF c, w
<1>6. w \in Nat /\ c <= w /\ w <= n + 1 /\ b[w] # Delim /\ \A r \in c .. w - 1 : b[r] = Delim
  BY <1>4, <1>5, DelimsSkipped
<1> HIDE DEF b, n
<1>7. w \in 1 .. n + 1 /\ (w # n + 1 => w \in 1 .. n)
  BY <1>1, <1>4, <1>6, SMT
<1>8. b[w] \in {Nul, Plain}
  BY <1>1, <1>6, <1>7
<1>9. ASSUME b[w] # Nul
      PROVE  /\ w \in 1 .. n /\ e \in 1 .. n + 1 /\ w < e
             /\ b[e] \in {Nul, Delim} /\ \A r \in w .. e - 1 : b[r] = Plain
  <2>1. w \in 1 .. n
    BY <1>1, <1>7, <1>9
  <2>2. /\ e \in Nat /\ w <= e /\ e <= n + 1 /\ b[e] \in {Nul, Delim}
        /\ \A r \in w .. e - 1 : b[r] \notin {Nul, Delim}
    BY <1>7, WordSkipped DEF b, n
  <2>3. w # e
    BY <1>6, <1>9, <2>2
  <2> HIDE DEF e
  <2>4. e \in 1 .. n + 1 /\ w < e
    BY <1>1, <2>1, <2>2, <2>3, SMT
  <2>5. \A r \in w .. e - 1 : r \in 1 .. n
    BY <1>1, <2>1, <2>2, SMT
  <2> QED BY <1>1, <2>1, <2>2, <2>4, <2>5 DEF e
<1> QED BY <1>3, <1>4, <1>6, <1>7, <1>8, <1>9 DEF b, n, c, w

(* What a pass finds depends on the later ones only. *)
LEMMA PassLater ==
  ASSUME NEW l \in Lines, NEW p \in 1 .. Len(l) + 1, NEW len, NEW f, NEW g,
         \A q \in 1 .. Len(l) + 1 : p < q => f[q] = g[q]
  PROVE  Pass(Buffer(l), len, f, p) = Pass(Buffer(l), len, g, p)
<1> DEFINE b == Buffer(l)
           w == WordAtOr(b, p)
           e == SkipWord(b)[w]
           c == IF CutAt(b, p) = {} THEN p ELSE p + 1
<1>1. /\ c \in Nat /\ c <= w /\ w \in 1 .. Len(l) + 1
      /\ b[w] # Nul => /\ w \in 1 .. Len(l) /\ e \in 1 .. Len(l) + 1 /\ w < e
  BY PassReads
<1>2. Len(l) \in Nat /\ p <= c
  BY BufferIs, SMT
<1> HIDE DEF e, w, b, c
<1>3. b[w] # Nul => f[e] = g[e]
  <2> SUFFICES ASSUME b[w] # Nul PROVE f[e] = g[e]
    OBVIOUS
  <2>1. p < e
    BY <1>1, <1>2, SMT
  <2> QED BY <1>1, <2>1
<1> QED BY <1>3, Zenon DEF e, w, b, Pass

LEMMA PassesExist ==
  ASSUME NEW l \in Lines, NEW len
  PROVE  \E f : PassesFrom(Buffer(l), len, f, 1)
<1> DEFINE b == Buffer(l)
           n == Len(l) + 1
           S == {k \in Nat : k <= n => \E f : PassesFrom(b, len, f, n - k + 1)}
<1>1. Len(b) = n /\ n \in Nat
  BY BufferIs
<1>2. 0 \in S
  <2>1. n - 0 + 1 .. n = {}
    BY <1>1, SMT
  <2> DEFINE f == [p \in n - 0 + 1 .. n |-> 0]
  <2>2. PassesFrom(b, len, f, n - 0 + 1)
    BY <1>1, <2>1 DEF PassesFrom
  <2> HIDE DEF f
  <2> QED BY <2>2
<1>3. ASSUME NEW k \in Nat, k \in S PROVE k + 1 \in S
  <2> SUFFICES ASSUME k + 1 <= n PROVE \E f : PassesFrom(b, len, f, n - (k + 1) + 1)
    OBVIOUS
  <2>1. PICK m \in 1 .. n : m = n - (k + 1) + 1 /\ m + 1 = n - k + 1 /\ k <= n
    <3> HIDE DEF n
    <3> DEFINE m == n - (k + 1) + 1
    <3>1. m \in 1 .. n /\ m + 1 = n - k + 1 /\ k <= n
      BY <1>1, SMT
    <3> QED BY <3>1
  <2>2. PICK f : PassesFrom(b, len, f, m + 1)
    BY <1>3, <2>1
  <2> DEFINE g == [p \in m .. n |-> IF p = m THEN Pass(b, len, f, m) ELSE f[p]]
  <2>3. \A p \in m .. n : p # m => g[p] = f[p] /\ p \in m + 1 .. n
    BY <1>1, SMT
  <2>4. g[m] = Pass(b, len, f, m) /\ m \in m .. n /\ g = [p \in m .. n |-> g[p]]
    BY <1>1, SMT
  <2> HIDE DEF g
  <2>5. \A p \in m + 1 .. n : f[p] = Pass(b, len, f, p)
    BY <1>1, <2>2, Zenon DEF PassesFrom
  <2>6. ASSUME NEW p \in m .. n PROVE Pass(b, len, f, p) = Pass(b, len, g, p)
    <3>1. p \in 1 .. n
      BY <1>1, SMT
    <3>2. \A q \in 1 .. n : p < q => q \in m .. n /\ q # m
      BY <1>1, SMT
    <3>3. \A q \in 1 .. n : p < q => f[q] = g[q]
      BY <2>3, <3>2
    <3> QED BY <3>1, <3>3, PassLater
  <2>7. ASSUME NEW p \in m .. n PROVE g[p] = Pass(b, len, g, p)
    <3>1. CASE p = m
      BY <2>4, <2>6, <3>1
    <3>2. CASE p # m
      BY <2>3, <2>5, <2>6, <3>2
    <3> QED BY <3>1, <3>2
  <2>8. PassesFrom(b, len, g, m)
    BY <1>1, <2>4, <2>7, Zenon DEF PassesFrom
  <2> QED BY <2>1, <2>8
<1>4. Nat \subseteq S
  <2> HIDE DEF S
  <2> QED BY <1>2, <1>3, SetInduction
<1>5. n \in S /\ n - n + 1 = 1 /\ n <= n
  BY <1>1, <1>4, SMT
<1> QED BY <1>5

LEMMA SplitPasses ==
  ASSUME NEW l \in Lines, NEW len
  PROVE  PassesFrom(Buffer(l), len, SplitFrom(Buffer(l), len), 1)
<1> DEFINE b == Buffer(l)
           G(f) == [p \in 1 .. Len(b) |->
             IF p - 1 >= len THEN NoWords
             ELSE LET cut  == IF Cut(b, p) THEN {p} ELSE {}
                      word == SkipDelims(b)[IF cut = {} THEN p ELSE p + 1]
                  IN  IF b[word] = Nul
                      THEN [argv |-> <<>>, cut |-> cut]
                      ELSE LET rest == f[SkipWord(b)[word]]
                           IN  [argv |-> <<word>> \o rest.argv, cut |-> cut \cup rest.cut]]
           s == CHOOSE f : f = G(f)
<1>1. SplitFrom(b, len) = s
  BY DEF SplitFrom
<1>2. \A f : PassesFrom(b, len, f, 1) <=> f = G(f)
  <2> TAKE f
  <2>1. [p \in 1 .. Len(b) |-> Pass(b, len, f, p)] = G(f)
    BY Zenon DEF Pass, CutAt, WordAtOr
  <2> HIDE DEF G
  <2> QED BY <2>1 DEF PassesFrom
<1>3. \E f : f = G(f)
  <2> HIDE DEF G
  <2> QED BY <1>2, PassesExist
<1>4. s = G(s)
  <2> HIDE DEF G
  <2> QED BY <1>3
<1> HIDE DEF s, G
<1> QED BY <1>1, <1>2, <1>4

-----------------------------------------------------------------------------
(* A pass is at a delimiter, or the NUL, behind a word, or at the start.    *)
AtWordEnd(l, p) == p # 1 => l[p - 1] = Plain /\ Buffer(l)[p] # Plain

Rising(s) == \A i \in 1 .. Len(s) - 1 : s[i] < s[i + 1]
ListsAll(s, T) == s \in Seq(Nat) /\ Rising(s) /\ {s[i] : i \in DOMAIN s} = T

RightFrom(v, l, p) == ListsAll(v.argv, Begins(l, p)) /\ v.cut = Closes(l, p)

LEMMA NothingListed == ListsAll(<<>>, {})
<1>1. <<>> \in Seq(Nat) /\ DOMAIN <<>> = {} /\ Len(<<>>) = 0
  OBVIOUS
<1>2. \A i \in 1 .. 0 - 1 : FALSE
  BY SMT
<1> QED BY <1>1, <1>2 DEF ListsAll, Rising

LEMMA OneListed ==
  ASSUME NEW w \in Nat, NEW s, NEW T, ListsAll(s, T), \A t \in T : w < t
  PROVE  ListsAll(<<w>> \o s, {w} \cup T)
<1> DEFINE u == <<w>> \o s
<1>1. /\ s \in Seq(Nat) /\ Len(s) \in Nat /\ DOMAIN s = 1 .. Len(s)
      /\ \A i \in 1 .. Len(s) : s[i] \in Nat /\ s[i] \in T
  BY DEF ListsAll
<1>2. /\ u \in Seq(Nat) /\ Len(u) = Len(s) + 1 /\ u[1] = w /\ DOMAIN u = 1 .. Len(s) + 1
      /\ \A i \in 1 .. Len(s) : u[i + 1] = s[i]
  BY <1>1, SMT
<1> HIDE DEF u
<1>3. ASSUME NEW i \in 1 .. Len(u) - 1 PROVE u[i] < u[i + 1]
  <2>1. i \in 1 .. Len(s)
    BY <1>1, <1>2, SMT
  <2>2. CASE i = 1
    BY <1>1, <1>2, <2>1, <2>2
  <2>3. CASE i # 1
    <3>1. PICK j \in 1 .. Len(s) - 1 : i = j + 1
      <4>1. i - 1 \in 1 .. Len(s) - 1 /\ i = (i - 1) + 1
        BY <1>1, <2>1, <2>3, SMT
      <4> QED BY <4>1
    <3>2. j \in 1 .. Len(s)
      BY <1>1, SMT
    <3>3. u[i] = s[j] /\ u[i + 1] = s[i]
      BY <1>2, <2>1, <3>1, <3>2
    <3>4. s[j] < s[j + 1]
      BY DEF ListsAll, Rising
    <3> QED BY <3>1, <3>3, <3>4
  <2> QED BY <2>2, <2>3
<1>4. {u[i] : i \in DOMAIN u} = {w} \cup T
  <2>1. ASSUME NEW i \in DOMAIN u PROVE u[i] \in {w} \cup T
    <3>1. CASE i = 1
      BY <1>2, <3>1
    <3>2. CASE i # 1
      <4>1. PICK j \in 1 .. Len(s) : i = j + 1
        <5>1. i - 1 \in 1 .. Len(s) /\ i = (i - 1) + 1
          BY <1>1, <1>2, <3>2, SMT
        <5> QED BY <5>1
      <4> QED BY <1>1, <1>2, <4>1
    <3> QED BY <3>1, <3>2
  <2>2. ASSUME NEW t \in T PROVE \E i \in DOMAIN u : u[i] = t
    <3>1. PICK j \in DOMAIN s : s[j] = t
      BY DEF ListsAll
    <3>2. j \in 1 .. Len(s) /\ j + 1 \in 1 .. Len(s) + 1
      BY <1>1, <3>1, SMT
    <3> QED BY <1>2, <3>1, <3>2
  <2>3. 1 \in DOMAIN u
    BY <1>1, <1>2, SMT
  <2> QED BY <1>2, <2>1, <2>2, <2>3
<1>5. Rising(u)
  BY <1>3 DEF Rising
<1> QED BY <1>2, <1>4, <1>5 DEF ListsAll, u

(* What lies between a word's end and the next word.                        *)
LEMMA BeginsAndCloses ==
  ASSUME NEW l \in Lines, NEW p \in 1 .. Len(l) + 1, AtWordEnd(l, p)
  PROVE  LET b == Buffer(l)
             w == WordAtOr(b, p)
             e == SkipWord(b)[w]
         IN  /\ b[w] = Nul => Begins(l, p) = {} /\ Closes(l, p) = CutAt(b, p)
             /\ b[w] # Nul => /\ Begins(l, p) = {w} \cup Begins(l, e)
                              /\ Closes(l, p) = CutAt(b, p) \cup Closes(l, e)
                              /\ AtWordEnd(l, e) /\ w \in Nat /\ \A t \in Begins(l, e) : w < t
                              /\ e \in 1 .. Len(l) + 1 /\ p < e
<1> DEFINE b == Buffer(l)
           n == Len(l)
           w == WordAtOr(b, p)
           e == SkipWord(b)[w]
           c == IF CutAt(b, p) = {} THEN p ELSE p + 1
<1>1. /\ n \in Nat /\ Len(b) = n + 1 /\ b[n + 1] = Nul
      /\ \A i \in 1 .. n : b[i] = l[i] /\ l[i] \in {Delim, Plain}
      /\ Nul # Delim /\ Nul # Plain /\ Delim # Plain
  BY BufferIs
<1>2. /\ CutAt(b, p) = IF p # 1 /\ b[p] # Nul THEN {p} ELSE {}
      /\ c \in Nat /\ c <= w /\ w \in 1 .. n + 1 /\ c \in 1 .. n + 1
      /\ b[w] \in {Nul, Plain} /\ \A r \in c .. w - 1 : b[r] = Delim
      /\ b[w] # Nul => /\ w \in 1 .. n /\ e \in 1 .. n + 1 /\ w < e
                       /\ b[e] \in {Nul, Delim} /\ \A r \in w .. e - 1 : b[r] = Plain
  BY PassReads
<1>3. /\ CutAt(b, p) = {} => c = p
      /\ CutAt(b, p) # {} => c = p + 1
  OBVIOUS
<1>4. p # 1 => b[p] # Plain /\ p - 1 \in 1 .. n /\ l[p - 1] = Plain
  <2>1. p # 1 => p - 1 \in 1 .. n
    BY <1>1, SMT
  <2> QED BY <2>1 DEF AtWordEnd
<1>5. p \in Nat /\ (p # n + 1 => p \in 1 .. n) /\ (b[p] # Nul => p # n + 1)
  BY <1>1, SMT
<1> HIDE DEF b, n, w, e, c
(* Where the search for the next word starts, it is at or behind p.         *)
<1>6. \/ p = 1 /\ c = 1 /\ CutAt(b, p) = {}
      \/ p = n + 1 /\ c = p /\ CutAt(b, p) = {}
      \/ p \in 1 .. n /\ p # 1 /\ c = p + 1 /\ CutAt(b, p) = {p} /\ l[p] = Delim
  BY <1>1, <1>2, <1>3, <1>4, <1>5
<1>7. c # 1 /\ c # n + 1 => c - 1 = p /\ l[p] = Delim
  <2>1. c = p + 1 => c - 1 = p
    BY <1>5, SMT
  <2> QED BY <1>6, <2>1
<1>8. ASSUME NEW q \in 1 .. n, p <= q, q < c PROVE q \in CutAt(b, p)
  <2>1. c = p + 1 => q = p
    BY <1>5, <1>8, SMT
  <2>2. ~(q < q)
    BY SMT
  <2>3. ~(c = p)
    BY <1>5, <1>8, SMT
  <2> QED BY <1>6, <2>1, <2>3
<1>9. ASSUME NEW q \in 1 .. n, c <= q, q < w
      PROVE  q \notin Begins(l, p) /\ q \notin Closes(l, p)
  <2>1. q \in c .. w - 1
    BY <1>2, <1>9, SMT
  <2>2. l[q] = Delim
    BY <1>1, <1>2, <2>1
  <2>3. ASSUME q # 1 PROVE l[q - 1] = Delim
    <3>1. CASE q = c
      <4>1. c # n + 1
        BY <1>1, <3>1, SMT
      <4> QED BY <1>7, <2>3, <3>1, <4>1
    <3>2. CASE q # c
      <4>1. c \in Nat /\ w \in Nat /\ q \in Nat /\ 1 <= c /\ w <= n + 1
        BY <1>1, <1>2, SMT
      <4>2. c < q
        BY <1>9, <3>2, <4>1, SMT
      <4>3. q - 1 \in c .. w - 1 /\ q - 1 \in 1 .. n
        BY <1>1, <1>9, <4>1, <4>2, SMT
      <4> QED BY <1>1, <1>2, <4>3
    <3> QED BY <3>1, <3>2
  <2> QED BY <1>1, <2>2, <2>3 DEF Begins, Closes
<1>10. /\ CutAt(b, p) \subseteq Closes(l, p)
       /\ \A q \in CutAt(b, p) : q \notin Begins(l, p)
  <2>1. ASSUME NEW q \in CutAt(b, p) PROVE q \in Closes(l, p) /\ q \notin Begins(l, p)
    <3>1. q = p /\ p \in 1 .. n /\ p # 1 /\ l[p] = Delim /\ l[p - 1] = Plain
      BY <1>4, <1>6
    <3>2. p <= p
      BY SMT
    <3> QED BY <1>1, <3>1, <3>2 DEF Begins, Closes, n
  <2> QED BY <2>1
<1>11. CASE b[w] = Nul
  <2>1. w = n + 1
    <3>1. w \notin 1 .. n
      BY <1>1, <1>11
    <3> QED BY <1>1, <1>2, <3>1, SMT
  <2>2. ASSUME NEW q \in 1 .. n, p <= q
        PROVE  q \notin Begins(l, p) /\ (q \in Closes(l, p) => q \in CutAt(b, p))
    <3>1. q < w
      BY <1>1, <2>1, SMT
    <3>2. CASE q < c
      BY <1>8, <1>10, <2>2, <3>2
    <3>3. CASE c <= q
      BY <1>9, <3>1, <3>3
    <3> QED BY <1>2, <3>2, <3>3, SMT
  <2>3. Begins(l, p) = {} /\ Closes(l, p) \subseteq CutAt(b, p)
    BY <2>2 DEF Begins, Closes, n
  <2> QED BY <1>10, <1>11, <2>3 DEF b, w
<1>12. CASE b[w] # Nul
  <2>1. /\ w \in 1 .. n /\ e \in 1 .. n + 1 /\ w < e /\ l[w] = Plain
        /\ b[e] \in {Nul, Delim} /\ \A r \in w .. e - 1 : b[r] = Plain
    BY <1>1, <1>2, <1>12
  <2>2. p <= w /\ p < e
    BY <1>1, <1>2, <1>5, <1>6, <2>1, SMT
  <2>3. w \in Begins(l, p) /\ w \notin Closes(l, p)
    <3>1. ASSUME w # 1 PROVE l[w - 1] = Delim
      <4>1. CASE w = c
        <5>1. c # n + 1
          BY <1>1, <2>1, <4>1, SMT
        <5> QED BY <1>7, <3>1, <4>1, <5>1
      <4>2. CASE w # c
        <5>1. w - 1 \in c .. w - 1 /\ w - 1 \in 1 .. n
          BY <1>1, <1>2, <2>1, <3>1, <4>2, SMT
        <5> QED BY <1>1, <1>2, <5>1
      <4> QED BY <4>1, <4>2
    <3> QED BY <1>1, <2>1, <2>2, <3>1 DEF Begins, Closes, n
  <2>4. ASSUME NEW q \in 1 .. n, w < q, q < e
        PROVE  q \notin Begins(l, p) /\ q \notin Closes(l, p)
    <3>1. q \in w .. e - 1 /\ q - 1 \in w .. e - 1 /\ q - 1 \in 1 .. n /\ q # 1
      BY <1>1, <2>1, <2>4, SMT
    <3>2. l[q] = Plain /\ l[q - 1] = Plain
      BY <1>1, <2>1, <3>1
    <3> QED BY <1>1, <3>1, <3>2 DEF Begins, Closes
  <2>5. ASSUME NEW q \in 1 .. n, e <= q
        PROVE  /\ q \in Begins(l, p) <=> q \in Begins(l, e)
               /\ q \in Closes(l, p) <=> q \in Closes(l, e)
    <3>1. p <= q
      BY <1>5, <2>1, <2>2, <2>5, SMT
    <3> QED BY <2>5, <3>1 DEF Begins, Closes
  <2>6. ASSUME NEW q \in 1 .. n, p <= q
        PROVE  /\ q \in Begins(l, p) => q = w \/ q \in Begins(l, e)
               /\ q \in Closes(l, p) => q \in CutAt(b, p) \/ q \in Closes(l, e)
    <3>1. CASE q < c
      BY <1>8, <1>10, <2>6, <3>1
    <3>2. CASE c <= q /\ q < w
      BY <1>9, <3>2
    <3>3. CASE q = w
      BY <2>3, <3>3
    <3>4. CASE w < q /\ q < e
      BY <2>4, <3>4
    <3>5. CASE e <= q
      BY <2>5, <3>5
    <3> QED BY <1>2, <2>1, <3>1, <3>2, <3>3, <3>4, <3>5, SMT
  <2>7. Begins(l, e) \subseteq Begins(l, p) /\ Closes(l, e) \subseteq Closes(l, p)
    BY <2>5 DEF Begins, Closes, n
  <2>8. /\ Begins(l, p) \subseteq {w} \cup Begins(l, e)
        /\ Closes(l, p) \subseteq CutAt(b, p) \cup Closes(l, e)
    <3>1. \A q : q \in Begins(l, p) \/ q \in Closes(l, p) => q \in 1 .. n /\ p <= q
      BY DEF Begins, Closes, n
    <3> QED BY <2>6, <3>1
  <2>9. Begins(l, p) = {w} \cup Begins(l, e) /\ Closes(l, p) = CutAt(b, p) \cup Closes(l, e)
    BY <1>10, <2>3, <2>7, <2>8
  <2>10. AtWordEnd(l, e)
    <3>1. e - 1 \in w .. e - 1 /\ e - 1 \in 1 .. n
      BY <1>1, <2>1, SMT
    <3> QED BY <1>1, <2>1, <3>1 DEF AtWordEnd, b
  <2>11. w \in Nat /\ \A t \in Begins(l, e) : w < t
    <3>1. \A t \in 1 .. n : e <= t => w < t
      BY <1>1, <2>1, SMT
    <3>2. \A t \in Begins(l, e) : t \in 1 .. n /\ e <= t
      BY DEF Begins, n
    <3> QED BY <2>1, <3>1, <3>2, SMT
  <2> QED BY <1>12, <2>1, <2>2, <2>9, <2>10, <2>11 DEF b, w, e, n
<1> QED BY <1>11, <1>12 DEF b, w, e

LEMMA RightEverywhere ==
  ASSUME NEW l \in Lines, NEW len \in Nat, Len(l) <= len, NEW f, PassesFrom(Buffer(l), len, f, 1)
  PROVE  \A p \in 1 .. Len(l) + 1 : AtWordEnd(l, p) => RightFrom(f[p], l, p)
<1> DEFINE b == Buffer(l)
           n == Len(l) + 1
           S == {k \in Nat : \A p \in 1 .. n : n - p <= k /\ AtWordEnd(l, p) => RightFrom(f[p], l, p)}
<1>1. Len(l) \in Nat /\ n \in Nat /\ Len(b) = n
  BY BufferIs
<1>2. \A p \in 1 .. n : f[p] = Pass(b, len, f, p)
  BY <1>1, Zenon DEF PassesFrom
<1>3. ASSUME NEW p \in 1 .. n, AtWordEnd(l, p),
             \A q \in 1 .. n : p < q /\ AtWordEnd(l, q) => RightFrom(f[q], l, q)
      PROVE  RightFrom(f[p], l, p)
  <2>1. CASE p - 1 >= len
    <3>1. \A q \in 1 .. Len(l) : ~(p <= q)
      <4> TAKE q \in 1 .. Len(l)
      <4>1. p \in Nat /\ q \in Nat /\ q <= Len(l)
        BY <1>1, SMT
      <4> QED BY <1>1, <2>1, <4>1, SMT
    <3>2. Begins(l, p) = {} /\ Closes(l, p) = {}
      BY <3>1 DEF Begins, Closes
    <3>3. f[p] = NoWords
      BY <1>2, <2>1 DEF Pass
    <3> QED BY <3>2, <3>3, NothingListed DEF NoWords, RightFrom
  <2>2. CASE ~(p - 1 >= len)
    <3> DEFINE w == WordAtOr(b, p)
               e == SkipWord(b)[w]
    <3>1. /\ b[w] = Nul => Begins(l, p) = {} /\ Closes(l, p) = CutAt(b, p)
          /\ b[w] # Nul => /\ Begins(l, p) = {w} \cup Begins(l, e)
                           /\ Closes(l, p) = CutAt(b, p) \cup Closes(l, e)
                           /\ AtWordEnd(l, e) /\ w \in Nat /\ \A t \in Begins(l, e) : w < t
                           /\ e \in 1 .. Len(l) + 1 /\ p < e
      BY <1>3, BeginsAndCloses
    <3>2. f[p] = IF b[w] = Nul THEN [argv |-> <<>>, cut |-> CutAt(b, p)]
                 ELSE [argv |-> <<w>> \o f[e].argv, cut |-> CutAt(b, p) \cup f[e].cut]
      BY <1>2, <2>2 DEF Pass
    <3> HIDE DEF w, e, b
    <3>3. CASE b[w] = Nul
      <4>1. f[p].argv = <<>> /\ f[p].cut = CutAt(b, p)
        BY <3>2, <3>3
      <4> QED BY <3>1, <3>3, <4>1, NothingListed DEF RightFrom
    <3>4. CASE b[w] # Nul
      <4>1. f[p].argv = <<w>> \o f[e].argv /\ f[p].cut = CutAt(b, p) \cup f[e].cut
        BY <3>2, <3>4
      <4>2. ListsAll(f[e].argv, Begins(l, e)) /\ f[e].cut = Closes(l, e)
        BY <1>3, <3>1, <3>4 DEF RightFrom, n
      <4>3. ListsAll(f[p].argv, {w} \cup Begins(l, e))
        BY <3>1, <3>4, <4>1, <4>2, OneListed
      <4> QED BY <3>1, <3>4, <4>1, <4>2, <4>3 DEF RightFrom
    <3> QED BY <3>3, <3>4
  <2> QED BY <2>1, <2>2
<1> HIDE DEF n
<1>4. 0 \in S
  <2> SUFFICES ASSUME NEW p \in 1 .. n, n - p <= 0, AtWordEnd(l, p) PROVE RightFrom(f[p], l, p)
    OBVIOUS
  <2>1. \A q \in 1 .. n : ~(p < q)
    BY <1>1, SMT
  <2> QED BY <1>3, <2>1
<1>5. ASSUME NEW k \in Nat, k \in S PROVE k + 1 \in S
  <2> SUFFICES ASSUME NEW p \in 1 .. n, n - p <= k + 1, AtWordEnd(l, p) PROVE RightFrom(f[p], l, p)
    OBVIOUS
  <2>1. \A q \in 1 .. n : p < q => n - q <= k
    BY <1>1, SMT
  <2> QED BY <1>3, <1>5, <2>1
<1>6. Nat \subseteq S
  <2> HIDE DEF S
  <2> QED BY <1>4, <1>5, SetInduction
<1>7. ASSUME NEW p \in 1 .. n, AtWordEnd(l, p) PROVE RightFrom(f[p], l, p)
  <2>1. PICK k \in Nat : n - p <= k
    <3>1. n - p \in Nat /\ n - p <= n - p
      BY <1>1, SMT
    <3> QED BY <3>1
  <2>2. k \in S
    BY <1>6
  <2> QED BY <1>7, <2>1, <2>2
<1> QED BY <1>7 DEF n

(* The word that begins at w, and the string that the caller finds there.   *)
LEMMA WordEnds ==
  ASSUME NEW l \in Lines, NEW w \in Begins(l, 1), NEW d,
         d = [p \in 1 .. Len(Buffer(l)) |-> IF p \in Closes(l, 1) THEN Nul ELSE Buffer(l)[p]]
  PROVE  /\ w \in 1 .. Len(l) /\ StringEnd(d, w) - 1 \in 1 .. Len(l)
         /\ \A q \in 1 .. Len(l) : IsWord(l, w, q) <=> q = StringEnd(d, w) - 1
<1> DEFINE b == Buffer(l)
           n == Len(l)
           e == SkipWord(b)[w]
           Ends(q) == d[q] = Nul /\ \A r \in w .. q - 1 : d[r] # Nul
<1>1. /\ n \in Nat /\ Len(b) = n + 1 /\ b[n + 1] = Nul
      /\ \A i \in 1 .. n : b[i] = l[i] /\ l[i] \in {Delim, Plain}
      /\ Nul # Delim /\ Nul # Plain /\ Delim # Plain
  BY BufferIs
<1>2. /\ w \in 1 .. n /\ l[w] = Plain /\ w \in Nat /\ w \in 1 .. n + 1
      /\ w = 1 \/ l[w - 1] = Delim
  <2>1. w \in 1 .. n /\ l[w] = Plain /\ (w = 1 \/ l[w - 1] = Delim)
    BY DEF Begins
  <2> QED BY <1>1, <2>1, SMT
<1>3. /\ e \in Nat /\ w <= e /\ e <= n + 1 /\ b[e] \in {Nul, Delim}
      /\ \A r \in w .. e - 1 : b[r] \notin {Nul, Delim}
  BY <1>2, WordSkipped
<1>4. d = [p \in 1 .. n + 1 |-> IF p \in Closes(l, 1) THEN Nul ELSE b[p]]
  BY <1>1
<1> HIDE DEF b, n, e
<1>5. w # e
  BY <1>1, <1>2, <1>3
<1>6. w < e /\ e - 1 \in w .. e - 1 /\ e - 1 \in 1 .. n /\ e \in 1 .. n + 1 /\ e # 1
  <2>1. 1 <= w
    BY <1>2, SMT
  <2>2. w < e
    BY <1>2, <1>3, <1>5, SMT
  <2> QED BY <1>1, <1>2, <1>3, <2>1, <2>2, SMT
<1>7. ASSUME NEW r \in w .. e - 1 PROVE r \in 1 .. n /\ r \in 1 .. n + 1 /\ l[r] = Plain
  <2>1. r \in 1 .. n /\ r \in 1 .. n + 1
    BY <1>1, <1>2, <1>3, SMT
  <2> QED BY <1>1, <1>3, <2>1
<1>8. e # n + 1 => e \in 1 .. n /\ l[e] = Delim
  <2>1. e # n + 1 => e \in 1 .. n
    BY <1>1, <1>6, SMT
  <2> QED BY <1>1, <1>3, <2>1
<1>9. d[e] = Nul
  <2>1. CASE e = n + 1
    BY <1>1, <1>4, <1>6, <2>1
  <2>2. CASE e # n + 1
    <3>1. e \in Closes(l, 1)
      BY <1>1, <1>6, <1>7, <1>8, <2>2, SMT DEF Closes, n
    <3> QED BY <1>4, <1>6, <3>1
  <2> QED BY <2>1, <2>2
<1>10. ASSUME NEW r \in w .. e - 1 PROVE d[r] # Nul
  <2>1. r \notin Closes(l, 1)
    BY <1>1, <1>7 DEF Closes
  <2> QED BY <1>1, <1>4, <1>7, <2>1
<1>11. e \in w .. n + 1 /\ Ends(e)
  <2>1. e \in w .. n + 1
    BY <1>1, <1>2, <1>3, SMT
  <2> QED BY <1>9, <1>10, <2>1
<1>12. ASSUME NEW q \in w .. n + 1, Ends(q) PROVE q = e
  <2>1. q \in Nat /\ w <= q
    BY <1>1, <1>2, SMT
  <2>2. ~(q < e)
    <3> SUFFICES ASSUME q < e PROVE FALSE
      OBVIOUS
    <3>1. q \in w .. e - 1
      BY <1>2, <1>3, <2>1, SMT
    <3> QED BY <1>10, <1>12, <3>1
  <2>3. ~(e < q)
    <3> SUFFICES ASSUME e < q PROVE FALSE
      OBVIOUS
    <3>1. e \in w .. q - 1
      BY <1>2, <1>3, <2>1, SMT
    <3> QED BY <1>9, <1>12, <3>1
  <2> QED BY <1>3, <2>1, <2>2, <2>3, SMT
<1>13. Len(d) = n + 1
  <2>1. n + 1 \in Nat
    BY <1>1, SMT
  <2> QED BY <1>4, <2>1
<1>14. StringEnd(d, w) = e
  <2>1. StringEnd(d, w) = CHOOSE q \in w .. n + 1 : Ends(q)
    BY <1>13 DEF StringEnd
  <2> HIDE DEF Ends
  <2> QED BY <1>11, <1>12, <2>1
<1>15. IsWord(l, w, e - 1)
  <2>1. w <= e - 1
    BY <1>2, <1>3, <1>6, SMT
  <2>2. \A r \in w .. e - 1 : ~in_delim(l[r])
    BY <1>1, <1>7 DEF in_delim
  <2>3. e - 1 = n \/ in_delim(l[(e - 1) + 1])
    <3>1. (e - 1) + 1 = e /\ (e = n + 1 => e - 1 = n)
      BY <1>1, <1>3, SMT
    <3> QED BY <1>8, <3>1 DEF in_delim
  <2> QED BY <1>2, <2>1, <2>2, <2>3 DEF IsWord, in_delim, n
<1>16. ASSUME NEW q \in 1 .. n, IsWord(l, w, q) PROVE q = e - 1
  <2>1. w <= q /\ (\A r \in w .. q : l[r] # Delim) /\ (q = n \/ l[q + 1] = Delim) /\ q \in Nat
    BY <1>1, <1>16, SMT DEF IsWord, in_delim, n
  <2>2. q < e
    <3> SUFFICES ASSUME ~(q < e) PROVE FALSE
      OBVIOUS
    <3>1. e \in w .. q /\ e # n + 1
      BY <1>1, <1>2, <1>3, <2>1, SMT
    <3> QED BY <1>8, <2>1, <3>1
  <2>3. ~(q + 1 < e)
    <3> SUFFICES ASSUME q + 1 < e PROVE FALSE
      OBVIOUS
    <3>1. q + 1 \in w .. e - 1 /\ q # n
      BY <1>1, <1>2, <1>3, <2>1, SMT
    <3> QED BY <1>1, <1>7, <2>1, <3>1
  <2> QED BY <1>3, <2>1, <2>2, <2>3, SMT
<1> QED BY <1>2, <1>6, <1>14, <1>15, <1>16 DEF n

LEMMA LinesSplit ==
  ASSUME NEW l \in Lines, NEW len \in Nat, Len(l) <= len
  PROVE  SplitsWords(l, len)
<1> DEFINE n == Len(l)
           s == SplitFrom(Buffer(l), len)[1]
           d == [p \in 1 .. Len(Buffer(l)) |-> IF p \in s.cut THEN Nul ELSE Buffer(l)[p]]
           found == {<<s.argv[i], StringEnd(d, s.argv[i]) - 1>> : i \in DOMAIN s.argv}
           words == {w \in (1 .. n) \X (1 .. n) : IsWord(l, w[1], w[2])}
<1>1. n \in Nat /\ 1 \in 1 .. n + 1
  BY BufferIs, SMT
<1>2. RightFrom(s, l, 1)
  <2>1. AtWordEnd(l, 1)
    BY DEF AtWordEnd
  <2> QED BY <1>1, <2>1, SplitPasses, RightEverywhere
<1>3. parse_buf(l, len) = [argv |-> s.argv, buf |-> d]
  BY DEF parse_buf
<1> HIDE DEF s
<1>4. /\ s.argv \in Seq(Nat) /\ Rising(s.argv)
      /\ {s.argv[i] : i \in DOMAIN s.argv} = Begins(l, 1)
      /\ s.cut = Closes(l, 1)
  BY <1>2 DEF RightFrom, ListsAll
<1>5. d = [p \in 1 .. Len(Buffer(l)) |-> IF p \in Closes(l, 1) THEN Nul ELSE Buffer(l)[p]]
  BY <1>4
<1> HIDE DEF d
<1>6. \A w \in Begins(l, 1) : /\ w \in 1 .. n /\ StringEnd(d, w) - 1 \in 1 .. n
                              /\ \A q \in 1 .. n : IsWord(l, w, q) <=> q = StringEnd(d, w) - 1
  BY <1>5, WordEnds
<1>7. \A p \in 1 .. n, q \in 1 .. n : IsWord(l, p, q) => p \in Begins(l, 1)
  <2> SUFFICES ASSUME NEW p \in 1 .. n, NEW q \in 1 .. n, IsWord(l, p, q) PROVE p \in Begins(l, 1)
    OBVIOUS
  <2>1. p <= q /\ p \in p .. q /\ 1 <= p
    BY <1>1, SMT DEF IsWord
  <2>2. l[p] # Delim /\ (p = 1 \/ l[p - 1] = Delim)
    BY <2>1 DEF IsWord, in_delim
  <2>3. l[p] \in {Delim, Plain}
    BY BufferIs
  <2> QED BY <2>1, <2>2, <2>3 DEF Begins
<1>8. found = {<<w, StringEnd(d, w) - 1>> : w \in Begins(l, 1)}
  BY <1>4
<1> HIDE DEF found
<1>9. found \subseteq words
  <2> SUFFICES ASSUME NEW w \in Begins(l, 1) PROVE <<w, StringEnd(d, w) - 1>> \in words
    BY <1>8
  <2>1. PICK q \in 1 .. n : q = StringEnd(d, w) - 1
    BY <1>6
  <2>2. w \in 1 .. n /\ IsWord(l, w, q)
    BY <1>6, <2>1
  <2>3. <<w, q>> \in words
    BY <2>2
  <2> QED BY <2>1, <2>3
<1>10. words \subseteq found
  <2> SUFFICES ASSUME NEW p \in 1 .. n, NEW q \in 1 .. n, IsWord(l, p, q) PROVE <<p, q>> \in found
    OBVIOUS
  <2>1. p \in Begins(l, 1)
    BY <1>7
  <2>2. q = StringEnd(d, p) - 1
    BY <1>6, <2>1
  <2> QED BY <1>8, <2>1, <2>2
<1>11. found = words
  BY <1>9, <1>10
<1> HIDE DEF words
<1>12. \A i \in 1 .. Len(s.argv) - 1 : s.argv[i] < s.argv[i + 1]
  BY <1>4 DEF Rising
<1> QED BY <1>3, <1>11, <1>12 DEF SplitsWords, found, words, n

-----------------------------------------------------------------------------
(* A line grows up to the bound.                                            *)
LineOK == topic = "line" => line \in Lines /\ Len(line) <= MaxLine

LEMMA LinesStay ==
  ASSUME LineOK, [InputNext]_inputs
  PROVE  LineOK'
<1>1. CASE NextBlock
  BY <1>1 DEF NextBlock, LineOK
<1>2. CASE NextCharacter
  <2>1. topic = "line" /\ line \in Lines /\ Len(line) < MaxLine /\ topic' = topic
    BY <1>2 DEF NextCharacter, LineOK
  <2>2. PICK c \in {Delim, Plain} : line' = Append(line, c)
    BY <1>2 DEF NextCharacter
  <2>3. \A s : s \in Seq({Delim, Plain}) => /\ Append(s, c) \in Seq({Delim, Plain})
                                           /\ Len(s) \in Nat /\ Len(Append(s, c)) = Len(s) + 1
    BY <2>2
  <2>4. line' \in Lines /\ Len(line) \in Nat /\ Len(line') = Len(line) + 1
    BY <2>1, <2>2, <2>3 DEF Lines
  <2>5. Len(line') <= MaxLine
    BY <2>1, <2>4, LineAssumption, SMT
  <2> QED BY <2>4, <2>5 DEF LineOK
<1>3. CASE Done
  BY <1>3 DEF Done, LineOK, inputs
<1>4. CASE UNCHANGED inputs
  BY <1>4 DEF LineOK, inputs
<1> QED BY <1>1, <1>2, <1>3, <1>4 DEF InputNext

(* parse_buf finds the words of every line, of whatever length, for the     *)
(* length of the string (parse_path_ext2) as for that of the buffer (main): *)
(* by induction over the passes of its outer loop, from the last one back.  *)
THEOREM EveryLineSplit == InputSpec => []WordsSplit
<1>1. InputInit => LineOK
  <2>1. <<>> \in Lines /\ Len(<<>>) = 0 /\ 0 <= MaxLine
    BY LineAssumption, SMT DEF Lines
  <2> QED BY <2>1 DEF InputInit, InitVolume, LineOK
<1>2. LineOK => WordsSplit
  <2> SUFFICES ASSUME LineOK, topic = "line", NEW len \in {Len(line), MaxLine + 1}
               PROVE  SplitsWords(line, len)
    BY DEF WordsSplit
  <2>1. line \in Lines /\ Len(line) <= MaxLine
    BY DEF LineOK
  <2>2. Len(line) \in Nat
    BY <2>1, BufferIs
  <2>3. len \in Nat /\ Len(line) <= len
    BY <2>1, <2>2, LineAssumption, SMT
  <2> QED BY <2>1, <2>3, LinesSplit
<1> QED BY <1>1, <1>2, LinesStay, PTL DEF InputSpec
=============================================================================
