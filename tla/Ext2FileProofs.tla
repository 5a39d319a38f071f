--------------------------- MODULE Ext2FileProofs ---------------------------
(***************************************************************************)
(* A file of any size in blocks of any size.  As long as no allocation     *)
(* fails, the cached index block of the iterator is never stale when it is *)
(* used, the file is a sparse array of words, and its blocks form a tree   *)
(* that bitmap and counts describe.  Also after a failed allocation every  *)
(* number stays in its range.                                              *)
(***************************************************************************)
EXTENDS Ext2File, FunctionsProofs, FiniteSetTheorems

(* The nodes on a path x of an inode: entries of i_block and of the index   *)
(* blocks, the last of which is the data block.                             *)
Under(dsk, n, k) == IF n = 0 THEN 0 ELSE dsk[n][k]

Nodes(ino, dsk, x) ==
  LET n0 == ino.i_block[x[0]]
      n1 == Under(dsk, n0, x[1])
      n2 == Under(dsk, n1, x[2])
      n3 == Under(dsk, n2, x[3])
  IN  [j \in 0 .. 3 |-> IF j = 0 THEN n0 ELSE IF j = 1 THEN n1 ELSE IF j = 2 THEN n2 ELSE n3]

(* Paths to two blocks of the file that are the same down to level j.       *)
SamePlace(b, c, j) == \A i \in 0 .. j : index_of(b)[i] = index_of(c)[i]

(* The tree of an inode: no block hangs in two places, and all are in u.    *)
Node(ino, dsk, b, j) == Nodes(ino, dsk, index_of(b))[j]

Apart(ino, dsk) ==
  \A b, c \in FileBlocks : \A j \in 0 .. mode_of(b), k \in 0 .. mode_of(c) :
     Node(ino, dsk, b, j) # 0 /\ Node(ino, dsk, b, j) = Node(ino, dsk, c, k) =>
        j = k /\ SamePlace(b, c, j)

MarkedIn(ino, dsk, u) ==
  \A b \in FileBlocks : \A j \in 0 .. mode_of(b) :
     Node(ino, dsk, b, j) # 0 => Node(ino, dsk, b, j) \in u

-----------------------------------------------------------------------------
LEMMA NodesStep ==
  ASSUME NEW ino, NEW dsk, NEW x
  PROVE  /\ Nodes(ino, dsk, x)[0] = ino.i_block[x[0]]
         /\ \A j \in 1 .. 3 : Nodes(ino, dsk, x)[j] = Under(dsk, Nodes(ino, dsk, x)[j - 1], x[j])
<1>1. 0 \in 0 .. 3 /\ 1 \in 0 .. 3 /\ 2 \in 0 .. 3 /\ 3 \in 0 .. 3
  BY SMT
<1>2. /\ Nodes(ino, dsk, x)[0] = ino.i_block[x[0]]
      /\ Nodes(ino, dsk, x)[1] = Under(dsk, Nodes(ino, dsk, x)[0], x[1])
      /\ Nodes(ino, dsk, x)[2] = Under(dsk, Nodes(ino, dsk, x)[1], x[2])
      /\ Nodes(ino, dsk, x)[3] = Under(dsk, Nodes(ino, dsk, x)[2], x[3])
  BY <1>1, SMT DEF Nodes
<1> QED BY <1>2, SMT

(* The blocks that blk_iterator_init finds are the nodes but the last.      *)
LEMMA BlksAreNodes ==
  ASSUME NEW ino, NEW dsk, NEW x, NEW m \in 0 .. 3
  PROVE  blks_on_path(ino, dsk, x, m) =
           [j \in 0 .. 3 |-> IF j = 0 THEN IF m = 0 THEN Nodes(ino, dsk, x)[0] ELSE 0
                             ELSE IF j > m THEN 0 ELSE Nodes(ino, dsk, x)[j - 1]]
<1> DEFINE F(b) == [j \in 0 .. 3 |->
              IF j = 0 THEN IF m = 0 THEN ino.i_block[x[0]] ELSE 0
              ELSE IF j > m THEN 0
              ELSE IF j = 1 THEN ino.i_block[x[0]]
              ELSE IF b[j - 1] = 0 THEN 0 ELSE dsk[b[j - 1]][x[j - 1]]]
           N == Nodes(ino, dsk, x)
           g == [j \in 0 .. 3 |-> IF j = 0 THEN IF m = 0 THEN N[0] ELSE 0
                                  ELSE IF j > m THEN 0 ELSE N[j - 1]]
           f == CHOOSE b : b = F(b)
<1>1. blks_on_path(ino, dsk, x, m) = f
  BY DEF blks_on_path
<1>2. /\ N[0] = ino.i_block[x[0]]
      /\ N[1] = Under(dsk, N[0], x[1])
      /\ N[2] = Under(dsk, N[1], x[2])
  BY NodesStep, SMT
<1>3. g = F(g)
  <2> SUFFICES ASSUME NEW j \in 0 .. 3 PROVE g[j] = F(g)[j]
    BY DEF g
  <2> HIDE DEF N
  <2>1. CASE j = 0
    BY <1>2, <2>1, SMT
  <2>2. CASE j = 1
    BY <1>2, <2>2, SMT
  <2>3. CASE j = 2
    <3>1. g[1] = IF 1 > m THEN 0 ELSE N[0]
      BY SMT
    <3>2. g[2] = IF 2 > m THEN 0 ELSE N[1]
      BY SMT
    <3>3. F(g)[2] = IF 2 > m THEN 0 ELSE IF g[1] = 0 THEN 0 ELSE dsk[g[1]][x[1]]
      BY SMT
    <3> HIDE DEF g, F
    <3> QED BY <1>2, <2>3, <3>1, <3>2, <3>3, SMT DEF Under
  <2>4. CASE j = 3
    <3>1. g[2] = IF 2 > m THEN 0 ELSE N[1]
      BY SMT
    <3>2. g[3] = IF 3 > m THEN 0 ELSE N[2]
      BY SMT
    <3>3. F(g)[3] = IF 3 > m THEN 0 ELSE IF g[2] = 0 THEN 0 ELSE dsk[g[2]][x[2]]
      BY SMT
    <3>4. 2 > m => 3 > m
      BY SMT
    <3> HIDE DEF g, F
    <3>5. g[3] = F(g)[3]
      BY <1>2, <3>1, <3>2, <3>3, <3>4, Zenon DEF Under
    <3> QED BY <2>4, <3>5
  <2> QED BY <2>1, <2>2, <2>3, <2>4, SMT
<1>4. f = F(f)
  BY <1>3
<1>5. f = g
  <2> HIDE DEF f, N
  <2>1. /\ f[0] = IF m = 0 THEN ino.i_block[x[0]] ELSE 0
        /\ f[1] = IF 1 > m THEN 0 ELSE ino.i_block[x[0]]
        /\ f[2] = IF 2 > m THEN 0 ELSE IF f[1] = 0 THEN 0 ELSE dsk[f[1]][x[1]]
        /\ f[3] = IF 3 > m THEN 0 ELSE IF f[2] = 0 THEN 0 ELSE dsk[f[2]][x[2]]
    BY <1>4, SMT
  <2>2. f[0] = g[0] /\ f[1] = g[1]
    BY <1>2, <2>1, SMT
  <2>3. f[2] = g[2]
    <3>1. g[1] = (IF 1 > m THEN 0 ELSE N[0]) /\ g[2] = IF 2 > m THEN 0 ELSE N[1]
      BY SMT
    <3> HIDE DEF g
    <3> QED BY <1>2, <2>1, <2>2, <3>1, SMT DEF Under
  <2>4. f[3] = g[3]
    <3>1. g[2] = (IF 2 > m THEN 0 ELSE N[1]) /\ g[3] = IF 3 > m THEN 0 ELSE N[2]
      BY SMT
    <3>2. 2 > m => 3 > m
      BY SMT
    <3> HIDE DEF g
    <3> QED BY <1>2, <2>1, <2>3, <3>1, <3>2, Zenon DEF Under
  <2>5. \A j \in 0 .. 3 : f[j] = g[j]
    BY <2>2, <2>3, <2>4, SMT
  <2>6. f = [j \in 0 .. 3 |-> f[j]] /\ g = [j \in 0 .. 3 |-> g[j]]
    BY <1>4
  <2> QED BY <2>5, <2>6
<1> QED BY <1>1, <1>5

-----------------------------------------------------------------------------
LEMMA PathFacts ==
  ASSUME NEW b \in FileBlocks
  PROVE  /\ mode_of(b) \in 0 .. 3 /\ index_of(b)[0] \in 0 .. TI_INDEX
         /\ \A j \in 1 .. 3 : index_of(b)[j] \in 0 .. Links - 1
         /\ index_of(b) = [j \in 0 .. 3 |-> index_of(b)[j]]
         /\ \A j \in 0 .. 3 : j > mode_of(b) => index_of(b)[j] = 0
<1>1. mode_of(b) \in 0 .. 3
  BY ModeChosen
<1>2. index_of(b)[0] \in 0 .. TI_INDEX /\ \A j \in 1 .. 3 : index_of(b)[j] \in 0 .. Links - 1
  BY PathsInRange DEF PathInRange
<1>3. index_of(b) = [j \in 0 .. 3 |-> index_of(b)[j]]
  BY DEF index_of
<1>4. ASSUME NEW j \in 0 .. 3, j > mode_of(b) PROVE index_of(b)[j] = 0
  <2>1. j # 0 /\ ~(j <= mode_of(b))
    BY <1>1, <1>4, SMT
  <2> QED BY <2>1 DEF index_of
<1> QED BY <1>1, <1>2, <1>3, <1>4

LEMMA SameMode ==
  ASSUME NEW b \in FileBlocks, NEW c \in FileBlocks, index_of(b)[0] = index_of(c)[0]
  PROVE  mode_of(b) = mode_of(c)
BY ModesTold DEF ModeFromIndex

(* No two blocks of a file have the same path.                              *)
LEMMA SamePath ==
  ASSUME NEW b \in FileBlocks, NEW c \in FileBlocks, SamePlace(b, c, mode_of(b))
  PROVE  b = c
<1>1. mode_of(b) \in 0 .. 3 /\ index_of(b)[0] = index_of(c)[0]
  BY PathFacts, SMT DEF SamePlace
<1>2. mode_of(b) = mode_of(c)
  BY <1>1, SameMode
<1>3. ASSUME NEW j \in 0 .. 3 PROVE index_of(b)[j] = index_of(c)[j]
  <2>1. CASE j <= mode_of(b)
    <3>1. j \in 0 .. mode_of(b)
      BY <1>1, <2>1, SMT
    <3> QED BY <3>1 DEF SamePlace
  <2>2. CASE j > mode_of(b)
    BY <1>2, <2>2, PathFacts
  <2> QED BY <1>1, <2>1, <2>2, SMT
<1>4. index_of(b) = index_of(c)
  <2>1. [j \in 0 .. 3 |-> index_of(b)[j]] = [j \in 0 .. 3 |-> index_of(c)[j]]
    BY <1>3
  <2> QED BY <2>1, PathFacts
<1>5. offset_synth(b) = offset_synth(c)
  BY <1>2, <1>4 DEF offset_synth, Digits
<1> QED BY <1>5, PathsDetermineBlocks DEF PathDeterminesBlock

-----------------------------------------------------------------------------
(* Indices of tree nodes. *)
LEMMA NodeStep ==
  ASSUME NEW ino, NEW dsk, NEW b
  PROVE  /\ Node(ino, dsk, b, 0) = ino.i_block[index_of(b)[0]]
         /\ \A j \in 1 .. 3 : Node(ino, dsk, b, j) =
              IF Node(ino, dsk, b, j - 1) = 0 THEN 0
              ELSE dsk[Node(ino, dsk, b, j - 1)][index_of(b)[j]]
BY NodesStep DEF Node, Under

LEMMA NodeType ==
  ASSUME NEW ino, NEW dsk, NEW b \in FileBlocks,
         ino.i_block \in [0 .. TI_INDEX -> Word], dsk \in [Blk -> [0 .. Links - 1 -> Word]]
  PROVE  \A j \in 0 .. 3 : Node(ino, dsk, b, j) \in Word
<1>1. Word = Blk \cup {0} /\ 0 \in Word
  BY FileAssumption, SMT DEF Word, Blk
<1>2. Node(ino, dsk, b, 0) \in Word
  <2>1. Node(ino, dsk, b, 0) = ino.i_block[index_of(b)[0]]
    BY NodeStep
  <2>2. index_of(b)[0] \in 0 .. TI_INDEX
    BY PathFacts
  <2> QED BY <2>1, <2>2
<1>3. ASSUME NEW j \in 1 .. 3, Node(ino, dsk, b, j - 1) \in Word
      PROVE  Node(ino, dsk, b, j) \in Word
  <2>1. Node(ino, dsk, b, j) = IF Node(ino, dsk, b, j - 1) = 0 THEN 0
                              ELSE dsk[Node(ino, dsk, b, j - 1)][index_of(b)[j]]
    BY NodeStep
  <2>2. index_of(b)[j] \in 0 .. Links - 1
    BY PathFacts
  <2>3. CASE Node(ino, dsk, b, j - 1) = 0
    BY <1>1, <2>1, <2>3
  <2>4. CASE Node(ino, dsk, b, j - 1) # 0
    <3> DEFINE n == Node(ino, dsk, b, j - 1)
    <3>1. n \in Blk
      BY <1>1, <1>3, <2>4
    <3> HIDE DEF n
    <3>2. dsk[n] \in [0 .. Links - 1 -> Word]
      BY <3>1
    <3>3. dsk[n][index_of(b)[j]] \in Word
      BY <2>2, <3>2
    <3> QED BY <2>1, <2>4, <3>3 DEF n
  <2> QED BY <2>3, <2>4
<1>4. Node(ino, dsk, b, 1) \in Word
  BY <1>2, <1>3, SMT
<1>5. Node(ino, dsk, b, 2) \in Word
  BY <1>4, <1>3, SMT
<1>6. Node(ino, dsk, b, 3) \in Word
  BY <1>5, <1>3, SMT
<1> QED BY <1>2, <1>4, <1>5, <1>6, SMT

(* What holds of level 0, and passes to the level below, holds of a path.   *)
LEMMA FourLevels ==
  ASSUME NEW P, P \subseteq 0 .. 3, NEW m \in 0 .. 3, 0 \in P,
         \A j \in 1 .. 3 : j <= m /\ j - 1 \in P => j \in P
  PROVE  \A j \in 0 .. m : j \in P
<1>1. 1 <= m => 1 \in P
  BY SMT
<1>2. 2 <= m => 2 \in P
  BY <1>1, SMT
<1>3. 3 <= m => 3 \in P
  BY <1>2, SMT
<1> QED BY <1>1, <1>2, <1>3, SMT

LEMMA NodesKept ==
  ASSUME NEW ino, NEW dsk, NEW ino2, NEW dsk2, NEW b \in FileBlocks, ino2.i_block = ino.i_block,
         \A j \in 0 .. mode_of(b) - 1 :
            Node(ino, dsk, b, j) # 0 => dsk2[Node(ino, dsk, b, j)] = dsk[Node(ino, dsk, b, j)]
  PROVE  \A j \in 0 .. mode_of(b) : Node(ino2, dsk2, b, j) = Node(ino, dsk, b, j)
<1> DEFINE P == {j \in 0 .. 3 : Node(ino2, dsk2, b, j) = Node(ino, dsk, b, j)}
<1>1. 0 \in P
  BY NodeStep
<1>2. ASSUME NEW j \in 1 .. 3, j <= mode_of(b), j - 1 \in P PROVE j \in P
  <2>1. j - 1 \in 0 .. mode_of(b) - 1 /\ mode_of(b) \in 0 .. 3
    BY <1>2, PathFacts, SMT
  <2>2. Node(ino2, dsk2, b, j - 1) = Node(ino, dsk, b, j - 1)
    BY <1>2
  <2>3. Node(ino, dsk, b, j - 1) # 0 =>
           dsk2[Node(ino, dsk, b, j - 1)] = dsk[Node(ino, dsk, b, j - 1)]
    BY <2>1
  <2>4. Node(ino2, dsk2, b, j) = Node(ino, dsk, b, j)
    BY <2>2, <2>3, NodeStep
  <2> QED BY <2>4
<1>3. \A j \in 0 .. mode_of(b) : j \in P
  <2> HIDE DEF P
  <2>1. mode_of(b) \in 0 .. 3 /\ P \subseteq 0 .. 3
    BY PathFacts DEF P
  <2> QED BY <1>1, <1>2, <2>1, FourLevels
<1> QED BY <1>3

(* Nothing hangs below what is missing. *)
LEMMA NodesMissing ==
  ASSUME NEW ino, NEW dsk, NEW b, NEW j \in 0 .. 3, NEW k \in 0 .. 3, j <= k,
         Node(ino, dsk, b, j) = 0
  PROVE  Node(ino, dsk, b, k) = 0
<1>1. \A i \in 1 .. 3 : Node(ino, dsk, b, i - 1) = 0 => Node(ino, dsk, b, i) = 0
  BY NodeStep
<1>2. /\ Node(ino, dsk, b, 0) = 0 => Node(ino, dsk, b, 1) = 0
      /\ Node(ino, dsk, b, 1) = 0 => Node(ino, dsk, b, 2) = 0
      /\ Node(ino, dsk, b, 2) = 0 => Node(ino, dsk, b, 3) = 0
  BY <1>1, SMT
<1> QED BY <1>2, SMT

LEMMA SameNodes ==
  ASSUME NEW ino, NEW dsk, NEW b, NEW c, NEW j \in 0 .. 3, SamePlace(b, c, j)
  PROVE  \A k \in 0 .. j : Node(ino, dsk, b, k) = Node(ino, dsk, c, k)
<1> DEFINE P == {k \in 0 .. 3 : Node(ino, dsk, b, k) = Node(ino, dsk, c, k)}
<1>1. \A k \in 0 .. j : index_of(b)[k] = index_of(c)[k]
  BY DEF SamePlace
<1>2. 0 \in P
  <2>1. index_of(b)[0] = index_of(c)[0]
    BY <1>1, SMT
  <2>2. Node(ino, dsk, b, 0) = Node(ino, dsk, c, 0)
    BY <2>1, NodeStep
  <2> QED BY <2>2, SMT
<1>3. ASSUME NEW k \in 1 .. 3, k <= j, k - 1 \in P PROVE k \in P
  <2>1. index_of(b)[k] = index_of(c)[k]
    BY <1>1, <1>3, SMT
  <2>2. Node(ino, dsk, b, k - 1) = Node(ino, dsk, c, k - 1)
    BY <1>3
  <2>3. Node(ino, dsk, b, k) = Node(ino, dsk, c, k)
    BY <2>1, <2>2, NodeStep
  <2> QED BY <2>3, SMT
<1>4. \A k \in 0 .. j : k \in P
  <2>1. P \subseteq 0 .. 3
    OBVIOUS
  <2> HIDE DEF P
  <2> QED BY <1>2, <1>3, <2>1, FourLevels
<1> QED BY <1>4

-----------------------------------------------------------------------------
(* An inode and the contents of the blocks. *)
TreeType(ino, dsk) == /\ ino.i_block \in [0 .. TI_INDEX -> Word]
                      /\ dsk \in [Blk -> [0 .. Links - 1 -> Word]]

(* Blocks c[j], c[j + 1], ... that the path to b needs and that are not yet *)
(* in the tree: each is empty but for the entry that leads to the next.     *)
Branch(ino, dsk, b, j, c) ==
  /\ \A k \in j .. mode_of(b) :
        /\ c[k] \in Blk
        /\ \A d \in FileBlocks : \A l \in 0 .. mode_of(d) : Node(ino, dsk, d, l) # c[k]
  /\ \A k, l \in j .. mode_of(b) : c[k] = c[l] => k = l
  /\ \A k \in j .. mode_of(b) - 1 :
        dsk[c[k]] = [ZeroBlock EXCEPT ![index_of(b)[k + 1]] = c[k + 1]]
  /\ dsk[c[mode_of(b)]] = ZeroBlock
  /\ Node(ino, dsk, b, j) = 0

(* LinkIndex and LinkInode: r is entered at level j of the path to b. *)
Hung(ino, dsk, ino2, dsk2, b, j, r) ==
  \/ j = 0 /\ dsk2 = dsk /\ ino2.i_block = [ino.i_block EXCEPT ![index_of(b)[0]] = r]
  \/ /\ j > 0 /\ ino2.i_block = ino.i_block /\ Node(ino, dsk, b, j - 1) # 0
     /\ dsk2 = [dsk EXCEPT ![Node(ino, dsk, b, j - 1)][index_of(b)[j]] = r]

LEMMA SameUpTo ==
  ASSUME NEW b, NEW d, NEW k \in 1 .. 3
  PROVE  SamePlace(b, d, k) <=> SamePlace(b, d, k - 1) /\ index_of(b)[k] = index_of(d)[k]
<1>1. \A i : i \in 0 .. k <=> i \in 0 .. k - 1 \/ i = k
  BY SMT
<1> QED BY <1>1 DEF SamePlace

(* The branch is in the tree then, and nothing else has changed.            *)
LEMMA GraftTop ==
  ASSUME NEW ino, NEW dsk, NEW ino2, NEW dsk2, NEW b \in FileBlocks, NEW j \in 0 .. mode_of(b),
         NEW c, TreeType(ino, dsk), Hung(ino, dsk, ino2, dsk2, b, j, c[j]), NEW d \in FileBlocks
  PROVE  Node(ino2, dsk2, d, 0) = IF 0 >= j /\ SamePlace(b, d, 0) THEN c[0] ELSE Node(ino, dsk, d, 0)
<1> DEFINE x == index_of(b)[0]
           y == index_of(d)[0]
<1>1. /\ Node(ino2, dsk2, d, 0) = ino2.i_block[y] /\ Node(ino, dsk, d, 0) = ino.i_block[y]
      /\ x \in 0 .. TI_INDEX /\ y \in 0 .. TI_INDEX /\ ino.i_block \in [0 .. TI_INDEX -> Word]
      /\ mode_of(b) \in 0 .. 3
  BY NodeStep, PathFacts DEF TreeType
<1>2. SamePlace(b, d, 0) <=> x = y
  <2>1. \A i : i \in 0 .. 0 <=> i = 0
    BY SMT
  <2> QED BY <2>1 DEF SamePlace
<1> HIDE DEF x, y
<1>3. CASE j = 0
  <2>1. ino2.i_block = [ino.i_block EXCEPT ![x] = c[0]]
    BY <1>3, SMT DEF Hung, x
  <2>2. ino2.i_block[y] = IF x = y THEN c[0] ELSE ino.i_block[y]
    BY <1>1, <2>1
  <2> QED BY <1>1, <1>2, <1>3, <2>2, SMT
<1>4. CASE j > 0
  <2>1. ino2.i_block = ino.i_block
    BY <1>4, SMT DEF Hung
  <2>2. ~(0 >= j)
    BY <1>1, <1>4, SMT
  <2> QED BY <1>1, <2>1, <2>2
<1> QED BY <1>1, <1>3, <1>4, SMT

LEMMA GraftStep ==
  ASSUME NEW ino, NEW dsk, NEW ino2, NEW dsk2, NEW b \in FileBlocks, NEW j \in 0 .. mode_of(b),
         NEW c, TreeType(ino, dsk), Apart(ino, dsk), Branch(ino, dsk, b, j, c),
         Hung(ino, dsk, ino2, dsk2, b, j, c[j]), NEW d \in FileBlocks,
         NEW k \in 1 .. 3, k <= mode_of(d),
         Node(ino2, dsk2, d, k - 1) = IF k - 1 >= j /\ SamePlace(b, d, k - 1) THEN c[k - 1]
                                      ELSE Node(ino, dsk, d, k - 1)
  PROVE  Node(ino2, dsk2, d, k) = IF k >= j /\ SamePlace(b, d, k) THEN c[k] ELSE Node(ino, dsk, d, k)
<1> DEFINE x == index_of(b)
           y == index_of(d)
           old == Node(ino, dsk, d, k - 1)
           new == Node(ino2, dsk2, d, k - 1)
           top == Node(ino, dsk, b, j - 1)
<1>1. /\ mode_of(b) \in 0 .. 3 /\ mode_of(d) \in 0 .. 3 /\ k - 1 \in 0 .. 3 /\ j \in 0 .. 3
      /\ k \in Nat /\ j \in Nat /\ k - 1 \in Nat /\ k - 1 \in 0 .. mode_of(d)
  BY PathFacts, SMT
<1>2. /\ Node(ino2, dsk2, d, k) = IF new = 0 THEN 0 ELSE dsk2[new][y[k]]
      /\ Node(ino, dsk, d, k) = IF old = 0 THEN 0 ELSE dsk[old][y[k]]
  BY NodeStep
<1>3. SamePlace(b, d, k) <=> SamePlace(b, d, k - 1) /\ x[k] = y[k]
  BY SameUpTo
<1>4. y[k] \in 0 .. Links - 1
  BY PathFacts
<1>5. SamePlace(b, d, k - 1) => mode_of(b) = mode_of(d) /\ old = Node(ino, dsk, b, k - 1)
  <2> SUFFICES ASSUME SamePlace(b, d, k - 1)
               PROVE  mode_of(b) = mode_of(d) /\ old = Node(ino, dsk, b, k - 1)
    OBVIOUS
  <2>1. x[0] = y[0]
    BY <1>1, SMT DEF SamePlace
  <2>2. k - 1 \in 0 .. k - 1
    BY <1>1, SMT
  <2> QED BY <1>1, <2>1, <2>2, SameMode, SameNodes
<1>6. j > 0 => /\ top # 0 /\ top \in Blk /\ j - 1 \in 0 .. mode_of(b)
               /\ dsk2 = [dsk EXCEPT ![top][x[j]] = c[j]] /\ x[j] \in 0 .. Links - 1
  <2> SUFFICES ASSUME j > 0
               PROVE  /\ top # 0 /\ top \in Blk /\ j - 1 \in 0 .. mode_of(b)
                      /\ dsk2 = [dsk EXCEPT ![top][x[j]] = c[j]] /\ x[j] \in 0 .. Links - 1
    OBVIOUS
  <2>1. j - 1 \in 0 .. mode_of(b) /\ j - 1 \in 0 .. 3 /\ j \in 1 .. 3
    BY <1>1, SMT
  <2>2. top # 0 /\ dsk2 = [dsk EXCEPT ![top][x[j]] = c[j]]
    BY <1>1, SMT DEF Hung
  <2>3. top \in Word
    BY <2>1, NodeType DEF TreeType
  <2>4. \A w \in Word : w # 0 => w \in Blk
    BY FileAssumption, SMT DEF Word, Blk
  <2> QED BY <2>1, <2>2, <2>3, <2>4, PathFacts
<1>7. j = 0 => dsk2 = dsk
  BY <1>1, SMT DEF Hung
<1>8. \A p \in Blk : p # top \/ j = 0 => dsk2[p] = dsk[p]
  BY <1>1, <1>6, <1>7, SMT DEF TreeType
<1>9. CASE k - 1 >= j /\ SamePlace(b, d, k - 1)
  <2>1. k - 1 \in j .. mode_of(b) - 1 /\ k - 1 \in j .. mode_of(b) /\ k \in j .. mode_of(b)
    BY <1>1, <1>5, <1>9, SMT
  <2>2. new = c[k - 1] /\ c[k - 1] \in Blk
    BY <1>9, <2>1 DEF Branch
  <2>3. j > 0 => c[k - 1] # top
    BY <1>6, <2>1 DEF Branch
  <2>4. dsk2[new] = dsk[c[k - 1]]
    BY <1>1, <1>8, <2>2, <2>3, SMT
  <2>5. dsk[c[k - 1]] = [ZeroBlock EXCEPT ![x[k]] = c[k]]
    <3>1. (k - 1) + 1 = k
      BY <1>1, SMT
    <3>2. dsk[c[k - 1]] = [ZeroBlock EXCEPT ![x[(k - 1) + 1]] = c[(k - 1) + 1]]
      BY <2>1 DEF Branch
    <3> QED BY <3>1, <3>2
  <2>6. dsk[c[k - 1]][y[k]] = IF x[k] = y[k] THEN c[k] ELSE 0
    BY <1>4, <2>5 DEF ZeroBlock
  <2>7. new # 0
    BY <2>2, SMT DEF Blk
  <2>8. Node(ino2, dsk2, d, k) = IF x[k] = y[k] THEN c[k] ELSE 0
    BY <1>2, <2>4, <2>6, <2>7
  <2>9. Node(ino, dsk, d, k) = 0
    <3>1. Node(ino, dsk, b, j) = 0
      BY DEF Branch
    <3>2. Node(ino, dsk, b, k - 1) = 0
      BY <1>1, <1>9, <3>1, NodesMissing
    <3> QED BY <1>2, <1>5, <1>9, <3>2
  <2>10. k >= j
    BY <1>1, <1>9, SMT
  <2> QED BY <1>3, <1>9, <2>8, <2>9, <2>10
<1>10. CASE ~(k - 1 >= j /\ SamePlace(b, d, k - 1))
  <2>1. new = old
    BY <1>10
  <2>2. ASSUME k >= j, SamePlace(b, d, k)
        PROVE  k = j /\ j > 0 /\ old = top
    <3>1. k = j
      BY <1>1, <1>3, <1>10, <2>2, SMT
    <3> QED BY <1>1, <1>3, <1>5, <2>2, <3>1, SMT
  <2>3. CASE old = 0
    BY <1>2, <1>6, <2>1, <2>2, <2>3
  <2>4. CASE old # 0 /\ j > 0 /\ old = top
    <3>1. k - 1 = j - 1 /\ SamePlace(d, b, k - 1)
      BY <1>1, <1>6, <2>4 DEF Apart
    <3>2. k = j /\ SamePlace(b, d, k - 1)
      BY <1>1, <3>1, SMT DEF SamePlace
    <3>3. dsk2[top][y[k]] = IF x[k] = y[k] THEN c[k] ELSE dsk[top][y[k]]
      <4>1. dsk2[top] = [dsk[top] EXCEPT ![x[j]] = c[j]] /\ dsk[top] \in [0 .. Links - 1 -> Word]
        BY <1>6, <2>4 DEF TreeType
      <4> HIDE DEF top
      <4> QED BY <1>4, <3>2, <4>1
    <3>4. k >= j
      BY <1>1, <3>2, SMT
    <3> QED BY <1>2, <1>3, <2>1, <2>4, <3>2, <3>3, <3>4
  <2>5. CASE old # 0 /\ ~(j > 0 /\ old = top)
    <3>1. old \in Blk
      <4>1. old \in Word
        BY <1>1, NodeType DEF TreeType
      <4> QED BY <2>5, <4>1, SMT DEF Word, Blk
    <3>2. dsk2[old] = dsk[old]
      BY <1>1, <1>8, <2>5, <3>1, SMT
    <3>3. ~(k >= j /\ SamePlace(b, d, k))
      BY <2>2, <2>5
    <3> QED BY <1>2, <2>1, <3>2, <3>3
  <2> QED BY <2>3, <2>4, <2>5
<1> QED BY <1>9, <1>10

LEMMA Graft ==
  ASSUME NEW ino, NEW dsk, NEW ino2, NEW dsk2, NEW b \in FileBlocks, NEW j \in 0 .. mode_of(b),
         NEW c, TreeType(ino, dsk), Apart(ino, dsk), Branch(ino, dsk, b, j, c),
         Hung(ino, dsk, ino2, dsk2, b, j, c[j]), NEW d \in FileBlocks
  PROVE  \A k \in 0 .. mode_of(d) :
           Node(ino2, dsk2, d, k) = IF k >= j /\ SamePlace(b, d, k) THEN c[k] ELSE Node(ino, dsk, d, k)
<1> DEFINE P == {k \in 0 .. 3 : Node(ino2, dsk2, d, k) =
                    IF k >= j /\ SamePlace(b, d, k) THEN c[k] ELSE Node(ino, dsk, d, k)}
<1>1. 0 \in P
  BY GraftTop, SMT
<1>2. ASSUME NEW k \in 1 .. 3, k <= mode_of(d), k - 1 \in P PROVE k \in P
  <2>1. Node(ino2, dsk2, d, k - 1) = IF k - 1 >= j /\ SamePlace(b, d, k - 1) THEN c[k - 1]
                                    ELSE Node(ino, dsk, d, k - 1)
    BY <1>2
  <2>2. Node(ino2, dsk2, d, k) = IF k >= j /\ SamePlace(b, d, k) THEN c[k] ELSE Node(ino, dsk, d, k)
    BY <1>2, <2>1, GraftStep
  <2>3. k \in 0 .. 3
    BY SMT
  <2> QED BY <2>2, <2>3
<1>3. P \subseteq 0 .. 3 /\ mode_of(d) \in 0 .. 3
  BY PathFacts
<1>4. \A k \in 0 .. mode_of(d) : k \in P
  <2> HIDE DEF P
  <2> QED BY <1>1, <1>2, <1>3, FourLevels
<1> QED BY <1>4

(* The word with number i of block b of the file. *)
FileWord(ino, dsk, b, i) ==
  IF Node(ino, dsk, b, mode_of(b)) = 0 THEN 0 ELSE dsk[Node(ino, dsk, b, mode_of(b))][i]

SameWords(ino, dsk, ino2, dsk2) ==
  \A d \in FileBlocks, i \in 0 .. Links - 1 : FileWord(ino2, dsk2, d, i) = FileWord(ino, dsk, d, i)

(* The tree stays a tree, and the file reads as before. *)
Grafted(ino, dsk, ino2, dsk2, u, b, r) ==
  /\ Apart(ino2, dsk2) /\ MarkedIn(ino2, dsk2, u) /\ TreeType(ino2, dsk2)
  /\ SameWords(ino, dsk, ino2, dsk2)
  /\ Node(ino2, dsk2, b, mode_of(b)) = r

LEMMA GraftTree ==
  ASSUME NEW ino, NEW dsk, NEW ino2, NEW dsk2, NEW b \in FileBlocks, NEW j \in 0 .. mode_of(b),
         NEW c, TreeType(ino, dsk), Apart(ino, dsk), Branch(ino, dsk, b, j, c),
         Hung(ino, dsk, ino2, dsk2, b, j, c[j]),
         NEW u, MarkedIn(ino, dsk, u), \A k \in j .. mode_of(b) : c[k] \in u
  PROVE  Grafted(ino, dsk, ino2, dsk2, u, b, c[mode_of(b)])
<1> DEFINE N(d, k) == Node(ino, dsk, d, k)
           M(d, k) == Node(ino2, dsk2, d, k)
           m == mode_of(b)
           New(d, k) == k \in j .. m /\ SamePlace(b, d, k)
<1>0. /\ \A d \in FileBlocks : mode_of(d) \in 0 .. 3
      /\ j \in Nat /\ m \in Nat /\ j <= m /\ j \in 0 .. 3
  BY PathFacts, SMT
<1>1. ASSUME NEW d \in FileBlocks, NEW k \in 0 .. mode_of(d), SamePlace(b, d, k)
      PROVE  mode_of(d) = m
  <2>1. index_of(b)[0] = index_of(d)[0]
    BY <1>0, <1>1, SMT DEF SamePlace
  <2> QED BY <2>1, SameMode
<1>2. ASSUME NEW d \in FileBlocks, NEW k \in 0 .. mode_of(d)
      PROVE  M(d, k) = IF New(d, k) THEN c[k] ELSE N(d, k)
  <2>1. M(d, k) = IF k >= j /\ SamePlace(b, d, k) THEN c[k] ELSE N(d, k)
    BY Graft
  <2>2. SamePlace(b, d, k) => (k >= j <=> k \in j .. m)
    BY <1>0, <1>1, SMT
  <2> QED BY <2>1, <2>2
<1>3. \A k \in j .. m : c[k] \in Blk /\ \A d \in FileBlocks : \A l \in 0 .. mode_of(d) : N(d, l) # c[k]
  BY DEF Branch
<1>4. Apart(ino2, dsk2)
  <2> SUFFICES ASSUME NEW d \in FileBlocks, NEW e \in FileBlocks,
                      NEW k \in 0 .. mode_of(d), NEW l \in 0 .. mode_of(e),
                      M(d, k) # 0, M(d, k) = M(e, l)
               PROVE  k = l /\ SamePlace(d, e, k)
    BY DEF Apart
  <2>1. /\ M(d, k) = IF New(d, k) THEN c[k] ELSE N(d, k)
        /\ M(e, l) = IF New(e, l) THEN c[l] ELSE N(e, l)
    BY <1>2
  <2>2. CASE New(d, k) /\ New(e, l)
    <3>1. k = l
      <4>1. k \in j .. m /\ l \in j .. m /\ c[k] = c[l]
        BY <2>1, <2>2
      <4> QED BY <4>1 DEF Branch
    <3> QED BY <2>2, <3>1 DEF SamePlace
  <2>3. CASE ~New(d, k) /\ ~New(e, l)
    <3>1. N(d, k) # 0 /\ N(d, k) = N(e, l)
      BY <2>1, <2>3
    <3> HIDE DEF New, N, M
    <3> QED BY <3>1 DEF Apart, N
  <2>4. CASE New(d, k) /\ ~New(e, l)
    BY <1>3, <2>1, <2>4
  <2>5. CASE ~New(d, k) /\ New(e, l)
    BY <1>3, <2>1, <2>5
  <2> QED BY <2>2, <2>3, <2>4, <2>5
<1>5. MarkedIn(ino2, dsk2, u)
  <2> SUFFICES ASSUME NEW d \in FileBlocks, NEW k \in 0 .. mode_of(d), M(d, k) # 0
               PROVE  M(d, k) \in u
    BY DEF MarkedIn
  <2>1. M(d, k) = IF New(d, k) THEN c[k] ELSE N(d, k)
    BY <1>2
  <2>2. N(d, k) # 0 => N(d, k) \in u
    BY DEF MarkedIn
  <2> HIDE DEF N, M
  <2> QED BY <2>1, <2>2
<1>6. TreeType(ino2, dsk2)
  <2>1. c[j] \in Word
    BY <1>0, <1>3, SMT DEF Word, Blk
  <2>2. CASE j = 0
    <3>1. dsk2 = dsk /\ ino2.i_block = [ino.i_block EXCEPT ![index_of(b)[0]] = c[j]]
      BY <1>0, <2>2, SMT DEF Hung
    <3> QED BY <2>1, <3>1 DEF TreeType
  <2>3. CASE j > 0
    <3> DEFINE t == Node(ino, dsk, b, j - 1)
    <3>1. ino2.i_block = ino.i_block /\ dsk2 = [dsk EXCEPT ![t][index_of(b)[j]] = c[j]]
      BY <1>0, <2>3, SMT DEF Hung
    <3> HIDE DEF t
    <3>2. dsk2 = [dsk EXCEPT ![t] = [dsk[t] EXCEPT ![index_of(b)[j]] = c[j]]]
      BY <3>1
    <3>3. t \in Blk => [dsk[t] EXCEPT ![index_of(b)[j]] = c[j]] \in [0 .. Links - 1 -> Word]
      BY <2>1 DEF TreeType
    <3> QED BY <3>1, <3>2, <3>3 DEF TreeType
  <2> QED BY <1>0, <2>2, <2>3, SMT
<1>7. M(b, m) = c[m]
  <2>1. New(b, m) /\ m \in 0 .. mode_of(b)
    BY <1>0, SMT DEF SamePlace
  <2> QED BY <1>2, <2>1
<1>8. SameWords(ino, dsk, ino2, dsk2)
  <2> SUFFICES ASSUME NEW d \in FileBlocks, NEW i \in 0 .. Links - 1
               PROVE  FileWord(ino2, dsk2, d, i) = FileWord(ino, dsk, d, i)
    BY DEF SameWords
  <2> DEFINE k == mode_of(d)
             t == Node(ino, dsk, b, j - 1)
  <2>1. M(d, k) = IF New(d, k) THEN c[k] ELSE N(d, k)
    BY <1>0, <1>2, SMT
  <2>2. \A p \in Blk : p # t \/ j = 0 => dsk2[p] = dsk[p]
    <3>1. CASE j = 0
      BY <1>0, <3>1, SMT DEF Hung
    <3>2. CASE j > 0
      <4>1. dsk2 = [dsk EXCEPT ![t][index_of(b)[j]] = c[j]] /\ j # 0
        BY <1>0, <3>2, SMT DEF Hung
      <4> HIDE DEF t
      <4> QED BY <4>1 DEF TreeType
    <3> QED BY <1>0, <3>1, <3>2, SMT
  <2>3. j > 0 => t # 0 /\ j - 1 \in 0 .. mode_of(b) /\ j - 1 < m /\ j - 1 \in Nat
    BY <1>0, SMT DEF Hung
  <2>4. CASE New(d, k)
    <3>1. d = b
      <4>1. mode_of(d) = m /\ SamePlace(b, d, mode_of(b))
        BY <1>0, <1>1, <2>4, SMT
      <4> QED BY <4>1, SamePath
    <3>2. c[m] \in Blk /\ dsk[c[m]] = ZeroBlock /\ m \in j .. m
      BY <1>0, <1>3, SMT DEF Branch
    <3>3. j > 0 => c[m] # t
      BY <1>3, <2>3, <3>2
    <3>4. dsk2[c[m]] = ZeroBlock
      BY <1>0, <2>2, <3>2, <3>3, SMT
    <3>5. FileWord(ino2, dsk2, d, i) = 0
      BY <1>7, <3>1, <3>4 DEF FileWord, ZeroBlock
    <3>6. N(b, m) = 0
      <4>1. Node(ino, dsk, b, j) = 0 /\ m \in 0 .. 3 /\ j <= m
        BY <1>0 DEF Branch
      <4> QED BY <1>0, <4>1, NodesMissing
    <3> QED BY <3>1, <3>5, <3>6 DEF FileWord
  <2>5. CASE ~New(d, k)
    <3>1. M(d, k) = N(d, k)
      BY <2>1, <2>5
    <3>2. N(d, k) # 0 => N(d, k) \in Blk
      <4>1. N(d, k) \in Word
        BY <1>0, NodeType DEF TreeType
      <4> QED BY <4>1, SMT DEF Word, Blk
    <3>3. j > 0 /\ N(d, k) # 0 => N(d, k) # t
      <4> SUFFICES ASSUME j > 0, N(d, k) # 0, N(d, k) = t PROVE FALSE
        OBVIOUS
      <4>1. k \in 0 .. mode_of(d)
        BY <1>0, SMT
      <4>2. k = j - 1 /\ SamePlace(d, b, k)
        BY <2>3, <4>1 DEF Apart
      <4>3. SamePlace(b, d, k)
        BY <4>2 DEF SamePlace
      <4> QED BY <1>0, <1>1, <2>3, <4>1, <4>2, <4>3, SMT
    <3>4. N(d, k) # 0 => dsk2[N(d, k)] = dsk[N(d, k)]
      BY <1>0, <2>2, <3>2, <3>3, SMT
    <3> QED BY <3>1, <3>4 DEF FileWord
  <2> QED BY <2>4, <2>5
<1> QED BY <1>4, <1>5, <1>6, <1>7, <1>8 DEF Grafted

-----------------------------------------------------------------------------
(* Offsets and iterators. *)
Offsets == 0 .. MaxWords - 1

LEMMA OffsetBlock ==
  ASSUME NEW off \in Offsets
  PROVE  /\ BlockOfOffset(off) \in FileBlocks /\ off % Links \in 0 .. Links - 1
         /\ off = BlockOfOffset(off) * Links + (off % Links)
<1>1. Links \in Nat \ {0} /\ limits(3) \in Nat /\ limits(3) > 0
  BY IndirectAssumption, LimitsRise, SMT
<1>2. off \in Nat /\ off < limits(3) * Links
  <2>1. limits(3) * Links \in Nat
    BY <1>1
  <2> QED BY <2>1, SMT DEF Offsets, MaxWords
<1> DEFINE q == off \div Links
           r == off % Links
           L == limits(3)
<1>3. q \in Nat /\ r \in 0 .. Links - 1 /\ off = q * Links + r
  BY <1>1, <1>2, SMT
<1>4. q < L
  <2> SUFFICES ASSUME q >= L PROVE FALSE
    BY <1>1, <1>3, SMT
  <2> HIDE DEF q, r, L
  <2>1. PICK d \in Nat : q = L + d
    <3>1. q - L \in Nat /\ q = L + (q - L)
      BY <1>1, <1>3, SMT DEF L
    <3> QED BY <3>1
  <2>2. q * Links = L * Links + d * Links /\ d * Links \in Nat /\ L * Links \in Nat
    BY <1>1, <2>1, SMT DEF L
  <2> QED BY <1>1, <1>2, <1>3, <2>2, SMT DEF L
<1>5. q \in FileBlocks
  <2> HIDE DEF q
  <2> QED BY <1>1, <1>3, <1>4, SMT DEF FileBlocks, L
<1> QED BY <1>3, <1>5 DEF BlockOfOffset

(* Within a block. *)
LEMMA OffsetWithin ==
  ASSUME NEW off \in Offsets, NEW n \in Nat, (off % Links) + n < Links, off + n \in Offsets
  PROVE  BlockOfOffset(off + n) = BlockOfOffset(off) /\ (off + n) % Links = (off % Links) + n
<1> DEFINE q == off \div Links
           r == off % Links
<1>1. Links \in Nat \ {0} /\ off \in Nat
  BY IndirectAssumption, SMT DEF Offsets
<1>2. q \in Nat /\ r \in Nat /\ off = q * Links + r /\ q * Links \in Nat
  BY <1>1, SMT
<1> HIDE DEF q, r
<1>3. off + n = q * Links + (r + n) /\ r + n \in Nat /\ r + n < Links
  BY <1>1, <1>2, SMT DEF r
<1>4. (q * Links + (r + n)) \div Links = q /\ (q * Links + (r + n)) % Links = r + n
  BY <1>1, <1>2, <1>3, SMT
<1> QED BY <1>3, <1>4 DEF BlockOfOffset, q, r

(* What blk_iterator_init yields for an offset in block b. *)
BlksFor(ino, dsk, b) ==
  [j \in 0 .. 3 |-> IF j = 0 THEN IF mode_of(b) = 0 THEN Node(ino, dsk, b, 0) ELSE 0
                    ELSE IF j > mode_of(b) THEN 0 ELSE Node(ino, dsk, b, j - 1)]

LeafFor(ino, dsk, b) ==
  IF mode_of(b) > 0 /\ Node(ino, dsk, b, mode_of(b) - 1) # 0
  THEN dsk[Node(ino, dsk, b, mode_of(b) - 1)] ELSE ZeroBlock

Iter(ino, dsk, b, off) ==
  [offset |-> off, mode |-> mode_of(b), index |-> index_of(b),
   blks_blk |-> BlksFor(ino, dsk, b), leaf |-> LeafFor(ino, dsk, b)]

LEMMA InitIs ==
  ASSUME NEW ino, NEW dsk, NEW off \in Offsets
  PROVE  /\ path_of[BlockOfOffset(off)].index = index_of(BlockOfOffset(off))
         /\ path_of[BlockOfOffset(off)].mode = mode_of(BlockOfOffset(off))
         /\ blk_iterator_init(ino, dsk, off) = Iter(ino, dsk, BlockOfOffset(off), off)
<1> DEFINE b == BlockOfOffset(off)
           m == mode_of(b)
           x == index_of(b)
           B == blks_on_path(ino, dsk, x, m)
<1>1. b \in FileBlocks
  BY OffsetBlock
<1>2. path_of[b].index = x /\ path_of[b].mode = m /\ m \in 0 .. 3
  BY <1>1, PathFacts DEF path_of
<1>3. B = BlksFor(ino, dsk, b)
  <2> HIDE DEF m, x
  <2>1. B = [j \in 0 .. 3 |-> IF j = 0 THEN IF m = 0 THEN Nodes(ino, dsk, x)[0] ELSE 0
                             ELSE IF j > m THEN 0 ELSE Nodes(ino, dsk, x)[j - 1]]
    BY <1>2, BlksAreNodes
  <2> HIDE DEF B
  <2> QED BY <2>1 DEF BlksFor, Node, x, m
<1>4. m > 0 => B[m] = Node(ino, dsk, b, m - 1)
  <2> SUFFICES ASSUME m > 0 PROVE B[m] = Node(ino, dsk, b, m - 1)
    OBVIOUS
  <2> HIDE DEF B
  <2>1. m # 0 /\ ~(m > m) /\ m \in 0 .. 3
    BY <1>2, SMT
  <2> HIDE DEF m
  <2>2. BlksFor(ino, dsk, b)[m] = Node(ino, dsk, b, m - 1)
    BY <2>1 DEF BlksFor, m
  <2> QED BY <1>3, <2>2
<1>5. blk_iterator_init(ino, dsk, off) =
        [offset |-> off, mode |-> m, index |-> x, blks_blk |-> B,
         leaf |-> IF m > 0 /\ B[m] # 0 THEN dsk[B[m]] ELSE ZeroBlock]
  <2> HIDE DEF m, x, B
  <2> QED BY <1>2 DEF blk_iterator_init, b, B
<1>6. (IF m > 0 /\ B[m] # 0 THEN dsk[B[m]] ELSE ZeroBlock) = LeafFor(ino, dsk, b)
  <2> HIDE DEF B
  <2> QED BY <1>4 DEF LeafFor
<1> HIDE DEF B
<1> QED BY <1>2, <1>3, <1>5, <1>6 DEF Iter

LEMMA CurrentIs ==
  ASSUME NEW ino, NEW dsk, NEW b \in FileBlocks, NEW off
  PROVE  blk_iterator_get_blk_index(Iter(ino, dsk, b, off)) = Node(ino, dsk, b, mode_of(b))
<1> DEFINE m == mode_of(b)
           i == Iter(ino, dsk, b, off)
<1>1. m \in 0 .. 3
  BY PathFacts
<1>2. /\ i.mode = m /\ i.index = index_of(b) /\ i.blks_blk = BlksFor(ino, dsk, b)
      /\ i.leaf = LeafFor(ino, dsk, b)
  BY DEF Iter
<1> HIDE DEF i
<1>3. CASE m = 0
  <2>1. BlksFor(ino, dsk, b)[0] = Node(ino, dsk, b, 0)
    BY <1>3, SMT DEF BlksFor
  <2> QED BY <1>2, <1>3, <2>1 DEF blk_iterator_get_blk_index, i
<1>4. CASE m # 0
  <2>1. m \in 1 .. 3 /\ m > 0 /\ ~(m > m) /\ m \in 0 .. 3
    BY <1>1, <1>4, SMT
  <2>2. BlksFor(ino, dsk, b)[m] = Node(ino, dsk, b, m - 1)
    <3> HIDE DEF m
    <3> QED BY <2>1 DEF BlksFor, m
  <2>3. Node(ino, dsk, b, m) = IF Node(ino, dsk, b, m - 1) = 0 THEN 0
                               ELSE dsk[Node(ino, dsk, b, m - 1)][index_of(b)[m]]
    BY <2>1, NodeStep
  <2>4. Node(ino, dsk, b, m - 1) # 0 => LeafFor(ino, dsk, b) = dsk[Node(ino, dsk, b, m - 1)]
    BY <2>1 DEF LeafFor
  <2> HIDE DEF m
  <2> QED BY <1>2, <2>1, <2>2, <2>3, <2>4 DEF blk_iterator_get_blk_index, i, m
<1> QED BY <1>3, <1>4

(* A walk from the inode, as Lookup makes it. *)
Walk(ino, dsk, off) ==
  LET x == path_of[BlockOfOffset(off)].index
      m == path_of[BlockOfOffset(off)].mode
      b == blks_on_path(ino, dsk, x, m)
  IN  IF b[m] = 0 THEN 0 ELSE IF m = 0 THEN b[0] ELSE dsk[b[m]][x[m]]

LEMMA WalkIs ==
  ASSUME NEW ino, NEW dsk, NEW off \in Offsets
  PROVE  Walk(ino, dsk, off) = Node(ino, dsk, BlockOfOffset(off), mode_of(BlockOfOffset(off)))
<1> DEFINE b == BlockOfOffset(off)
           m == mode_of(b)
           x == index_of(b)
           B == blks_on_path(ino, dsk, x, m)
<1>1. b \in FileBlocks
  BY OffsetBlock
<1>2. path_of[b].index = x /\ path_of[b].mode = m /\ m \in 0 .. 3
  BY <1>1, PathFacts DEF path_of
<1>3. B = [j \in 0 .. 3 |-> IF j = 0 THEN IF m = 0 THEN Nodes(ino, dsk, x)[0] ELSE 0
                            ELSE IF j > m THEN 0 ELSE Nodes(ino, dsk, x)[j - 1]]
  <2> HIDE DEF m, x
  <2> QED BY <1>2, BlksAreNodes
<1>4. Walk(ino, dsk, off) = IF B[m] = 0 THEN 0 ELSE IF m = 0 THEN B[0] ELSE dsk[B[m]][x[m]]
  <2> HIDE DEF m, x, B
  <2> QED BY <1>2 DEF Walk, b, B
<1>5. CASE m = 0
  <2>1. B[0] = Node(ino, dsk, b, 0)
    <3> HIDE DEF m, x, B
    <3> QED BY <1>3, <1>5, SMT DEF Node, x
  <2> HIDE DEF B
  <2> QED BY <1>4, <1>5, <2>1
<1>6. CASE m # 0
  <2>1. m \in 1 .. 3 /\ ~(m > m)
    BY <1>2, <1>6, SMT
  <2>2. B[m] = Node(ino, dsk, b, m - 1)
    <3> HIDE DEF m, x, B
    <3> QED BY <1>2, <1>3, <1>6, <2>1 DEF Node, x
  <2>3. Node(ino, dsk, b, m) = IF Node(ino, dsk, b, m - 1) = 0 THEN 0
                                ELSE dsk[Node(ino, dsk, b, m - 1)][x[m]]
    BY <2>1, NodeStep
  <2> HIDE DEF B
  <2> QED BY <1>4, <1>6, <2>2, <2>3
<1> QED BY <1>5, <1>6

LEMMA LookupIs ==
  ASSUME NEW ino, NEW off \in Offsets
  PROVE  Lookup(ino, off) = Node(ino, disk, BlockOfOffset(off), mode_of(BlockOfOffset(off)))
<1>1. Lookup(ino, off) = Walk(ino, disk, off)
  BY DEF Lookup, Walk
<1> QED BY <1>1, WalkIs

LEMMA WordIs ==
  ASSUME NEW off \in Offsets
  PROVE  /\ WordAt(off) = FileWord(dinode, disk, BlockOfOffset(off), off % Links)
         /\ WordAt(off)' = FileWord(dinode', disk', BlockOfOffset(off), off % Links)
<1> DEFINE b == BlockOfOffset(off)
<1>1. /\ WordAt(off) = IF Walk(dinode, disk, off) = 0 THEN 0
                       ELSE disk[Walk(dinode, disk, off)][off % Links]
      /\ WordAt(off)' = IF Walk(dinode', disk', off) = 0 THEN 0
                        ELSE disk'[Walk(dinode', disk', off)][off % Links]
  BY DEF WordAt, Lookup, Walk
<1>2. /\ Walk(dinode, disk, off) = Node(dinode, disk, b, mode_of(b))
      /\ Walk(dinode', disk', off) = Node(dinode', disk', b, mode_of(b))
  BY WalkIs
<1> QED BY <1>1, <1>2 DEF FileWord

(* blk_iterator_next finds what blk_iterator_init would find: what it keeps *)
(* is the same on both paths.                                               *)
LEMMA NextIs ==
  ASSUME NEW ino, NEW dsk, NEW o \in Offsets, NEW off \in Offsets
  PROVE  blk_iterator_next(Iter(ino, dsk, BlockOfOffset(o), o), ino, dsk, off) =
           Iter(ino, dsk, BlockOfOffset(off), off)
<1> DEFINE b == BlockOfOffset(o)
           c == BlockOfOffset(off)
           x == index_of(c)
           m == mode_of(c)
           i == Iter(ino, dsk, b, o)
           init == blk_iterator_init(ino, dsk, off)
<1>1. b \in FileBlocks /\ c \in FileBlocks /\ m \in 0 .. 3 /\ mode_of(b) \in 0 .. 3
  BY OffsetBlock, PathFacts
<1>2. init = Iter(ino, dsk, c, off)
  BY InitIs
<1>3. path_of[BlockOfOffset(off)].index = x /\ path_of[BlockOfOffset(off)].mode = m
  BY InitIs
<1>4. /\ i.mode = mode_of(b) /\ i.index = index_of(b) /\ i.blks_blk = BlksFor(ino, dsk, b)
      /\ i.leaf = LeafFor(ino, dsk, b) /\ i.offset = o
  BY DEF Iter
<1>5. blk_iterator_next(i, ino, dsk, off) =
        IF x = i.index THEN [i EXCEPT !.offset = off]
        ELSE IF m # i.mode THEN init
        ELSE IF m = 0
        THEN [i EXCEPT !.offset = off, !.index = x, !.blks_blk[0] = ino.i_block[x[0]]]
        ELSE IF SameLeaf(i, x, m) THEN [i EXCEPT !.offset = off, !.index[m] = x[m]]
        ELSE init
  <2> HIDE DEF i, x, m, init
  <2> QED BY <1>3 DEF blk_iterator_next, init
<1>6. CASE x = i.index
  <2>1. b = c
    <3>1. SamePlace(b, c, mode_of(b))
      BY <1>4, <1>6 DEF SamePlace
    <3> QED BY <1>1, <3>1, SamePath
  <2>2. [i EXCEPT !.offset = off] = Iter(ino, dsk, b, off)
    BY DEF Iter
  <2>3. blk_iterator_next(i, ino, dsk, off) = [i EXCEPT !.offset = off]
    BY <1>5, <1>6
  <2>4. Iter(ino, dsk, b, off) = Iter(ino, dsk, c, off)
    BY <2>1
  <2> QED BY <2>2, <2>3, <2>4
<1>7. CASE x # i.index /\ m = i.mode /\ m = 0
  <2> DEFINE new == [i EXCEPT !.offset = off, !.index = x, !.blks_blk[0] = ino.i_block[x[0]]]
  <2>1. new = [offset |-> off, mode |-> mode_of(b), index |-> x,
               blks_blk |-> [BlksFor(ino, dsk, b) EXCEPT ![0] = ino.i_block[x[0]]],
               leaf |-> LeafFor(ino, dsk, b)]
    <3> DEFINE v == ino.i_block[x[0]]
               f == [i EXCEPT !.offset = off]
               g == [f EXCEPT !.index = x]
               h == [g EXCEPT !.blks_blk[0] = v]
    <3>1. i = [offset |-> o, mode |-> mode_of(b), index |-> index_of(b),
               blks_blk |-> BlksFor(ino, dsk, b), leaf |-> LeafFor(ino, dsk, b)]
      BY DEF Iter
    <3> HIDE DEF i, b, x, v
    <3>2. new = h
      BY DEF v
    <3>3. f = [offset |-> off, mode |-> mode_of(b), index |-> index_of(b),
               blks_blk |-> BlksFor(ino, dsk, b), leaf |-> LeafFor(ino, dsk, b)]
      BY <3>1
    <3> HIDE DEF f
    <3>4. g = [offset |-> off, mode |-> mode_of(b), index |-> x,
               blks_blk |-> BlksFor(ino, dsk, b), leaf |-> LeafFor(ino, dsk, b)]
      BY <3>3
    <3> HIDE DEF g
    <3>5. h = [offset |-> off, mode |-> mode_of(b), index |-> x,
               blks_blk |-> [BlksFor(ino, dsk, b) EXCEPT ![0] = v],
               leaf |-> LeafFor(ino, dsk, b)]
      BY <3>4
    <3> HIDE DEF h, new
    <3> QED BY <3>2, <3>5 DEF v
  <2>2. mode_of(b) = 0 /\ m = 0
    BY <1>4, <1>7
  <2>3. [BlksFor(ino, dsk, b) EXCEPT ![0] = ino.i_block[x[0]]] = BlksFor(ino, dsk, c)
    <3>1. Node(ino, dsk, c, 0) = ino.i_block[x[0]]
      BY NodeStep
    <3> HIDE DEF b, c, x, m
    <3>2. BlksFor(ino, dsk, b) = [j \in 0 .. 3 |-> IF j = 0 THEN Node(ino, dsk, b, 0) ELSE 0]
      BY <2>2, SMT DEF BlksFor
    <3>3. BlksFor(ino, dsk, c) = [j \in 0 .. 3 |-> IF j = 0 THEN Node(ino, dsk, c, 0) ELSE 0]
      BY <2>2, SMT DEF BlksFor, m
    <3> QED BY <3>1, <3>2, <3>3, SMT
  <2>4. LeafFor(ino, dsk, b) = LeafFor(ino, dsk, c)
    <3>1. ~(0 > 0)
      BY SMT
    <3> HIDE DEF b, c
    <3> QED BY <2>2, <3>1 DEF LeafFor, m
  <2>5. new = Iter(ino, dsk, c, off)
    <3> HIDE DEF new, b, c
    <3> QED BY <2>1, <2>2, <2>3, <2>4 DEF Iter, m, x
  <2> QED BY <1>5, <1>7, <2>5
<1>8. CASE x # i.index /\ m = i.mode /\ m # 0 /\ SameLeaf(i, x, m)
  <2> DEFINE new == [i EXCEPT !.offset = off, !.index[m] = x[m]]
  <2>1. new = [offset |-> off, mode |-> mode_of(b),
               index |-> [index_of(b) EXCEPT ![m] = x[m]],
               blks_blk |-> BlksFor(ino, dsk, b), leaf |-> LeafFor(ino, dsk, b)]
    <3> DEFINE v == x[m]
               f == [i EXCEPT !.offset = off]
               h == [f EXCEPT !.index[m] = v]
    <3>1. i = [offset |-> o, mode |-> mode_of(b), index |-> index_of(b),
               blks_blk |-> BlksFor(ino, dsk, b), leaf |-> LeafFor(ino, dsk, b)]
      BY DEF Iter
    <3> HIDE DEF i, b, x, m, v
    <3>2. new = h
      BY DEF v
    <3>3. f = [offset |-> off, mode |-> mode_of(b), index |-> index_of(b),
               blks_blk |-> BlksFor(ino, dsk, b), leaf |-> LeafFor(ino, dsk, b)]
      BY <3>1
    <3> HIDE DEF f
    <3>4. h = [offset |-> off, mode |-> mode_of(b), index |-> [index_of(b) EXCEPT ![m] = v],
               blks_blk |-> BlksFor(ino, dsk, b), leaf |-> LeafFor(ino, dsk, b)]
      BY <3>3
    <3> HIDE DEF h, new
    <3> QED BY <3>2, <3>4 DEF v
  <2>2. /\ mode_of(b) = m /\ m \in 1 .. 3 /\ m > 0 /\ m - 1 \in 0 .. 3 /\ m - 1 \in 0 .. m - 1
        /\ \A j \in 1 .. m - 1 : index_of(b)[j] = x[j]
    BY <1>1, <1>4, <1>8, SMT DEF SameLeaf
  <2>3. index_of(b)[0] = x[0]
    <3>1. \A d \in FileBlocks : mode_of(d) # 0 => index_of(d)[0] = Direct - 1 + mode_of(d)
      BY SMT DEF index_of
    <3>2. mode_of(b) # 0 /\ mode_of(c) # 0 /\ mode_of(b) = mode_of(c)
      BY <1>8, <2>2
    <3> HIDE DEF b, c, m, i
    <3>3. index_of(b)[0] = index_of(c)[0]
      BY <1>1, <3>1, <3>2
    <3> QED BY <3>3
  <2>4. SamePlace(b, c, m - 1)
    <3>1. \A j \in 0 .. m - 1 : j = 0 \/ j \in 1 .. m - 1
      BY <2>2, SMT
    <3> QED BY <2>2, <2>3, <3>1 DEF SamePlace
  <2>5. \A k \in 0 .. m - 1 : Node(ino, dsk, b, k) = Node(ino, dsk, c, k)
    BY <2>2, <2>4, SameNodes
  <2>6. [index_of(b) EXCEPT ![m] = x[m]] = x
    <3>1. /\ index_of(b) = [j \in 0 .. 3 |-> index_of(b)[j]] /\ x = [j \in 0 .. 3 |-> x[j]]
          /\ \A j \in 0 .. 3 : j > m => index_of(b)[j] = 0 /\ x[j] = 0
      BY <1>1, <2>2, PathFacts
    <3>2. \A j \in 0 .. 3 : j # m => index_of(b)[j] = x[j]
      BY <1>1, <2>2, <2>3, <3>1, SMT
    <3> HIDE DEF x, m, b
    <3>3. \A j \in 0 .. 3 : [index_of(b) EXCEPT ![m] = x[m]][j] = x[j]
      BY <1>1, <3>1, <3>2
    <3>4. [index_of(b) EXCEPT ![m] = x[m]] = [j \in 0 .. 3 |-> [index_of(b) EXCEPT ![m] = x[m]][j]]
      BY <3>1
    <3> QED BY <3>1, <3>3, <3>4
  <2>7. BlksFor(ino, dsk, b) = BlksFor(ino, dsk, c)
    <3> HIDE DEF b, c, x, m, i
    <3>1. m # 0 /\ mode_of(c) = m /\ \A j \in 0 .. 3 : j # 0 /\ ~(j > m) => j - 1 \in 0 .. m - 1
      BY <2>2, SMT DEF m
    <3>2. \A j \in 0 .. 3 : BlksFor(ino, dsk, b)[j] = BlksFor(ino, dsk, c)[j]
      BY <2>2, <2>5, <3>1 DEF BlksFor
    <3> QED BY <3>2 DEF BlksFor
  <2>8. LeafFor(ino, dsk, b) = LeafFor(ino, dsk, c)
    <3> HIDE DEF b, c, x, i
    <3> QED BY <2>2, <2>5 DEF LeafFor
  <2>9. new = Iter(ino, dsk, c, off)
    <3> HIDE DEF new, b, c
    <3> QED BY <2>1, <2>2, <2>6, <2>7, <2>8 DEF Iter, m, x
  <2> QED BY <1>5, <1>8, <2>9
<1>9. CASE x # i.index /\ (m # i.mode \/ (m # 0 /\ ~SameLeaf(i, x, m)))
  <2>1. blk_iterator_next(i, ino, dsk, off) = init
    <3> HIDE DEF i, x, m, init
    <3> QED BY <1>5, <1>9
  <2> QED BY <1>2, <2>1
<1> QED BY <1>6, <1>7, <1>8, <1>9

-----------------------------------------------------------------------------
(* Writes to blocks that are no index blocks of the tree leave it alone.    *)
IndexKept(ino, dsk, dsk2) ==
  \A b \in FileBlocks : \A j \in 0 .. mode_of(b) - 1 :
     Node(ino, dsk, b, j) # 0 => dsk2[Node(ino, dsk, b, j)] = dsk[Node(ino, dsk, b, j)]

LEMMA TreeKept ==
  ASSUME NEW ino, NEW dsk, NEW dsk2,
         IndexKept(ino, dsk, dsk2)
  PROVE  /\ \A b \in FileBlocks : \A j \in 0 .. mode_of(b) : Node(ino, dsk2, b, j) = Node(ino, dsk, b, j)
         /\ Apart(ino, dsk) => Apart(ino, dsk2)
         /\ \A u : MarkedIn(ino, dsk, u) => MarkedIn(ino, dsk2, u)
         /\ \A b \in FileBlocks : \A off : Iter(ino, dsk2, b, off) = Iter(ino, dsk, b, off)
<1>1. ASSUME NEW b \in FileBlocks
      PROVE  \A j \in 0 .. mode_of(b) : Node(ino, dsk2, b, j) = Node(ino, dsk, b, j)
  BY NodesKept DEF IndexKept
<1>2. ASSUME NEW b \in FileBlocks, NEW off
      PROVE  Iter(ino, dsk2, b, off) = Iter(ino, dsk, b, off)
  <2>1. mode_of(b) \in 0 .. 3 /\ 0 \in 0 .. mode_of(b)
    BY PathFacts, SMT
  <2>2. BlksFor(ino, dsk2, b) = BlksFor(ino, dsk, b)
    <3>1. \A j \in 0 .. 3 : j # 0 /\ ~(j > mode_of(b)) => j - 1 \in 0 .. mode_of(b)
      BY <2>1, SMT
    <3>2. \A j \in 0 .. 3 : BlksFor(ino, dsk2, b)[j] = BlksFor(ino, dsk, b)[j]
      BY <1>1, <2>1, <3>1 DEF BlksFor
    <3> QED BY <3>2 DEF BlksFor
  <2>3. LeafFor(ino, dsk2, b) = LeafFor(ino, dsk, b)
    <3>1. mode_of(b) > 0 => /\ mode_of(b) - 1 \in 0 .. mode_of(b)
                            /\ mode_of(b) - 1 \in 0 .. mode_of(b) - 1
      BY <2>1, SMT
    <3>2. mode_of(b) > 0 => Node(ino, dsk2, b, mode_of(b) - 1) = Node(ino, dsk, b, mode_of(b) - 1)
      BY <1>1, <3>1
    <3> QED BY <3>1, <3>2 DEF LeafFor, IndexKept
  <2> QED BY <2>2, <2>3 DEF Iter
<1>3. Apart(ino, dsk) => Apart(ino, dsk2)
  BY <1>1 DEF Apart
<1>4. \A u : MarkedIn(ino, dsk, u) => MarkedIn(ino, dsk2, u)
  BY <1>1 DEF MarkedIn
<1> QED BY <1>1, <1>2, <1>3, <1>4

(* A block hangs in one place, and is marked in the bitmap. *)
Tree(ino, dsk, u) == Apart(ino, dsk) /\ MarkedIn(ino, dsk, u)

Unmoved(ino, dsk, ino2, dsk2) ==
  /\ \A b \in FileBlocks : \A j \in 0 .. mode_of(b) : Node(ino2, dsk2, b, j) = Node(ino, dsk, b, j)
  /\ \A u : Tree(ino, dsk, u) => Tree(ino2, dsk2, u)
  /\ \A b \in FileBlocks : \A off : Iter(ino2, dsk2, b, off) = Iter(ino, dsk, b, off)
  /\ SameWords(ino, dsk, ino2, dsk2)

(* The tree is a matter of i_block alone. *)
LEMMA SameBlocks ==
  ASSUME NEW ino, NEW ino2, NEW dsk, ino2.i_block = ino.i_block
  PROVE  Unmoved(ino, dsk, ino2, dsk)
<1>1. \A x : Nodes(ino2, dsk, x) = Nodes(ino, dsk, x)
  BY DEF Nodes
<1>2. \A b, j : Node(ino2, dsk, b, j) = Node(ino, dsk, b, j)
  BY <1>1 DEF Node
<1>3. \A u : Tree(ino, dsk, u) => Tree(ino2, dsk, u)
  BY <1>2 DEF Tree, Apart, MarkedIn
<1>4. \A b, off : Iter(ino2, dsk, b, off) = Iter(ino, dsk, b, off)
  BY <1>2 DEF Iter, BlksFor, LeafFor
<1>5. SameWords(ino, dsk, ino2, dsk)
  BY <1>2 DEF SameWords, FileWord
<1> QED BY <1>2, <1>3, <1>4, <1>5 DEF Unmoved

(* A block that is not in the tree. *)
LEMMA OutsideTree ==
  ASSUME NEW ino, NEW dsk, NEW dsk2, NEW p, NEW u, MarkedIn(ino, dsk, u), p \notin u,
         TreeType(ino, dsk), \A q \in Blk : q # p => dsk2[q] = dsk[q]
  PROVE  Unmoved(ino, dsk, ino, dsk2)
<1>1. ASSUME NEW b \in FileBlocks, NEW j \in 0 .. mode_of(b), Node(ino, dsk, b, j) # 0
      PROVE  dsk2[Node(ino, dsk, b, j)] = dsk[Node(ino, dsk, b, j)]
  <2>1. mode_of(b) \in 0 .. 3 /\ j \in 0 .. 3
    BY PathFacts, SMT
  <2>2. Node(ino, dsk, b, j) \in Blk
    <3>1. Node(ino, dsk, b, j) \in Word
      BY <2>1, NodeType DEF TreeType
    <3> QED BY <1>1, <3>1, SMT DEF Word, Blk
  <2>3. Node(ino, dsk, b, j) # p
    BY <1>1 DEF MarkedIn
  <2> QED BY <2>2, <2>3
<1>2. IndexKept(ino, dsk, dsk2)
  <2>1. \A b \in FileBlocks : \A j \in 0 .. mode_of(b) - 1 : j \in 0 .. mode_of(b)
    BY PathFacts, SMT
  <2> QED BY <1>1, <2>1 DEF IndexKept
<1>3. SameWords(ino, dsk, ino, dsk2)
  <2> SUFFICES ASSUME NEW d \in FileBlocks, NEW i \in 0 .. Links - 1
               PROVE  FileWord(ino, dsk2, d, i) = FileWord(ino, dsk, d, i)
    BY DEF SameWords
  <2>1. mode_of(d) \in 0 .. mode_of(d)
    BY PathFacts, SMT
  <2>2. Node(ino, dsk2, d, mode_of(d)) = Node(ino, dsk, d, mode_of(d))
    BY <1>2, <2>1, TreeKept
  <2> QED BY <1>1, <2>1, <2>2 DEF FileWord
<1> QED BY <1>2, <1>3, TreeKept DEF Unmoved, Tree

(* A data block. *)
DataWritten(ino, dsk, dsk2, b) ==
  /\ \A d \in FileBlocks : \A j \in 0 .. mode_of(d) : Node(ino, dsk2, d, j) = Node(ino, dsk, d, j)
  /\ Apart(ino, dsk2)
  /\ \A u : MarkedIn(ino, dsk, u) => MarkedIn(ino, dsk2, u)
  /\ \A d \in FileBlocks : \A off : Iter(ino, dsk2, d, off) = Iter(ino, dsk, d, off)
  /\ \A d \in FileBlocks \ {b} : \A i : FileWord(ino, dsk2, d, i) = FileWord(ino, dsk, d, i)

LEMMA DataBlock ==
  ASSUME NEW ino, NEW dsk, NEW dsk2, NEW b \in FileBlocks, TreeType(ino, dsk), Apart(ino, dsk),
         Node(ino, dsk, b, mode_of(b)) # 0,
         \A q \in Blk : q # Node(ino, dsk, b, mode_of(b)) => dsk2[q] = dsk[q]
  PROVE  DataWritten(ino, dsk, dsk2, b)
<1> DEFINE p == Node(ino, dsk, b, mode_of(b))
<1>0. \A d \in FileBlocks : mode_of(d) \in 0 .. 3 /\ mode_of(d) \in 0 .. mode_of(d)
  BY PathFacts, SMT
<1>1. ASSUME NEW d \in FileBlocks, NEW j \in 0 .. mode_of(d), Node(ino, dsk, d, j) = p
      PROVE  d = b /\ j = mode_of(d)
  <2>1. j = mode_of(b) /\ SamePlace(b, d, mode_of(b))
    BY <1>0, <1>1 DEF Apart
  <2> QED BY <2>1, SamePath
<1>2. ASSUME NEW d \in FileBlocks, NEW j \in 0 .. mode_of(d),
             Node(ino, dsk, d, j) # 0, Node(ino, dsk, d, j) # p
      PROVE  dsk2[Node(ino, dsk, d, j)] = dsk[Node(ino, dsk, d, j)]
  <2>1. j \in 0 .. 3
    BY <1>0, SMT
  <2>2. Node(ino, dsk, d, j) \in Word
    BY <2>1, NodeType DEF TreeType
  <2>3. Node(ino, dsk, d, j) \in Blk
    BY <1>2, <2>2, SMT DEF Word, Blk
  <2> QED BY <1>2, <2>3
<1>3. IndexKept(ino, dsk, dsk2)
  <2>1. \A d \in FileBlocks : \A j \in 0 .. mode_of(d) - 1 : j \in 0 .. mode_of(d) /\ j # mode_of(d)
    BY <1>0, SMT
  <2> HIDE DEF p
  <2> QED BY <1>1, <1>2, <2>1 DEF IndexKept
<1>4. \A d \in FileBlocks \ {b} : \A i : FileWord(ino, dsk2, d, i) = FileWord(ino, dsk, d, i)
  <2> SUFFICES ASSUME NEW d \in FileBlocks \ {b}, NEW i
               PROVE  FileWord(ino, dsk2, d, i) = FileWord(ino, dsk, d, i)
    OBVIOUS
  <2>1. Node(ino, dsk2, d, mode_of(d)) = Node(ino, dsk, d, mode_of(d))
    BY <1>0, <1>3, TreeKept
  <2>2. Node(ino, dsk, d, mode_of(d)) # p
    BY <1>0, <1>1
  <2> HIDE DEF p
  <2> QED BY <1>0, <1>2, <2>1, <2>2 DEF FileWord
<1> QED BY <1>3, <1>4, TreeKept DEF DataWritten

-----------------------------------------------------------------------------
(* The inductive invariant, for as long as no allocation has failed.        *)
Inodes == [i_size : Offsets, i_blocks : Nat, i_block : [0 .. TI_INDEX -> Word]]

Removing == {"remove", "not_used", "orphan"}
Writing  == {"write", "chain", "commit", "super", "no_block"}

(* The block the iterator stands at. *)
Here == BlockOfOffset(it.offset)

Typed ==
  /\ disk \in [Blk -> [0 .. Links - 1 -> Word]] /\ used \subseteq Blk
  /\ inode \in Inodes /\ dinode \in Inodes /\ it.offset \in Offsets
  /\ req.off \in Nat /\ req.len \in Nat /\ req.val \in Word
  /\ pos \in [off : Nat, count : Nat]
  /\ ch \in [child : Word, first : Word, n : Nat, j : 0 .. 3]

Planted == pc \notin Removing => Tree(inode, disk, used) /\ Tree(dinode, disk, used)

(* The inode on the disk lags behind only while a chain is hung into it.    *)
Saved == pc # "wrong_block" /\ (pc # "commit" => inode = dinode)

Placed == pc \in {"rest", "write", "read", "chain", "super", "no_block"} =>
            it = Iter(inode, disk, Here, it.offset)

(* The new blocks are no part of the tree until the highest is hung in.     *)
Grown ==
  /\ pc = "chain" =>
       /\ ch.j \in 0 .. mode_of(Here)
       /\ \E c : /\ c[ch.j] = ch.child /\ c[mode_of(Here)] = ch.first
                 /\ Branch(inode, disk, Here, ch.j, c)
                 /\ \A k \in ch.j .. mode_of(Here) : c[k] \in used
  /\ pc = "commit" =>
       /\ Node(inode, disk, Here, mode_of(Here)) = ch.first /\ ch.first # 0
       /\ SameWords(dinode, disk, inode, disk) /\ inode.i_size = dinode.i_size

Asked ==
  /\ pc \in Writing =>
       /\ req \in Writes /\ pos.off = it.offset /\ req.off <= pos.off
       /\ pos.off + pos.count = req.off + req.len
       /\ pc # "write" => pos.count > 0
  /\ pc \notin Writing => req = NoRequest
  /\ pc = "read" => pos.off = it.offset /\ pos.off + pos.count \in Offsets

Written == pc \in Writing => \A o \in Offsets :
             req.off <= o /\ o < pos.off => WordAt(o) = req.val

Delivered ==
  /\ pc \notin {"rest", "read"} => rd.words = <<>>
  /\ \A i \in DOMAIN rd.words :
       rd.off + i - 1 \in Offsets /\ rd.words[i] = WordAt(rd.off + i - 1)

(* A file in its removal is whole until one of its blocks is freed.         *)
Kept == Removal =>
  /\ todo \in Seq(Word) /\ Len(BlocksOf(dinode)) \in Nat
  /\ Len(todo) <= Len(BlocksOf(dinode))
  /\ Begun \/ Tree(dinode, disk, used)

Good == /\ Typed /\ Planted /\ Saved /\ Placed
        /\ Grown /\ Asked /\ Written /\ Delivered

-----------------------------------------------------------------------------
LEMMA OffsetsFit ==
  /\ MaxWords \in Nat /\ MaxWords > 0 /\ 0 \in Offsets /\ Links \in Nat \ {0}
  /\ \A n \in Int : n \in Offsets <=> 0 <= n /\ n < MaxWords
<1>1. Links \in Nat \ {0} /\ limits(3) \in Nat \ {0}
  BY IndirectAssumption, LimitsRise, SMT
<1>2. \A x, y \in Nat \ {0} : x * y \in Nat \ {0}
  BY SMT
<1>3. limits(3) * Links \in Nat \ {0}
  BY <1>1, <1>2
<1>4. MaxWords \in Nat \ {0}
  BY <1>3 DEF MaxWords
<1> QED BY <1>1, <1>4, SMT DEF Offsets

(* An inode without blocks. *)
LEMMA EmptyTree ==
  ASSUME NEW dsk, NEW u
  PROVE  /\ Tree(EmptyInode, dsk, u)
         /\ \A b \in FileBlocks : \A i : FileWord(EmptyInode, dsk, b, i) = 0
<1>1. ASSUME NEW b \in FileBlocks, NEW j \in 0 .. mode_of(b) PROVE Node(EmptyInode, dsk, b, j) = 0
  <2>1. mode_of(b) \in 0 .. 3 /\ j \in 0 .. 3 /\ 0 <= j /\ 0 \in 0 .. 3
    BY PathFacts, SMT
  <2>2. Node(EmptyInode, dsk, b, 0) = 0
    <3>1. EmptyInode.i_block = [k \in 0 .. TI_INDEX |-> 0]
      BY DEF EmptyInode
    <3>2. Node(EmptyInode, dsk, b, 0) = EmptyInode.i_block[index_of(b)[0]]
      BY NodeStep
    <3>3. index_of(b)[0] \in 0 .. TI_INDEX
      BY PathFacts
    <3> QED BY <3>1, <3>2, <3>3
  <2> QED BY <2>1, <2>2, NodesMissing
<1>2. \A b \in FileBlocks : mode_of(b) \in 0 .. mode_of(b)
  BY PathFacts, SMT
<1>3. Tree(EmptyInode, dsk, u)
  BY <1>1 DEF Tree, Apart, MarkedIn
<1> QED BY <1>1, <1>2, <1>3 DEF FileWord

LEMMA WordsKept ==
  ASSUME SameWords(dinode, disk, dinode', disk')
  PROVE  Content' = Content /\ \A o \in Offsets : WordAt(o)' = WordAt(o)
<1>1. ASSUME NEW o \in Offsets PROVE WordAt(o)' = WordAt(o)
  <2>1. BlockOfOffset(o) \in FileBlocks /\ o % Links \in 0 .. Links - 1
    BY OffsetBlock
  <2> QED BY <2>1, WordIs DEF SameWords
<1>2. Content = [o \in Offsets |-> WordAt(o)] /\ Content' = [o \in Offsets |-> WordAt(o)']
  BY DEF Content, Offsets
<1> QED BY <1>1, <1>2

LEMMA Stutters ==
  ASSUME SameWords(dinode, disk, dinode', disk'), dinode'.i_size = dinode.i_size,
         UNCHANGED <<req, crashes>>
  PROVE  [Abstract!Deed]_(Abstract!file)
BY WordsKept DEF Abstract!file

LEMMA MoveIs ==
  ASSUME NEW off \in Offsets, it = Iter(inode, disk, Here, it.offset), it.offset \in Offsets
  PROVE  MoveTo(off) = Iter(inode, disk, BlockOfOffset(off), off)
<1>1. CASE off # it.offset
  <2>1. MoveTo(off) = blk_iterator_next(it, inode, disk, off)
    BY <1>1 DEF MoveTo
  <2>2. blk_iterator_next(Iter(inode, disk, BlockOfOffset(it.offset), it.offset), inode, disk, off)
          = Iter(inode, disk, BlockOfOffset(off), off)
    BY NextIs
  <2> QED BY <2>1, <2>2 DEF Here
<1>2. CASE off = it.offset
  <2>1. MoveTo(off) = it
    BY <1>2 DEF MoveTo
  <2> QED BY <1>2, <2>1 DEF Here
<1> QED BY <1>1, <1>2

LEMMA ChunkFits ==
  ASSUME pos.off \in Offsets, pos.count \in Nat
  PROVE  /\ Chunk \in 0 .. pos.count /\ pos.off % Links \in 0 .. Links - 1
         /\ pos.count > 0 => Chunk > 0
         /\ (pos.off % Links) + Chunk <= Links
<1>1. pos.off % Links \in 0 .. Links - 1 /\ Links \in Nat \ {0}
  BY OffsetBlock, OffsetsFit
<1> QED BY <1>1, SMT DEF Chunk, Smaller

LEMMA HereIs ==
  ASSUME it.offset \in Offsets
  PROVE  Here \in FileBlocks /\ mode_of(Here) \in 0 .. 3
BY OffsetBlock, PathFacts DEF Here

LEMMA CurrentHere ==
  ASSUME it = Iter(inode, disk, Here, it.offset), it.offset \in Offsets
  PROVE  Current = Node(inode, disk, Here, mode_of(Here))
BY CurrentIs, HereIs DEF Current

LEMMA RequestFits ==
  ASSUME NEW r \in Writes \cup Reads
  PROVE  /\ r.off \in Offsets /\ r.len \in Nat /\ r.off \in Nat /\ r.len > 0
         /\ r.off + r.len \in Offsets
         /\ r \in Writes => r.val \in Word /\ r # NoRequest
<1>1. /\ r.off \in Nat /\ r.len \in Nat \ {0} /\ r.off + r.len < MaxWords
      /\ r \in Writes => r.val \in Word
  BY FileAssumption
<1>2. NoRequest.len = 0
  BY DEF NoRequest
<1> QED BY <1>1, <1>2, OffsetsFit, SMT

LEMMA SameAll ==
  ASSUME NEW ino, NEW dsk
  PROVE  SameWords(ino, dsk, ino, dsk)
BY DEF SameWords

-----------------------------------------------------------------------------
LEMMA OpenKeeps ==
  ASSUME Good, Open
  PROVE  Good' /\ [Abstract!Deed]_(Abstract!file)
<1> USE DEF Open, dev, locs, bnd
<1>1. Typed /\ Planted /\ Saved /\ Grown /\ Asked /\ Written /\ Delivered
  BY DEF Good
<1>2. SameWords(dinode, disk, dinode', disk')
  BY SameAll
<1>3. 0 \in Offsets /\ it' = Iter(dinode, disk, BlockOfOffset(0), 0) /\ it'.offset = 0
  <2>1. it' = Iter(dinode, disk, BlockOfOffset(0), 0)
    BY InitIs, OffsetsFit
  <2> QED BY <2>1, OffsetsFit DEF Iter
<1>4. Typed'
  BY <1>1, <1>3 DEF Typed
<1>5. Planted'
  BY <1>1 DEF Planted, Removing
<1>6. Saved'
  BY DEF Saved
<1>7. Placed'
  BY <1>3 DEF Placed, Here
<1>8. Grown'
  BY DEF Grown
<1>9. Asked' /\ Written'
  BY <1>1 DEF Asked, Written, Writing
<1>10. Delivered'
  BY <1>1, <1>2, WordsKept DEF Delivered
<1> QED BY <1>2, <1>4, <1>5, <1>6, <1>7, <1>8, <1>9, <1>10, Stutters DEF Good

LEMMA WriteStartKeeps ==
  ASSUME Good, NEW r \in Writes, WriteStart(r)
  PROVE  Good' /\ [Abstract!Deed]_(Abstract!file)
<1> USE DEF WriteStart, dev
<1>1. Typed /\ Planted /\ Saved /\ Placed /\ Asked
  BY DEF Good
<1>2. SameWords(dinode, disk, dinode', disk')
  BY SameAll
<1>3. /\ r.off \in Offsets /\ r.len \in Nat /\ r.off \in Nat /\ r.len > 0
      /\ r.off + r.len \in Offsets /\ r.val \in Word
  BY RequestFits
<1>4. it' = Iter(inode, disk, BlockOfOffset(r.off), r.off) /\ it'.offset = r.off
  <2>1. it = Iter(inode, disk, Here, it.offset) /\ it.offset \in Offsets
    BY <1>1 DEF Placed, Typed
  <2>2. it' = Iter(inode, disk, BlockOfOffset(r.off), r.off)
    BY <1>3, <2>1, MoveIs
  <2> QED BY <2>2 DEF Iter
<1>5. Typed'
  BY <1>1, <1>3, <1>4 DEF Typed
<1>6. Planted' /\ Saved'
  BY <1>1 DEF Planted, Saved, Removing
<1>7. Placed'
  BY <1>4 DEF Placed, Here
<1>8. Grown'
  BY DEF Grown
<1>9. Asked'
  BY <1>3, <1>4, SMT DEF Asked, Writing
<1>10. Written'
  <2>1. req'.off = pos'.off /\ \A o \in Offsets : ~(pos'.off <= o /\ o < pos'.off)
    BY <1>3, OffsetsFit, SMT DEF Offsets
  <2> QED BY <2>1 DEF Written
<1>11. Delivered'
  BY DEF Delivered, NoRead
<1>12. Abstract!Begin(r)
  <2>1. req = NoRequest /\ Abstract!NoRequest = NoRequest
    BY <1>1 DEF Asked, Writing, NoRequest, Abstract!NoRequest
  <2>2. Content' = Content
    BY <1>2, WordsKept
  <2> QED BY <2>1, <2>2 DEF Abstract!Begin
<1> QED BY <1>5, <1>6, <1>7, <1>8, <1>9, <1>10, <1>11, <1>12 DEF Good, Abstract!Deed

(* A pass of the loop of write_file_ext2 writes the words of its chunk.     *)
LEMMA WritesChunk ==
  ASSUME Good, WriteBlock
  PROVE  /\ Typed' /\ Tree(inode', disk', used')
         /\ it' = Iter(inode', disk', BlockOfOffset(pos'.off), pos'.off) /\ pos'.off \in Offsets
         /\ \A o \in Offsets : WordAt(o)' = IF pos.off <= o /\ o < pos'.off THEN req.val ELSE WordAt(o)
<1> DEFINE b == Here
           p == Node(inode, disk, b, mode_of(b))
           at == pos.off % Links
           upper == pos.off + Chunk
<1>1. /\ Typed /\ Planted /\ Saved /\ Placed /\ Asked
      /\ pos.off = it.offset /\ inode = dinode /\ Tree(inode, disk, used)
      /\ req \in Writes /\ pos.off + pos.count = req.off + req.len
      /\ it.offset \in Offsets /\ it = Iter(inode, disk, Here, it.offset)
      /\ pos.off \in Nat /\ pos.count \in Nat /\ pos.off \in Offsets
      /\ pos.count > 0 /\ Current # 0 /\ UNCHANGED <<used, dinode, inode, req, ch>>
  BY DEF Good, Typed, Planted, Saved, Placed, Asked, Writing, Removing, WriteBlock
<1>2. b \in FileBlocks /\ mode_of(b) \in 0 .. 3 /\ Current = p /\ b = BlockOfOffset(pos.off)
  BY <1>1, HereIs, CurrentHere DEF Here
<1>3. p # 0 /\ p \in Blk
  <2>1. p \in Word
    <3> HIDE DEF b
    <3>1. inode.i_block \in [0 .. TI_INDEX -> Word]
      BY <1>1 DEF Typed, Inodes
    <3>2. disk \in [Blk -> [0 .. Links - 1 -> Word]]
      BY <1>1 DEF Typed
    <3> QED BY <1>2, <3>1, <3>2, NodeType
  <2>2. \A w \in Word : w # 0 => w \in Blk
    BY FileAssumption, SMT DEF Word, Blk
  <2>3. p # 0
    BY <1>1, <1>2
  <2> QED BY <2>1, <2>2, <2>3
<1>4. /\ Chunk \in 0 .. pos.count /\ at \in 0 .. Links - 1 /\ at + Chunk <= Links
      /\ Links \in Nat \ {0}
  BY <1>1, ChunkFits, OffsetsFit
<1>5. upper \in Offsets /\ pos'.off = upper /\ pos'.count = pos.count - Chunk
      /\ pos' \in [off : Nat, count : Nat]
  <2>1. req.off + req.len \in Offsets
    BY <1>1, RequestFits
  <2>2. upper \in Nat /\ upper \in Offsets /\ pos.count - Chunk \in Nat
    BY <1>1, <1>4, <2>1, OffsetsFit, SMT
  <2>3. pos' = [off |-> upper, count |-> pos.count - Chunk]
    BY DEF WriteBlock
  <2> HIDE DEF upper
  <2> QED BY <2>2, <2>3
<1>6. /\ disk' = [disk EXCEPT ![p] = [i \in 0 .. Links - 1 |->
                     IF i \in at .. at + Chunk - 1 THEN req.val ELSE disk[p][i]]]
      /\ it' = blk_iterator_next(it, inode, disk', upper)
  <2> HIDE DEF p, at, upper
  <2> QED BY <1>2, <1>3 DEF WriteBlock, at, upper
<1>7. \A q \in Blk : q # p => disk'[q] = disk[q]
  BY <1>1, <1>6 DEF Typed
<1>8. \A i \in 0 .. Links - 1 :
         disk'[p][i] = IF at <= i /\ i < at + Chunk THEN req.val ELSE disk[p][i]
  <2> HIDE DEF p, at
  <2>1. disk'[p] = [i \in 0 .. Links - 1 |->
                     IF i \in at .. at + Chunk - 1 THEN req.val ELSE disk[p][i]]
    BY <1>1, <1>3, <1>6 DEF Typed
  <2>2. \A i \in 0 .. Links - 1 : i \in at .. at + Chunk - 1 <=> at <= i /\ i < at + Chunk
    BY <1>4, SMT
  <2> QED BY <2>1, <2>2
<1>9. TreeType(inode, disk)
  BY <1>1 DEF TreeType, Typed, Inodes
<1>10. /\ \A d \in FileBlocks : \A j \in 0 .. mode_of(d) : Node(inode, disk', d, j) = Node(inode, disk, d, j)
       /\ Tree(inode, disk', used)
       /\ \A d \in FileBlocks : \A off : Iter(inode, disk', d, off) = Iter(inode, disk, d, off)
       /\ \A d \in FileBlocks \ {b} : \A i : FileWord(inode, disk', d, i) = FileWord(inode, disk, d, i)
  <2>1. Apart(inode, disk) /\ MarkedIn(inode, disk, used)
    BY <1>1 DEF Tree
  <2> HIDE DEF b
  <2>2. Node(inode, disk, b, mode_of(b)) # 0
    BY <1>3
  <2>3. \A q \in Blk : q # Node(inode, disk, b, mode_of(b)) => disk'[q] = disk[q]
    BY <1>7
  <2> HIDE DEF p
  <2>4. /\ \A d \in FileBlocks : \A j \in 0 .. mode_of(d) : Node(inode, disk', d, j) = Node(inode, disk, d, j)
        /\ Apart(inode, disk')
        /\ \A u : MarkedIn(inode, disk, u) => MarkedIn(inode, disk', u)
        /\ \A d \in FileBlocks : \A off : Iter(inode, disk', d, off) = Iter(inode, disk, d, off)
        /\ \A d \in FileBlocks \ {b} : \A i : FileWord(inode, disk', d, i) = FileWord(inode, disk, d, i)
    <3>1. b \in FileBlocks
      BY <1>2
    <3>2. DataWritten(inode, disk, disk', b)
      BY <1>9, <2>1, <2>2, <2>3, <3>1, DataBlock
    <3> QED BY <3>2 DEF DataWritten
  <2>5. MarkedIn(inode, disk', used)
    BY <2>1, <2>4
  <2> QED BY <2>1, <2>4, <2>5 DEF Tree
<1>11. it' = Iter(inode', disk', BlockOfOffset(pos'.off), pos'.off)
  <2>1. it = Iter(inode, disk', BlockOfOffset(pos.off), pos.off)
    BY <1>1, <1>2, <1>10
  <2>2. it' = Iter(inode, disk', BlockOfOffset(upper), upper)
    <3> HIDE DEF upper
    <3>1. blk_iterator_next(Iter(inode, disk', BlockOfOffset(pos.off), pos.off), inode, disk', upper)
            = Iter(inode, disk', BlockOfOffset(upper), upper)
      BY <1>1, <1>5, NextIs
    <3> QED BY <1>6, <2>1, <3>1
  <2> QED BY <1>1, <1>5, <2>2
<1>12. it'.offset \in Offsets
  <2>1. it'.offset = pos'.off
    BY <1>11 DEF Iter
  <2> QED BY <1>5, <2>1
<1>13. disk' \in [Blk -> [0 .. Links - 1 -> Word]]
  <2> DEFINE new == [i \in 0 .. Links - 1 |->
                       IF i \in at .. at + Chunk - 1 THEN req.val ELSE disk[p][i]]
  <2>1. new \in [0 .. Links - 1 -> Word]
    <3> HIDE DEF p, at
    <3> QED BY <1>1, <1>3 DEF Typed
  <2> HIDE DEF new, p
  <2>2. disk' = [disk EXCEPT ![p] = new]
    BY <1>6 DEF new
  <2> QED BY <1>1, <2>1, <2>2 DEF Typed
<1>14. Typed'
  BY <1>1, <1>5, <1>12, <1>13 DEF Typed
<1>15. ASSUME NEW o \in Offsets
       PROVE  WordAt(o)' = IF pos.off <= o /\ o < upper THEN req.val ELSE WordAt(o)
  <2>1. /\ WordAt(o) = FileWord(inode, disk, BlockOfOffset(o), o % Links)
        /\ WordAt(o)' = FileWord(inode, disk', BlockOfOffset(o), o % Links)
    BY <1>1, WordIs
  <2>2. /\ BlockOfOffset(o) \in FileBlocks /\ o % Links \in 0 .. Links - 1
        /\ o = BlockOfOffset(o) * Links + (o % Links) /\ o \in Nat
        /\ pos.off = b * Links + at
    <3>1. /\ BlockOfOffset(o) \in FileBlocks /\ o % Links \in 0 .. Links - 1
          /\ o = BlockOfOffset(o) * Links + (o % Links)
          /\ pos.off = BlockOfOffset(pos.off) * Links + at
      BY <1>1, OffsetBlock
    <3> HIDE DEF b
    <3>2. o \in Nat
      BY SMT DEF Offsets
    <3> QED BY <1>2, <3>1, <3>2
  <2>3. CASE BlockOfOffset(o) # b
    <3>1. ~(pos.off <= o /\ o < upper)
      <4> SUFFICES ASSUME pos.off <= o, o < upper PROVE FALSE
        OBVIOUS
      <4>1. o - pos.off \in Nat /\ at + (o - pos.off) < Links /\ pos.off + (o - pos.off) = o
        <5>1. o \in Nat /\ at \in Nat /\ Chunk \in Nat
          BY <1>1, <1>4, <2>2, SMT
        <5> HIDE DEF at
        <5> QED BY <1>1, <1>4, <5>1, SMT
      <4>2. BlockOfOffset(pos.off + (o - pos.off)) = BlockOfOffset(pos.off)
        <5> HIDE DEF b
        <5> QED BY <1>1, <4>1, OffsetWithin
      <4> QED BY <1>2, <2>3, <4>1, <4>2
    <3> QED BY <1>10, <2>1, <2>2, <2>3, <3>1
  <2>4. CASE BlockOfOffset(o) = b
    <3> DEFINE i == o % Links
               k == b * Links
    <3>1. k \in Int /\ at \in Int /\ Chunk \in Int /\ i \in Int
      <4>1. b \in Int
        BY <1>2, SMT DEF FileBlocks
      <4>2. o % Links \in Int /\ at \in Int /\ Chunk \in Int /\ Links \in Int
        BY <1>1, <1>4, <2>2, SMT
      <4> HIDE DEF b, at
      <4> QED BY <4>1, <4>2, SMT
    <3>2. o = k + i /\ pos.off = k + at
      BY <2>2, <2>4
    <3>3. pos.off <= o /\ o < upper <=> at <= i /\ i < at + Chunk
      <4> HIDE DEF k, i, at
      <4> QED BY <3>1, <3>2, SMT
    <3>4. /\ WordAt(o) = disk[p][i] /\ WordAt(o)' = disk'[p][i]
      <4>1. mode_of(b) \in 0 .. mode_of(b)
        BY <1>2, SMT
      <4>2. Node(inode, disk', b, mode_of(b)) = p
        BY <1>2, <1>10, <4>1
      <4> HIDE DEF b
      <4> QED BY <1>3, <2>1, <2>4, <4>2 DEF FileWord
    <3> HIDE DEF p, upper, at
    <3> QED BY <1>8, <2>2, <3>3, <3>4
  <2> QED BY <2>3, <2>4
<1>16. Tree(inode', disk', used')
  BY <1>1, <1>10
<1> HIDE DEF upper
<1> QED BY <1>5, <1>11, <1>14, <1>15, <1>16

LEMMA WriteBlockKeeps ==
  ASSUME Good, WriteBlock
  PROVE  Good' /\ [Abstract!Deed]_(Abstract!file)
<1>1. /\ Typed /\ Planted /\ Saved /\ Placed /\ Asked /\ Written /\ Delivered
      /\ pc = "write" /\ inode = dinode /\ req \in Writes /\ rd.words = <<>>
      /\ pos.off + pos.count = req.off + req.len /\ req.off <= pos.off
      /\ pos.off = it.offset /\ it.offset \in Offsets /\ pos.count \in Nat /\ pos.off \in Nat
      /\ req.off \in Nat /\ req.len \in Nat
  BY DEF Good, Typed, Planted, Saved, Placed, Asked, Delivered, Writing, Removing, WriteBlock
<1>2. /\ UNCHANGED <<used, dfree, dinode, free, inode, pc, req, ch, todo, rd, bnd>>
      /\ pos' = [off |-> pos.off + Chunk, count |-> pos.count - Chunk]
  BY DEF WriteBlock
<1>3. /\ Typed' /\ Tree(inode', disk', used')
      /\ it' = Iter(inode', disk', BlockOfOffset(pos'.off), pos'.off) /\ pos'.off \in Offsets
      /\ \A o \in Offsets : WordAt(o)' = IF pos.off <= o /\ o < pos'.off THEN req.val ELSE WordAt(o)
  BY WritesChunk
<1>4. Chunk \in 0 .. pos.count
  BY <1>1, ChunkFits
<1>5. it'.offset = pos'.off
  BY <1>3 DEF Iter
<1>6. Planted' /\ Saved'
  BY <1>1, <1>2, <1>3 DEF Planted, Saved, Removing
<1>7. Placed'
  BY <1>3, <1>5 DEF Placed, Here
<1>8. Grown'
  BY <1>1, <1>2 DEF Grown
<1>9. pos'.off = pos.off + Chunk /\ pos'.count = pos.count - Chunk
  BY <1>2
<1>10. Asked'
  <2>1. pos'.off + pos'.count = req.off + req.len /\ req.off <= pos'.off
    BY <1>1, <1>4, <1>9, SMTT(60)
  <2> QED BY <1>1, <1>2, <1>5, <2>1 DEF Asked, Writing
<1>11. Written'
  <2>1. ASSUME NEW o \in Offsets, req.off <= o, o < pos'.off PROVE WordAt(o)' = req.val
    <3>1. o \in Nat
      BY SMT DEF Offsets
    <3>2. CASE pos.off <= o
      BY <1>3, <2>1, <3>2
    <3>3. CASE o < pos.off
      <4>1. WordAt(o) = req.val
        BY <1>1, <2>1, <3>3 DEF Written, Writing
      <4> QED BY <1>3, <4>1
    <3> QED BY <1>1, <3>1, <3>2, <3>3, SMT
  <2> QED BY <1>2, <2>1 DEF Written
<1>12. Delivered'
  BY <1>1, <1>2 DEF Delivered
<1>13. Abstract!Put
  <2>1. req # Abstract!NoRequest
    BY <1>1, RequestFits DEF NoRequest, Abstract!NoRequest
  <2>2. Content = [o \in Offsets |-> WordAt(o)] /\ Content' = [o \in Offsets |-> WordAt(o)']
    BY DEF Content, Offsets
  <2>3. ASSUME NEW o \in Offsets
        PROVE  WordAt(o)' = WordAt(o) \/ (o \in Abstract!Named(req) /\ WordAt(o)' = req.val)
    <3>1. pos.off <= o /\ o < pos'.off => o \in Abstract!Named(req)
      <4>1. o \in Nat
        BY SMT DEF Offsets
      <4> QED BY <1>1, <1>4, <1>9, <4>1, SMTT(60) DEF Abstract!Named
    <3> QED BY <1>3, <3>1
  <2> HIDE DEF Content
  <2> QED BY <1>2, <2>1, <2>2, <2>3 DEF Abstract!Put, bnd
<1> QED BY <1>3, <1>6, <1>7, <1>8, <1>10, <1>11, <1>12, <1>13 DEF Good, Abstract!Deed

LEMMA WriteNoSpaceKeeps ==
  ASSUME Good, WriteNoSpace
  PROVE  Good' /\ [Abstract!Deed]_(Abstract!file)
<1> USE DEF WriteNoSpace, dev, mem, locs, bnd
<1>1. SameWords(dinode, disk, dinode', disk')
  BY SameAll
<1>2. \A o \in Offsets : WordAt(o)' = WordAt(o)
  BY <1>1, WordsKept
<1>3. Typed' /\ Planted' /\ Saved' /\ Grown'
  BY DEF Good, Typed, Planted, Saved, Grown, Removing
<1>4. Placed'
  BY DEF Good, Placed, Here
<1>5. Asked'
  BY DEF Good, Asked, Writing
<1>6. Written' /\ Delivered'
  BY <1>2 DEF Good, Written, Delivered, Writing
<1> QED BY <1>1, <1>3, <1>4, <1>5, <1>6, Stutters DEF Good

LEMMA CommitSuperKeeps ==
  ASSUME Good, CommitSuper
  PROVE  Good' /\ [Abstract!Deed]_(Abstract!file)
<1> USE DEF CommitSuper, bnd
<1>1. SameWords(dinode, disk, dinode', disk')
  BY SameAll
<1>2. \A o \in Offsets : WordAt(o)' = WordAt(o)
  BY <1>1, WordsKept
<1>3. pc' \in {"no_block", "write"}
  OBVIOUS
<1>4. Planted' /\ Saved' /\ Grown'
  BY <1>3 DEF Good, Planted, Saved, Grown, Removing
<1>5. Typed'
  <2>1. NoChain \in [child : Word, first : Word, n : Nat, j : 0 .. 3]
    BY FileAssumption, SMT DEF NoChain, Word
  <2> QED BY <2>1 DEF Good, Typed
<1>6. Placed'
  BY DEF Good, Placed, Here
<1>7. Asked'
  BY <1>3 DEF Good, Asked, Writing
<1>8. Written' /\ Delivered'
  BY <1>2, <1>3 DEF Good, Written, Delivered, Writing
<1> QED BY <1>1, <1>4, <1>5, <1>6, <1>7, <1>8, Stutters DEF Good

LEMMA WriteEndKeeps ==
  ASSUME Good, WriteEnd
  PROVE  Good' /\ [Abstract!Deed]_(Abstract!file)
<1> USE DEF WriteEnd, bnd
<1>1. /\ Typed /\ Planted /\ Saved /\ Placed /\ Asked /\ Written /\ Delivered
      /\ inode = dinode /\ req \in Writes /\ pos.off = it.offset /\ it.offset \in Offsets
      /\ pos.off + pos.count = req.off + req.len /\ pos.off \in Nat /\ pos.count = 0
      /\ inode \in Inodes /\ rd.words = <<>>
  BY DEF Good, Typed, Planted, Saved, Placed, Asked, Delivered, Writing, Removing
<1>2. /\ inode' = [inode EXCEPT !.i_size = EndSize] /\ dinode' = inode'
      /\ inode'.i_block = inode.i_block /\ inode'.i_size = EndSize
  BY <1>1 DEF Inodes
<1>3. EndSize \in Offsets /\ inode' \in Inodes
  <2>1. EndSize \in Offsets
    BY <1>1 DEF EndSize, Larger, Inodes
  <2> QED BY <1>1, <1>2, <2>1 DEF Inodes
<1>4. /\ Tree(inode', disk', used') /\ Tree(dinode', disk', used')
      /\ it' = Iter(inode', disk', Here, it.offset)
      /\ SameWords(dinode, disk, dinode', disk')
  <2>1. Unmoved(inode, disk, inode', disk)
    BY <1>2, SameBlocks
  <2>2. Tree(inode, disk, used) /\ it = Iter(inode, disk, Here, it.offset) /\ Here \in FileBlocks
    BY <1>1, HereIs DEF Planted, Placed, Removing
  <2> QED BY <1>1, <1>2, <2>1, <2>2 DEF Unmoved
<1>5. \A o \in Offsets : WordAt(o)' = WordAt(o)
  BY <1>4, WordsKept
<1>6. Typed'
  <2>1. NoRequest.off \in Nat /\ NoRequest.len \in Nat /\ NoRequest.val \in Word
    BY FileAssumption, SMT DEF NoRequest, Word
  <2>2. NoPos \in [off : Nat, count : Nat]
    BY DEF NoPos
  <2> QED BY <1>1, <1>2, <1>3, <2>1, <2>2 DEF Typed
<1>7. Planted' /\ Saved' /\ Placed' /\ Grown'
  BY <1>2, <1>4 DEF Planted, Saved, Placed, Grown, Here
<1>8. Asked' /\ Written'
  BY DEF Asked, Written, Writing
<1>9. Delivered'
  BY <1>1 DEF Delivered
<1>10. Abstract!End
  <2>1. req # Abstract!NoRequest /\ req' = Abstract!NoRequest
    BY <1>1, RequestFits DEF NoRequest, Abstract!NoRequest
  <2>2. Content = [o \in Offsets |-> WordAt(o)] /\ Content' = Content
    BY <1>4, WordsKept DEF Content, Offsets
  <2>3. pos.off = req.off + req.len
    BY <1>1, SMT
  <2>4. \A o \in Abstract!Named(req) : o \in Offsets /\ WordAt(o) = req.val
    <3>1. \A o \in Abstract!Named(req) : o \in Offsets /\ req.off <= o /\ o < pos.off
      <4>1. /\ req.off + req.len \in Offsets /\ req.off \in Nat /\ req.len \in Nat
        BY <1>1, RequestFits
      <4> QED BY <2>3, <4>1, OffsetsFit, SMT DEF Abstract!Named
    <3> QED BY <1>1, <3>1 DEF Written, Writing
  <2>5. dinode'.i_size = Abstract!Larger(dinode.i_size, req.off + req.len)
    BY <1>1, <1>2, <2>3 DEF EndSize, Larger, Abstract!Larger
  <2> HIDE DEF Content
  <2> QED BY <2>1, <2>2, <2>4, <2>5 DEF Abstract!End
<1> QED BY <1>6, <1>7, <1>8, <1>9, <1>10 DEF Good, Abstract!Deed

-----------------------------------------------------------------------------
LEMMA ReadStartKeeps ==
  ASSUME Good, NEW r \in Reads, ReadStart(r)
  PROVE  Good' /\ [Abstract!Deed]_(Abstract!file)
<1> DEFINE off == Smaller(r.off, inode.i_size)
           count == Smaller(r.len, inode.i_size - off)
<1>1. /\ Typed /\ Planted /\ Saved /\ Placed /\ Asked
      /\ it = Iter(inode, disk, Here, it.offset) /\ it.offset \in Offsets
      /\ inode.i_size \in Offsets /\ pc = "rest" /\ req = NoRequest
  BY DEF Good, ReadStart, Typed, Placed, Asked, Writing, Inodes
<1>2. /\ UNCHANGED <<dev, free, inode, req, ch, todo, starved, crashes>>
      /\ pos' = [off |-> off, count |-> count] /\ it' = MoveTo(off)
      /\ pc' = "read" /\ rd' = NoRead
  BY DEF ReadStart
<1>3. /\ r.off \in Offsets /\ r.len \in Nat /\ r.off \in Nat
  BY RequestFits
<1>4. off \in Offsets /\ off \in Nat /\ count \in Nat /\ off + count \in Offsets
  <2>1. /\ inode.i_size \in Nat /\ MaxWords \in Nat
        /\ \A n \in Nat : n <= inode.i_size => n \in Offsets
    BY <1>1, OffsetsFit, SMT DEF Offsets
  <2>2. off \in Nat /\ off <= inode.i_size
    BY <1>3, <2>1, SMT DEF Smaller
  <2> HIDE DEF off
  <2>3. count \in Nat /\ off + count <= inode.i_size
    BY <1>3, <2>1, <2>2, SMT DEF Smaller
  <2> HIDE DEF count
  <2>4. off + count \in Nat
    BY <2>2, <2>3, SMT
  <2> QED BY <2>1, <2>2, <2>3, <2>4
<1> HIDE DEF off, count
<1>5. it' = Iter(inode, disk, BlockOfOffset(off), off) /\ it'.offset = off
  <2>1. it' = Iter(inode, disk, BlockOfOffset(off), off)
    BY <1>1, <1>2, <1>4, MoveIs
  <2> QED BY <2>1 DEF Iter
<1>6. SameWords(dinode, disk, dinode', disk')
  BY <1>2, SameAll DEF dev
<1>7. Typed'
  BY <1>1, <1>2, <1>4, <1>5 DEF Typed, dev
<1>8. Planted' /\ Saved'
  BY <1>1, <1>2 DEF Planted, Saved, Removing, dev
<1>9. Placed'
  BY <1>2, <1>5 DEF Placed, Here, dev
<1>10. Grown' /\ Written' /\ Delivered'
  BY <1>2 DEF Grown, Written, Delivered, Writing, NoRead
<1>11. Asked'
  BY <1>1, <1>2, <1>4, <1>5 DEF Asked, Writing
<1>12. [Abstract!Deed]_(Abstract!file)
  BY <1>2, <1>6, Stutters DEF dev
<1> QED BY <1>7, <1>8, <1>9, <1>10, <1>11, <1>12 DEF Good

(* A pass of the loop of read_file_ext2 delivers the words of its chunk.    *)
LEMMA ReadBlockKeeps ==
  ASSUME Good, ReadBlock
  PROVE  Good' /\ [Abstract!Deed]_(Abstract!file)
<1> DEFINE at == pos.off % Links
           upper == pos.off + Chunk
<1>1. /\ Typed /\ Planted /\ Saved /\ Placed /\ Asked
      /\ it = Iter(inode, disk, Here, it.offset) /\ it.offset \in Offsets
      /\ pc = "read" /\ req = NoRequest /\ inode = dinode
      /\ pos.off = it.offset /\ pos.off + pos.count \in Offsets
      /\ pos.off \in Nat /\ pos.count \in Nat
  BY DEF Good, ReadBlock, Typed, Placed, Saved, Asked, Writing
<1>2. /\ UNCHANGED <<dev, free, inode, pc, req, ch, todo, bnd>>
      /\ pos' = [off |-> upper, count |-> pos.count - Chunk]
      /\ it' = blk_iterator_next(it, inode, disk, upper)
      /\ rd' = [off |-> pos.off,
                words |-> [i \in 1 .. Chunk |->
                             IF Current = 0 THEN 0 ELSE disk[Current][at + i - 1]]]
  BY DEF ReadBlock
<1>3. /\ Chunk \in 0 .. pos.count /\ at \in 0 .. Links - 1 /\ at + Chunk <= Links
      /\ Links \in Nat \ {0}
  BY <1>1, ChunkFits, OffsetsFit
<1>4. /\ upper \in Offsets /\ upper \in Nat /\ pos.count - Chunk \in Nat
      /\ upper + (pos.count - Chunk) \in Offsets
  BY <1>1, <1>3, OffsetsFit, SMT
<1> HIDE DEF at, upper
<1>5. it' = Iter(inode, disk, BlockOfOffset(upper), upper) /\ it'.offset = upper
  <2>1. it' = Iter(inode, disk, BlockOfOffset(upper), upper)
    BY <1>1, <1>2, <1>4, NextIs DEF Here
  <2> QED BY <2>1 DEF Iter
<1>6. SameWords(dinode, disk, dinode', disk')
  BY <1>2, SameAll DEF dev
<1>7. Typed'
  BY <1>1, <1>2, <1>4, <1>5 DEF Typed, dev
<1>8. Planted' /\ Saved'
  BY <1>1, <1>2 DEF Planted, Saved, Removing, dev
<1>9. Placed'
  BY <1>2, <1>5 DEF Placed, Here, dev
<1>10. Grown' /\ Written'
  BY <1>1, <1>2 DEF Grown, Written, Writing
<1>11. Asked'
  BY <1>1, <1>2, <1>4, <1>5 DEF Asked, Writing
<1>12. Delivered'
  <2>1. ASSUME NEW i \in 1 .. Chunk
        PROVE  /\ pos.off + i - 1 \in Offsets
               /\ WordAt(pos.off + i - 1) = IF Current = 0 THEN 0 ELSE disk[Current][at + i - 1]
    <3>1. /\ i - 1 \in Nat /\ at + (i - 1) < Links /\ pos.off + (i - 1) \in Offsets
          /\ pos.off + (i - 1) = pos.off + i - 1 /\ at + (i - 1) = at + i - 1
      BY <1>1, <1>3, OffsetsFit, SMT
    <3>2. /\ BlockOfOffset(pos.off + (i - 1)) = BlockOfOffset(pos.off)
          /\ (pos.off + (i - 1)) % Links = at + (i - 1)
      BY <1>1, <3>1, OffsetWithin DEF at
    <3>3. WordAt(pos.off + (i - 1)) = FileWord(dinode, disk, Here, at + (i - 1))
      BY <1>1, <3>1, <3>2, WordIs DEF Here
    <3>4. Current = Node(inode, disk, Here, mode_of(Here))
      BY <1>1, CurrentHere
    <3> QED BY <1>1, <3>1, <3>3, <3>4 DEF FileWord
  <2>2. \A o \in Offsets : WordAt(o)' = WordAt(o)
    BY <1>6, WordsKept
  <2>3. /\ DOMAIN rd'.words = 1 .. Chunk /\ rd'.off = pos.off
        /\ \A i \in 1 .. Chunk :
              rd'.words[i] = IF Current = 0 THEN 0 ELSE disk[Current][at + i - 1]
    BY <1>2
  <2>4. pc' = "read"
    BY <1>1, <1>2
  <2> HIDE DEF Offsets
  <2>5. ASSUME NEW i \in DOMAIN rd'.words, NEW o \in Offsets, o = rd'.off + i - 1
        PROVE  rd'.words[i] = WordAt(o)'
    BY <2>1, <2>2, <2>3, <2>5
  <2>6. \A i \in DOMAIN rd'.words : rd'.off + i - 1 \in Offsets
    BY <2>1, <2>3
  <2> QED BY <2>4, <2>5, <2>6 DEF Delivered
<1>13. [Abstract!Deed]_(Abstract!file)
  BY <1>2, <1>6, Stutters DEF dev, bnd
<1> QED BY <1>7, <1>8, <1>9, <1>10, <1>11, <1>12, <1>13 DEF Good

LEMMA ReadEndKeeps ==
  ASSUME Good, ReadEnd
  PROVE  Good' /\ [Abstract!Deed]_(Abstract!file)
<1> USE DEF ReadEnd, bnd, mem
<1>1. inode = dinode
  BY DEF Good, Saved
<1>2. SameWords(dinode, disk, dinode', disk') /\ dinode' = dinode
  BY <1>1, SameAll
<1>3. \A o \in Offsets : WordAt(o)' = WordAt(o)
  BY <1>2, WordsKept
<1>4. Typed'
  BY DEF Good, Typed, NoPos
<1>5. Planted' /\ Saved' /\ Grown'
  BY DEF Good, Planted, Saved, Grown, Removing
<1>6. Placed'
  BY DEF Good, Placed, Here
<1>7. Asked' /\ Written'
  BY DEF Good, Asked, Written, Writing
<1>8. Delivered'
  BY <1>3 DEF Good, Delivered
<1> QED BY <1>2, <1>4, <1>5, <1>6, <1>7, <1>8, Stutters DEF Good

-----------------------------------------------------------------------------
LEMMA RemoveStartKeeps ==
  ASSUME Good, RemoveStart
  PROVE  Good' /\ [Abstract!Deed]_(Abstract!file)
<1> USE DEF RemoveStart, dev
<1>1. Typed /\ Asked /\ pc = "rest"
  BY DEF Good
<1>2. SameWords(dinode, disk, dinode', disk')
  BY SameAll
<1>3. it'.offset = 0
  <2>1. it' = Iter(dinode, disk, BlockOfOffset(0), 0)
    BY InitIs, OffsetsFit
  <2> QED BY <2>1 DEF Iter
<1>4. Typed'
  BY <1>1, <1>3, OffsetsFit DEF Typed
<1>5. Planted' /\ Saved' /\ Placed' /\ Grown' /\ Written'
  BY DEF Planted, Saved, Placed, Grown, Written, Removing, Writing
<1>6. Asked' /\ Delivered'
  BY <1>1 DEF Asked, Delivered, Writing, NoRead
<1> QED BY <1>2, <1>4, <1>5, <1>6, Stutters DEF Good

LEMMA RemoveBlockKeeps ==
  ASSUME Good, RemoveBlock
  PROVE  Good' /\ [Abstract!Deed]_(Abstract!file)
<1> USE DEF RemoveBlock, bnd
<1>1. /\ pc = "remove" /\ pc' \in {"remove", "not_used"} /\ used' \subseteq used
      /\ UNCHANGED <<disk, dinode, inode, it, req, pos, ch, rd, crashes>>
  OBVIOUS
<1>2. SameWords(dinode, disk, dinode', disk')
  BY <1>1, SameAll
<1> USE <1>1
<1>3. Typed'
  BY DEF Good, Typed
<1>4. Planted' /\ Saved' /\ Placed' /\ Grown' /\ Written'
  BY DEF Good, Planted, Saved, Placed, Grown, Written, Removing, Writing
<1>5. Asked' /\ Delivered'
  BY DEF Good, Asked, Delivered, Writing
<1> QED BY <1>2, <1>3, <1>4, <1>5, Stutters DEF Good

LEMMA RemoveEndKeeps ==
  ASSUME Good, RemoveEnd
  PROVE  Good' /\ [Abstract!Deed]_(Abstract!file)
<1> USE DEF RemoveEnd, bnd, locs
<1>1. Typed /\ req = NoRequest /\ rd.words = <<>>
  BY DEF Good, Asked, Delivered, Writing
<1>2. it' = Iter(inode', disk', BlockOfOffset(0), 0) /\ it'.offset = 0
  <2>1. it' = Iter(EmptyInode, disk, BlockOfOffset(0), 0)
    BY InitIs, OffsetsFit
  <2> QED BY <2>1 DEF Iter
<1>3. EmptyInode \in Inodes
  BY OffsetsFit, FileAssumption, SMT DEF EmptyInode, Inodes, Word
<1>4. Typed'
  BY <1>1, <1>2, <1>3, OffsetsFit DEF Typed
<1>5. Planted' /\ Saved' /\ Placed' /\ Grown'
  BY <1>2, EmptyTree DEF Planted, Saved, Placed, Grown, Here
<1>6. Asked' /\ Written' /\ Delivered'
  BY <1>1 DEF Asked, Written, Delivered, Writing
<1>7. Abstract!Remove
  <2>1. \A o \in Offsets : WordAt(o)' = 0
    BY EmptyTree, OffsetBlock, WordIs
  <2>2. Content' = [o \in Offsets |-> WordAt(o)']
    BY DEF Content, Offsets
  <2>3. Content' = [o \in 0 .. MaxWords - 1 |-> 0]
    BY <2>1, <2>2 DEF Offsets
  <2>4. req = Abstract!NoRequest /\ dinode'.i_size = 0
    BY <1>1 DEF Abstract!NoRequest, NoRequest, EmptyInode
  <2> HIDE DEF Content
  <2> QED BY <2>3, <2>4 DEF Abstract!Remove
<1> QED BY <1>4, <1>5, <1>6, <1>7 DEF Good, Abstract!Deed

LEMMA CrashKeeps ==
  ASSUME Good, Kept, Crash, ~halved'
  PROVE  Good' /\ [Abstract!Deed]_(Abstract!file)
<1> USE DEF Crash, dev
<1>1. Typed /\ Planted
  BY DEF Good
<1>2. it' = Iter(inode', disk', BlockOfOffset(0), 0) /\ it'.offset = 0
  <2>1. it' = Iter(dinode, disk, BlockOfOffset(0), 0)
    BY InitIs, OffsetsFit
  <2> QED BY <2>1 DEF Iter
<1>3. pc' \in {"rest", "orphan"} /\ (pc' = "rest" => Tree(dinode, disk, used))
  BY <1>1 DEF Planted, Removing, Kept, Removal
<1>4. Typed'
  <2>1. NoRequest.off \in Nat /\ NoRequest.len \in Nat /\ NoRequest.val \in Word
    BY FileAssumption, SMT DEF NoRequest, Word
  <2>2. NoPos \in [off : Nat, count : Nat]
    BY DEF NoPos
  <2>3. NoChain \in [child : Word, first : Word, n : Nat, j : 0 .. 3]
    BY FileAssumption, SMT DEF NoChain, Word
  <2> QED BY <1>1, <1>2, <2>1, <2>2, <2>3, OffsetsFit DEF Typed
<1>5. Planted'
  BY <1>3 DEF Planted, Removing
<1>6. Saved' /\ Grown'
  BY <1>3 DEF Saved, Grown
<1>7. Placed'
  BY <1>2 DEF Placed, Here
<1>8. Asked' /\ Written' /\ Delivered'
  BY <1>3 DEF Asked, Written, Delivered, Writing, NoRead
<1>9. Abstract!Abort
  <2>1. Content' = Content
    BY SameAll, WordsKept
  <2> QED BY <2>1 DEF Abstract!Abort, Abstract!NoRequest, NoRequest
<1> QED BY <1>4, <1>5, <1>6, <1>7, <1>8, <1>9 DEF Good, Abstract!Deed

-----------------------------------------------------------------------------
LEMMA MarkedMore ==
  ASSUME NEW ino, NEW dsk, NEW u, NEW v, u \subseteq v, Tree(ino, dsk, u)
  PROVE  Tree(ino, dsk, v)
BY DEF Tree, MarkedIn

LEMMA BlockWords ==
  /\ \A w \in Word : w # 0 => w \in Blk
  /\ \A w \in Blk : w \in Word /\ w # 0
  /\ 0 \in Word
BY FileAssumption, SMT DEF Word, Blk

LEMMA PathHere ==
  ASSUME it = Iter(inode, disk, Here, it.offset), it.offset \in Offsets
  PROVE  /\ it.mode = mode_of(Here) /\ it.index = index_of(Here)
         /\ \A j \in 1 .. mode_of(Here) : it.blks_blk[j] = Node(inode, disk, Here, j - 1)
<1>1. it.mode = mode_of(Here) /\ it.index = index_of(Here) /\ it.blks_blk = BlksFor(inode, disk, Here)
  BY DEF Iter
<1>2. \A j \in 1 .. mode_of(Here) : j \in 0 .. 3 /\ j # 0 /\ ~(j > mode_of(Here))
  BY HereIs, SMT
<1>3. \A j \in 1 .. mode_of(Here) : BlksFor(inode, disk, Here)[j] = Node(inode, disk, Here, j - 1)
  BY <1>2 DEF BlksFor
<1> QED BY <1>1, <1>3

(* A block that was free is written: the tree does not see it.              *)
LEMMA FreshBlock ==
  ASSUME Good, inode = dinode, pc \notin Removing, it = Iter(inode, disk, Here, it.offset),
         NEW b \in Blk \ used, UNCHANGED <<inode, dinode, it>>, used' = used \cup {b},
         \A q \in Blk : q # b => disk'[q] = disk[q]
  PROVE  /\ Unmoved(inode, disk, inode, disk')
         /\ Tree(inode', disk', used') /\ Tree(dinode', disk', used')
         /\ it' = Iter(inode', disk', Here, it.offset)
         /\ SameWords(dinode, disk, dinode', disk')
         /\ \A d \in FileBlocks : \A l \in 0 .. mode_of(d) :
               Node(inode, disk', d, l) # b /\ Node(inode, disk', d, l) = Node(inode, disk, d, l)
<1>1. /\ Tree(inode, disk, used) /\ TreeType(inode, disk) /\ it.offset \in Offsets
  BY DEF Good, Planted, Typed, Inodes, TreeType
<1>2. Unmoved(inode, disk, inode, disk')
  BY <1>1, OutsideTree DEF Tree
<1>3. Tree(inode, disk', used')
  BY <1>1, <1>2, MarkedMore DEF Unmoved
<1>4. it = Iter(inode, disk', Here, it.offset)
  BY <1>1, <1>2, HereIs DEF Unmoved
<1>5. ASSUME NEW d \in FileBlocks, NEW l \in 0 .. mode_of(d)
      PROVE  Node(inode, disk', d, l) # b /\ Node(inode, disk', d, l) = Node(inode, disk, d, l)
  <2>1. Node(inode, disk', d, l) = Node(inode, disk, d, l)
    BY <1>2 DEF Unmoved
  <2>2. Node(inode, disk, d, l) # 0 => Node(inode, disk, d, l) \in used
    BY <1>1 DEF Tree, MarkedIn
  <2>3. b # 0
    BY BlockWords
  <2> QED BY <2>1, <2>2, <2>3
<1> QED BY <1>2, <1>3, <1>4, <1>5 DEF Unmoved

LEMMA AllocDataKeeps ==
  ASSUME Good, AllocData, ~starved'
  PROVE  Good' /\ [Abstract!Deed]_(Abstract!file)
<1>1. /\ Typed /\ Saved /\ Placed /\ Asked /\ Written /\ Delivered
      /\ pc = "write" /\ pos.count > 0 /\ Current = 0 /\ inode = dinode
      /\ it = Iter(inode, disk, Here, it.offset) /\ it.offset \in Offsets
      /\ rd.words = <<>>
  BY DEF Good, Typed, Saved, Placed, Delivered, AllocData
<1>2. UNCHANGED <<dfree, dinode, mem, req, pos, todo, rd, crashes, ops>> /\ pc' = "chain"
  BY DEF AllocData
<1>3. PICK b \in Blk \ used :
         /\ used' = used \cup {b} /\ disk' = [disk EXCEPT ![b] = ZeroBlock]
         /\ ch' = [child |-> b, first |-> b, n |-> 1, j |-> it.mode]
  BY DEF AllocData, Allocated, NotAllocated
<1> DEFINE m == mode_of(Here)
           c == [k \in 0 .. 3 |-> b]
<1>4. /\ Here \in FileBlocks /\ m \in 0 .. 3 /\ m \in m .. m /\ m \in 0 .. m
      /\ \A k \in m .. m : k = m
      /\ \A k : k \notin m .. m - 1
  BY <1>1, HereIs, SMT
<1>5. it.mode = m
  BY <1>1, PathHere
<1>6. b \in Word /\ b # 0 /\ b \in Blk
  BY BlockWords
<1>7. ZeroBlock \in [0 .. Links - 1 -> Word]
  BY BlockWords DEF ZeroBlock
<1>8. Typed'
  BY <1>1, <1>2, <1>3, <1>4, <1>5, <1>6, <1>7 DEF Typed, mem
<1>9. /\ Unmoved(inode, disk, inode, disk')
      /\ Tree(inode', disk', used') /\ Tree(dinode', disk', used')
      /\ it' = Iter(inode', disk', Here, it.offset)
      /\ SameWords(dinode, disk, dinode', disk')
      /\ \A d \in FileBlocks : \A l \in 0 .. mode_of(d) :
            Node(inode, disk', d, l) # b /\ Node(inode, disk', d, l) = Node(inode, disk, d, l)
  <2>1. \A q \in Blk : q # b => disk'[q] = disk[q]
    BY <1>1, <1>3 DEF Typed
  <2> QED BY <1>1, <1>2, <1>3, <2>1, FreshBlock DEF mem, Removing
<1>10. Planted' /\ Saved'
  BY <1>1, <1>2, <1>9 DEF Planted, Saved, mem
<1>11. Here' = Here /\ it' = it
  BY <1>2 DEF Here, mem
<1>12. Placed'
  BY <1>9, <1>11 DEF Placed
<1>13. Branch(inode, disk', Here, m, c)
  <2>1. c[m] = b
    BY <1>4
  <2>2. disk'[b] = ZeroBlock
    BY <1>1, <1>3, <1>6 DEF Typed
  <2>3. Node(inode, disk', Here, m) = 0
    BY <1>1, <1>4, <1>9, CurrentHere
  <2> HIDE DEF c
  <2> QED BY <1>4, <1>6, <1>9, <2>1, <2>2, <2>3 DEF Branch
<1>14. Grown'
  <2>1. c[m] = b /\ b \in used'
    BY <1>3, <1>4
  <2>2. ch'.j = m /\ ch'.child = b /\ ch'.first = b
    BY <1>3, <1>5
  <2> HIDE DEF c, m
  <2>3. inode' = inode /\ pc' # "commit"
    BY <1>2 DEF mem
  <2>4. \E x : /\ x[ch'.j] = ch'.child /\ x[m] = ch'.first
               /\ Branch(inode', disk', Here, ch'.j, x)
               /\ \A k \in ch'.j .. m : x[k] \in used'
    BY <1>4, <1>13, <2>1, <2>2, <2>3
  <2> QED BY <1>4, <1>11, <2>2, <2>3, <2>4 DEF Grown, m
<1>15. Asked'
  BY <1>1, <1>2 DEF Asked, Writing, mem
<1>16. \A o \in Offsets : WordAt(o)' = WordAt(o)
  BY <1>9, WordsKept
<1>17. Written' /\ Delivered'
  BY <1>1, <1>2, <1>16 DEF Written, Delivered, Writing
<1>18. [Abstract!Deed]_(Abstract!file)
  BY <1>2, <1>9, Stutters
<1> QED BY <1>8, <1>10, <1>12, <1>14, <1>15, <1>17, <1>18 DEF Good

LEMMA ChainIndexKeeps ==
  ASSUME Good, ChainIndex, ~starved'
  PROVE  Good' /\ [Abstract!Deed]_(Abstract!file)
<1> DEFINE m == mode_of(Here)
           j == ch.j
<1>1. /\ Typed /\ Saved /\ Placed /\ Grown /\ Asked /\ Written /\ Delivered
      /\ pc = "chain" /\ inode = dinode /\ rd.words = <<>>
      /\ it = Iter(inode, disk, Here, it.offset) /\ it.offset \in Offsets
  BY DEF Good, Typed, Saved, Placed, Delivered, ChainIndex
<1>2. /\ UNCHANGED <<dfree, dinode, mem, pc, req, pos, todo, rd, crashes, ops>>
      /\ j > 0 /\ it.blks_blk[j] = 0
  BY DEF ChainIndex
<1>3. PICK b \in Blk \ used :
         /\ used' = used \cup {b}
         /\ disk' = [k \in Blk |-> IF k = b
                                   THEN [ZeroBlock EXCEPT ![it.index[ch.j]] = ch.child]
                                   ELSE disk[k]]
         /\ ch' = [ch EXCEPT !.child = b, !.n = @ + 1, !.j = @ - 1]
  BY DEF ChainIndex, Allocated, NotAllocated
<1>4. PICK c : /\ c[ch.j] = ch.child /\ c[mode_of(Here)] = ch.first
               /\ Branch(inode, disk, Here, ch.j, c)
               /\ \A k \in ch.j .. mode_of(Here) : c[k] \in used
  BY <1>1 DEF Grown
<1>5. /\ Here \in FileBlocks /\ m \in 0 .. 3 /\ j \in 1 .. m /\ j \in 0 .. 3
      /\ j - 1 \in 0 .. 3 /\ j - 1 \in 0 .. m /\ j # j - 1 /\ m # j - 1
      /\ m \in j .. m /\ j \in j .. m /\ j - 1 + 1 = j
      /\ \A k \in j - 1 .. m : k = j - 1 \/ (k # j - 1 /\ k \in j .. m)
      /\ \A k \in j - 1 .. m - 1 : k = j - 1 \/ (k # j - 1 /\ k + 1 # j - 1 /\ k \in j .. m - 1)
      /\ \A k \in j - 1 .. m - 1 : k \in 0 .. 3 /\ k + 1 \in 0 .. 3 /\ k \in j - 1 .. m
      /\ \A k \in j .. m : k \in 0 .. 3
      /\ \A k \in j .. m - 1 : k \in j .. m
  <2>1. Here \in FileBlocks /\ m \in 0 .. 3 /\ j \in 0 .. m
    BY <1>1, HereIs DEF Grown
  <2> HIDE DEF m, j
  <2> QED BY <1>2, <2>1, SMT
<1>6. /\ it.index = index_of(Here) /\ Node(inode, disk, Here, j - 1) = 0
  BY <1>1, <1>2, <1>5, PathHere
<1>7. b \in Word /\ b # 0 /\ b \in Blk
  BY BlockWords
<1>8. /\ ch.child \in Word /\ ch.first \in Word /\ ch.n \in Nat
      /\ ch' = [child |-> b, first |-> ch.first, n |-> ch.n + 1, j |-> j - 1]
  BY <1>1, <1>3 DEF Typed
<1>9. Typed'
  <2>1. index_of(Here)[j] \in 0 .. Links - 1
    BY <1>5, PathFacts
  <2>2. [ZeroBlock EXCEPT ![it.index[ch.j]] = ch.child] \in [0 .. Links - 1 -> Word]
    BY <1>8, BlockWords DEF ZeroBlock
  <2>3. disk' \in [Blk -> [0 .. Links - 1 -> Word]]
    BY <1>1, <1>3, <2>2 DEF Typed
  <2>4. ch' \in [child : Word, first : Word, n : Nat, j : 0 .. 3]
    <3>1. ch.n + 1 \in Nat
      BY <1>8, SMT
    <3> HIDE DEF j
    <3> QED BY <1>5, <1>7, <1>8, <3>1
  <2> QED BY <1>1, <1>2, <1>3, <1>7, <2>3, <2>4 DEF Typed, mem
<1>10. /\ Unmoved(inode, disk, inode, disk')
       /\ Tree(inode', disk', used') /\ Tree(dinode', disk', used')
       /\ it' = Iter(inode', disk', Here, it.offset)
       /\ SameWords(dinode, disk, dinode', disk')
       /\ \A d \in FileBlocks : \A l \in 0 .. mode_of(d) :
             Node(inode, disk', d, l) # b /\ Node(inode, disk', d, l) = Node(inode, disk, d, l)
  <2>1. \A q \in Blk : q # b => disk'[q] = disk[q]
    BY <1>1, <1>3 DEF Typed
  <2> QED BY <1>1, <1>2, <1>3, <2>1, FreshBlock DEF mem, Removing
<1>11. Planted' /\ Saved'
  BY <1>1, <1>2, <1>10 DEF Planted, Saved, mem
<1>12. Here' = Here /\ it' = it
  BY <1>2 DEF Here, mem
<1>13. Placed'
  BY <1>10, <1>12 DEF Placed
<1> DEFINE e == [k \in 0 .. 3 |-> IF k = j - 1 THEN b ELSE c[k]]
<1>14. /\ e[j - 1] = b /\ \A k \in j .. m : e[k] = c[k]
  <2>1. \A k \in j .. m : k \in 0 .. 3 /\ k # j - 1
    BY <1>5, SMT
  <2> HIDE DEF j, m
  <2> QED BY <1>5, <2>1
<1>15. Branch(inode, disk', Here, j - 1, e)
  <2> HIDE DEF j, m, e
  <2> USE <1>14
  <2>1. ASSUME NEW k \in j - 1 .. m
        PROVE  /\ e[k] \in Blk
               /\ \A d \in FileBlocks : \A l \in 0 .. mode_of(d) : Node(inode, disk', d, l) # e[k]
    <3>1. CASE k = j - 1
      BY <1>7, <1>10, <3>1
    <3>2. CASE k \in j .. m
      <4>1. /\ c[k] \in Blk
            /\ \A d \in FileBlocks : \A l \in 0 .. mode_of(d) : Node(inode, disk, d, l) # c[k]
        BY <1>4, <3>2 DEF Branch, j, m
      <4> QED BY <1>10, <3>2, <4>1
    <3> QED BY <1>5, <3>1, <3>2
  <2>2. \A k \in j .. m : c[k] \in used /\ c[k] # b /\ c[k] \in Blk
    BY <1>4 DEF Branch, j, m
  <2>3. ASSUME NEW k \in j - 1 .. m, NEW l \in j - 1 .. m, e[k] = e[l]
        PROVE  k = l
    <3>1. CASE k \in j .. m /\ l \in j .. m
      <4>1. c[k] = c[l]
        BY <2>3, <3>1
      <4> QED BY <1>4, <3>1, <4>1 DEF Branch, j, m
    <3>2. CASE k = j - 1 /\ l \in j .. m
      BY <2>2, <2>3, <3>2
    <3>3. CASE k \in j .. m /\ l = j - 1
      BY <2>2, <2>3, <3>3
    <3> QED BY <1>5, <3>1, <3>2, <3>3
  <2>4. ASSUME NEW k \in j - 1 .. m - 1
        PROVE  disk'[e[k]] = [ZeroBlock EXCEPT ![index_of(Here)[k + 1]] = e[k + 1]]
    <3>1. CASE k = j - 1
      <4>1. disk'[b] = [ZeroBlock EXCEPT ![it.index[j]] = ch.child]
        BY <1>3, <1>7 DEF j
      <4>2. e[k + 1] = ch.child /\ k + 1 = j
        BY <1>4, <1>5, <3>1 DEF j
      <4> QED BY <1>6, <3>1, <4>1, <4>2
    <3>2. CASE k \in j .. m - 1
      <4>1. disk[c[k]] = [ZeroBlock EXCEPT ![index_of(Here)[k + 1]] = c[k + 1]]
        BY <1>4, <3>2 DEF Branch, j, m
      <4>2. disk'[c[k]] = disk[c[k]] /\ e[k] = c[k]
        BY <1>3, <1>5, <2>2, <3>2
      <4>3. k + 1 \in j .. m
        BY <1>5, <3>2, SMT
      <4>4. e[k + 1] = c[k + 1]
        BY <4>3
      <4> QED BY <4>1, <4>2, <4>4
    <3> QED BY <1>5, <3>1, <3>2
  <2>5. disk'[e[m]] = ZeroBlock
    <3>1. disk[c[m]] = ZeroBlock
      BY <1>4 DEF Branch, m
    <3> QED BY <1>3, <1>5, <2>2, <3>1
  <2>6. Node(inode, disk', Here, j - 1) = 0
    BY <1>5, <1>6, <1>10 DEF m
  <2> QED BY <2>1, <2>3, <2>4, <2>5, <2>6 DEF Branch, m
<1>16. Grown'
  <2>1. \A k \in j - 1 .. m : e[k] \in used'
    <3> HIDE DEF e, j, m
    <3>1. \A k \in j .. m : c[k] \in used
      BY <1>4 DEF j, m
    <3> QED BY <1>3, <1>5, <1>14, <3>1
  <2>2. ch'.j = j - 1 /\ ch'.child = b /\ ch'.first = ch.first
    BY <1>8
  <2>3. e[m] = ch.first /\ e[j - 1] = b
    BY <1>4, <1>5, <1>14
  <2> HIDE DEF e, m, j
  <2>4. inode' = inode /\ pc' # "commit"
    BY <1>1, <1>2 DEF mem
  <2>5. \E x : /\ x[ch'.j] = ch'.child /\ x[m] = ch'.first
               /\ Branch(inode', disk', Here, ch'.j, x)
               /\ \A k \in ch'.j .. m : x[k] \in used'
    BY <1>15, <2>1, <2>2, <2>3, <2>4
  <2> QED BY <1>5, <1>12, <2>2, <2>4, <2>5 DEF Grown, m
<1>17. Asked'
  BY <1>1, <1>2 DEF Asked, Writing, mem
<1>18. \A o \in Offsets : WordAt(o)' = WordAt(o)
  BY <1>10, WordsKept
<1>19. Written' /\ Delivered'
  BY <1>1, <1>2, <1>18 DEF Written, Delivered, Writing
<1>20. [Abstract!Deed]_(Abstract!file)
  BY <1>2, <1>10, Stutters
<1> QED BY <1>9, <1>11, <1>13, <1>16, <1>17, <1>19, <1>20 DEF Good

(* The branch that is hung in. *)
LEMMA ChainReady ==
  ASSUME Good, pc = "chain"
  PROVE  /\ inode = dinode /\ Tree(inode, disk, used) /\ TreeType(inode, disk)
         /\ it = Iter(inode, disk, Here, it.offset) /\ it.offset \in Offsets
         /\ Here \in FileBlocks /\ ch.j \in 0 .. mode_of(Here) /\ ch.j \in 0 .. 3
         /\ it.index = index_of(Here) /\ ch.first # 0 /\ rd.words = <<>>
         /\ \E c : /\ c[ch.j] = ch.child /\ c[mode_of(Here)] = ch.first
                   /\ Branch(inode, disk, Here, ch.j, c)
                   /\ \A k \in ch.j .. mode_of(Here) : c[k] \in used
<1>1. /\ inode = dinode /\ Tree(inode, disk, used) /\ TreeType(inode, disk)
      /\ it = Iter(inode, disk, Here, it.offset) /\ it.offset \in Offsets
      /\ rd.words = <<>> /\ Grown
  BY DEF Good, Saved, Planted, Placed, Typed, Delivered, TreeType, Inodes, Removing
<1>2. PICK c : /\ c[ch.j] = ch.child /\ c[mode_of(Here)] = ch.first
               /\ Branch(inode, disk, Here, ch.j, c)
               /\ \A k \in ch.j .. mode_of(Here) : c[k] \in used
  BY <1>1 DEF Grown
<1>3. Here \in FileBlocks /\ ch.j \in 0 .. mode_of(Here) /\ it.index = index_of(Here)
      /\ mode_of(Here) \in 0 .. 3
  BY <1>1, HereIs, PathHere DEF Grown
<1>4. ch.j \in 0 .. 3 /\ mode_of(Here) \in ch.j .. mode_of(Here)
  BY <1>3, SMT
<1>5. ch.first # 0
  BY <1>2, <1>4, BlockWords DEF Branch
<1> QED BY <1>1, <1>2, <1>3, <1>4, <1>5

LEMMA LinkIndexKeeps ==
  ASSUME Good, LinkIndex
  PROVE  Good' /\ [Abstract!Deed]_(Abstract!file)
<1>1. /\ Typed /\ Asked /\ Written /\ Delivered /\ pc = "chain" /\ pc' = "commit"
      /\ UNCHANGED <<used, dfree, dinode, mem, locs, bnd>> /\ ch.j > 0
      /\ disk' = [disk EXCEPT ![it.blks_blk[ch.j]][it.index[ch.j]] = ch.child]
      /\ it.blks_blk[ch.j] # 0
  BY DEF Good, LinkIndex
<1>2. /\ inode = dinode /\ Tree(inode, disk, used) /\ TreeType(inode, disk)
      /\ it = Iter(inode, disk, Here, it.offset) /\ it.offset \in Offsets
      /\ Here \in FileBlocks /\ ch.j \in 0 .. mode_of(Here) /\ ch.j \in 0 .. 3
      /\ it.index = index_of(Here) /\ ch.first # 0 /\ rd.words = <<>>
  BY <1>1, ChainReady
<1>3. PICK c : /\ c[ch.j] = ch.child /\ c[mode_of(Here)] = ch.first
               /\ Branch(inode, disk, Here, ch.j, c)
               /\ \A k \in ch.j .. mode_of(Here) : c[k] \in used
  BY <1>1, ChainReady
<1>4. Hung(inode, disk, inode, disk', Here, ch.j, c[ch.j])
  <2>1. ch.j \in 1 .. mode_of(Here)
    BY <1>1, <1>2, SMT
  <2>2. it.blks_blk[ch.j] = Node(inode, disk, Here, ch.j - 1)
    BY <1>2, <2>1, PathHere
  <2> QED BY <1>1, <1>2, <1>3, <2>2 DEF Hung
<1>5. Grafted(inode, disk, inode, disk', used, Here, c[mode_of(Here)])
  BY <1>2, <1>3, <1>4, GraftTree DEF Tree
<1>6. UNCHANGED <<used, dinode, inode, it, req, pos, ch, rd, crashes>> /\ Here' = Here
  BY <1>1 DEF mem, locs, bnd, Here
<1>7. SameWords(dinode, disk, dinode', disk')
  BY <1>2, <1>5, <1>6 DEF Grafted
<1>8. Typed'
  BY <1>1, <1>5, <1>6 DEF Typed, Grafted, TreeType
<1>9. Planted' /\ Saved' /\ Placed'
  BY <1>1, <1>2, <1>5, <1>6 DEF Planted, Saved, Placed, Grafted, Tree
<1>10. Grown'
  BY <1>1, <1>2, <1>3, <1>5, <1>6, SameAll DEF Grown, Grafted
<1>11. Asked'
  BY <1>1, <1>6 DEF Asked, Writing
<1>12. \A o \in Offsets : WordAt(o)' = WordAt(o)
  BY <1>7, WordsKept
<1>13. Written' /\ Delivered'
  BY <1>1, <1>2, <1>6, <1>12 DEF Written, Delivered, Writing
<1>14. [Abstract!Deed]_(Abstract!file)
  BY <1>6, <1>7, Stutters
<1> QED BY <1>8, <1>9, <1>10, <1>11, <1>13, <1>14 DEF Good

LEMMA LinkInodeKeeps ==
  ASSUME Good, LinkInode
  PROVE  Good' /\ [Abstract!Deed]_(Abstract!file)
<1>1. /\ Typed /\ Asked /\ Written /\ Delivered /\ pc = "chain" /\ pc' = "commit"
      /\ UNCHANGED <<dev, free, it, locs, bnd>> /\ ch.j = 0
      /\ inode' = [inode EXCEPT !.i_block[it.index[0]] = ch.child]
  BY DEF Good, LinkInode
<1>2. /\ inode = dinode /\ Tree(inode, disk, used) /\ TreeType(inode, disk)
      /\ it = Iter(inode, disk, Here, it.offset) /\ it.offset \in Offsets
      /\ Here \in FileBlocks /\ ch.j \in 0 .. mode_of(Here) /\ ch.j \in 0 .. 3
      /\ it.index = index_of(Here) /\ ch.first # 0 /\ rd.words = <<>>
  BY <1>1, ChainReady
<1>3. PICK c : /\ c[ch.j] = ch.child /\ c[mode_of(Here)] = ch.first
               /\ Branch(inode, disk, Here, ch.j, c)
               /\ \A k \in ch.j .. mode_of(Here) : c[k] \in used
  BY <1>1, ChainReady
<1>4. /\ inode'.i_block = [inode.i_block EXCEPT ![index_of(Here)[0]] = ch.child]
      /\ inode'.i_size = inode.i_size /\ inode'.i_blocks = inode.i_blocks
      /\ inode' \in Inodes
  <2>1. inode \in Inodes /\ ch.child \in Word
    BY <1>1 DEF Typed
  <2>2. [inode.i_block EXCEPT ![index_of(Here)[0]] = ch.child] \in [0 .. TI_INDEX -> Word]
    BY <2>1 DEF Inodes
  <2>3. inode' = [inode EXCEPT !.i_block = [inode.i_block EXCEPT ![index_of(Here)[0]] = ch.child]]
    BY <1>1, <1>2
  <2> QED BY <2>1, <2>2, <2>3 DEF Inodes
<1>5. Hung(inode, disk, inode', disk, Here, ch.j, c[ch.j])
  BY <1>1, <1>3, <1>4 DEF Hung
<1>6. Grafted(inode, disk, inode', disk, used, Here, c[mode_of(Here)])
  BY <1>2, <1>3, <1>5, GraftTree DEF Tree
<1>7. /\ UNCHANGED <<disk, used, dinode, it, req, pos, ch, rd, crashes>> /\ Here' = Here
  BY <1>1 DEF dev, locs, bnd, Here
<1>8. SameWords(dinode, disk, dinode', disk')
  BY <1>7, SameAll
<1>9. Typed'
  BY <1>1, <1>4, <1>7 DEF Typed
<1>10. Planted' /\ Saved' /\ Placed'
  BY <1>1, <1>2, <1>6, <1>7 DEF Planted, Saved, Placed, Grafted, Tree
<1>11. Grown'
  BY <1>1, <1>2, <1>3, <1>4, <1>6, <1>7 DEF Grown, Grafted
<1>12. Asked'
  BY <1>1, <1>7 DEF Asked, Writing
<1>13. \A o \in Offsets : WordAt(o)' = WordAt(o)
  BY <1>8, WordsKept
<1>14. Written' /\ Delivered'
  BY <1>1, <1>2, <1>7, <1>13 DEF Written, Delivered, Writing
<1>15. [Abstract!Deed]_(Abstract!file)
  BY <1>7, <1>8, Stutters
<1> QED BY <1>9, <1>10, <1>11, <1>12, <1>14, <1>15 DEF Good

LEMMA CommitKeeps ==
  ASSUME Good, Commit
  PROVE  Good' /\ [Abstract!Deed]_(Abstract!file)
<1> DEFINE size == Larger(inode.i_size, it.offset + Chunk)
<1>1. /\ Typed /\ Planted /\ Grown /\ Asked /\ Written /\ Delivered /\ pc = "commit"
      /\ UNCHANGED <<disk, used, dfree, free, locs, bnd>>
      /\ it' = blk_iterator_init(inode, disk, it.offset) /\ it.offset \in Offsets
      /\ inode \in Inodes /\ ch.n \in Nat /\ rd.words = <<>>
      /\ Tree(inode, disk, used)
      /\ Node(inode, disk, Here, mode_of(Here)) = ch.first
      /\ SameWords(dinode, disk, inode, disk) /\ inode.i_size = dinode.i_size
      /\ req \in Writes /\ pos.off = it.offset /\ req.off <= pos.off
      /\ pos.off + pos.count = req.off + req.len /\ pos.count > 0
      /\ pos.off \in Nat /\ pos.count \in Nat
  BY DEF Good, Typed, Planted, Grown, Asked, Delivered, Commit, Refreshed, Writing, Removing
<1>2. it' = Iter(inode, disk, Here, it.offset) /\ it'.offset = it.offset /\ Here' = Here
  <2>1. it' = Iter(inode, disk, Here, it.offset)
    BY <1>1, InitIs DEF Here
  <2> QED BY <2>1 DEF Iter, Here
<1>3. blk_iterator_get_blk_index(it') = ch.first
  BY <1>1, <1>2, HereIs, CurrentIs
<1>4. /\ inode' = [inode EXCEPT !.i_size = size, !.i_blocks = @ + ch.n]
      /\ dinode' = inode' /\ pc' = "super"
  BY <1>3 DEF Commit
<1>5. size \in Offsets /\ size \in inode.i_size .. Abstract!Larger(inode.i_size, req.off + req.len)
  <2>1. Chunk \in 0 .. pos.count
    BY <1>1, ChunkFits
  <2>2. req.off + req.len \in Offsets /\ req.off \in Nat /\ req.len \in Nat
    BY <1>1, RequestFits
  <2>3. inode.i_size \in Offsets /\ inode.i_size \in Nat
    BY <1>1, SMT DEF Inodes, Offsets
  <2>4. it.offset + Chunk \in Offsets /\ it.offset + Chunk <= req.off + req.len
    BY <1>1, <2>1, <2>2, OffsetsFit, SMT
  <2> QED BY <1>1, <2>1, <2>2, <2>3, <2>4, SMT DEF Larger, Abstract!Larger
<1> HIDE DEF size
<1>6. /\ inode'.i_block = inode.i_block /\ inode'.i_size = size /\ inode' \in Inodes
  <2>1. inode.i_blocks + ch.n \in Nat
    BY <1>1, SMT DEF Inodes
  <2>2. inode' = [i_size |-> size, i_blocks |-> inode.i_blocks + ch.n, i_block |-> inode.i_block]
    BY <1>1, <1>4 DEF Inodes
  <2> QED BY <1>1, <1>5, <2>1, <2>2 DEF Inodes
<1>7. Unmoved(inode, disk, inode', disk)
  BY <1>6, SameBlocks
<1>8. SameWords(dinode, disk, dinode', disk')
  BY <1>1, <1>4, <1>7 DEF Unmoved, SameWords
<1>9. /\ UNCHANGED <<disk, used, req, pos, ch, rd, crashes>>
  BY <1>1 DEF locs, bnd
<1>10. Typed'
  BY <1>1, <1>2, <1>4, <1>6, <1>9 DEF Typed
<1>11. Planted' /\ Saved'
  BY <1>1, <1>4, <1>7, <1>9 DEF Planted, Saved, Unmoved
<1>12. Placed'
  BY <1>1, <1>2, <1>7, <1>9, HereIs DEF Placed, Unmoved
<1>13. Grown'
  BY <1>4 DEF Grown
<1>14. Asked'
  BY <1>1, <1>2, <1>4, <1>9 DEF Asked, Writing
<1>15. Content' = Content /\ \A o \in Offsets : WordAt(o)' = WordAt(o)
  BY <1>8, WordsKept
<1>16. Written' /\ Delivered'
  BY <1>1, <1>4, <1>9, <1>15 DEF Written, Delivered, Writing
<1>17. Abstract!Grow
  <2>1. req # Abstract!NoRequest
    BY <1>1, RequestFits DEF NoRequest, Abstract!NoRequest
  <2> QED BY <1>1, <1>4, <1>5, <1>6, <1>9, <1>15, <2>1 DEF Abstract!Grow
<1> QED BY <1>10, <1>11, <1>12, <1>13, <1>14, <1>16, <1>17 DEF Good, Abstract!Deed

-----------------------------------------------------------------------------
LEMMA InitGood ==
  ASSUME Init
  PROVE  Good /\ Abstract!Init
<1> USE DEF Init
<1>1. it = Iter(inode, disk, BlockOfOffset(0), 0) /\ it.offset = 0
  <2>1. it = Iter(EmptyInode, disk, BlockOfOffset(0), 0)
    BY InitIs, OffsetsFit
  <2> QED BY <2>1 DEF Iter
<1>2. Typed
  <2>1. EmptyInode \in Inodes
    BY OffsetsFit, BlockWords DEF EmptyInode, Inodes
  <2>2. ZeroBlock \in [0 .. Links - 1 -> Word]
    BY BlockWords DEF ZeroBlock
  <2>3. NoRequest.off \in Nat /\ NoRequest.len \in Nat /\ NoRequest.val \in Word
    BY BlockWords DEF NoRequest
  <2>4. NoPos \in [off : Nat, count : Nat]
    BY DEF NoPos
  <2>5. NoChain \in [child : Word, first : Word, n : Nat, j : 0 .. 3]
    BY BlockWords, SMT DEF NoChain
  <2> QED BY <1>1, <2>1, <2>2, <2>3, <2>4, <2>5, OffsetsFit DEF Typed
<1>3. Planted /\ Saved /\ Placed /\ Grown
  BY <1>1, EmptyTree DEF Planted, Saved, Placed, Grown, Here
<1>4. Asked /\ Written /\ Delivered
  BY DEF Asked, Written, Delivered, Writing, NoRead
<1>5. Abstract!Init
  <2>1. \A o \in Offsets : WordAt(o) = 0
    BY EmptyTree, OffsetBlock, WordIs
  <2>2. Content = [o \in 0 .. MaxWords - 1 |-> 0]
    BY <2>1 DEF Content, Offsets
  <2>3. damaged = FALSE
    BY DEF damaged
  <2> QED BY <2>2, <2>3 DEF Abstract!Init, EmptyInode, NoRequest, Abstract!NoRequest
<1> QED BY <1>2, <1>3, <1>4, <1>5 DEF Good

(* One step: a step of the sparse array, or none, until the file is damaged.*)
LEMMA NextGood ==
  ASSUME Good, Kept, [Next]_vars, ~damaged'
  PROVE  Good' /\ [Abstract!Deed]_(Abstract!file)
<1> USE DEF damaged
<1>1. CASE Open
  BY <1>1, OpenKeeps
<1>2. ASSUME NEW r \in Writes, WriteStart(r) PROVE Good' /\ [Abstract!Deed]_(Abstract!file)
  BY <1>2, WriteStartKeeps
<1>3. ASSUME NEW r \in Reads, ReadStart(r) PROVE Good' /\ [Abstract!Deed]_(Abstract!file)
  BY <1>3, ReadStartKeeps
<1>4. CASE RemoveStart
  BY <1>4, RemoveStartKeeps
<1>5. CASE Step
  <2>1. CASE WriteBlock
    BY <2>1, WriteBlockKeeps
  <2>2. CASE WriteNoSpace
    BY <2>2, WriteNoSpaceKeeps
  <2>3. CASE AllocData
    BY <2>3, AllocDataKeeps
  <2>4. CASE ChainIndex
    BY <2>4, ChainIndexKeeps
  <2>5. CASE LinkIndex
    BY <2>5, LinkIndexKeeps
  <2>6. CASE LinkInode
    BY <2>6, LinkInodeKeeps
  <2>7. CASE Commit
    BY <2>7, CommitKeeps
  <2>8. CASE CommitSuper
    BY <2>8, CommitSuperKeeps
  <2>9. CASE WriteEnd
    BY <2>9, WriteEndKeeps
  <2>10. CASE ReadBlock
    BY <2>10, ReadBlockKeeps
  <2>11. CASE ReadEnd
    BY <2>11, ReadEndKeeps
  <2>12. CASE RemoveBlock
    BY <2>12, RemoveBlockKeeps
  <2>13. CASE RemoveEnd
    BY <2>13, RemoveEndKeeps
  <2> QED BY <1>5, <2>1, <2>2, <2>3, <2>4, <2>5, <2>6, <2>7, <2>8, <2>9, <2>10, <2>11,
             <2>12, <2>13 DEF Step
<1>6. CASE Crash
  BY <1>6, CrashKeeps
<1>7. CASE UNCHANGED vars
  <2>1. UNCHANGED <<dev, mem, pc, locs, bnd>>
    BY <1>7 DEF vars
  <2>2. UNCHANGED <<disk, used, dinode, inode, it, pc, req, pos, ch, rd, crashes>>
    BY <2>1 DEF dev, mem, locs, bnd
  <2>3. SameWords(dinode, disk, dinode', disk') /\ Here' = Here
    BY <2>2, SameAll DEF Here
  <2>4. \A o \in Offsets : WordAt(o)' = WordAt(o)
    BY <2>3, WordsKept
  <2>5. Typed' /\ Planted' /\ Saved' /\ Placed' /\ Grown'
    BY <2>2, <2>3 DEF Good, Typed, Planted, Saved, Placed, Grown
  <2>6. Asked' /\ Written' /\ Delivered'
    BY <2>2, <2>4 DEF Good, Asked, Written, Delivered
  <2> QED BY <2>2, <2>3, <2>5, <2>6, Stutters DEF Good
<1> QED BY <1>1, <1>2, <1>3, <1>4, <1>5, <1>6, <1>7 DEF Next, Stopped

-----------------------------------------------------------------------------
(* s lists the elements of T, each of them once.                            *)
Enumerates(s, T) ==
  /\ s \in Seq(T) /\ \A i, j \in DOMAIN s : s[i] = s[j] => i = j
  /\ \A e \in T : \E i \in DOMAIN s : s[i] = e

(* The pieces P[0], P[1], ... one after the other.                          *)
Joined(f, P, n) == f = [i \in 0 .. n |-> IF i = 0 THEN <<>> ELSE f[i - 1] \o P[i - 1]]

AllOf(T, n) == UNION {T[i] : i \in 0 .. n - 1}

LEMMA EnumeratesFew ==
  /\ Enumerates(<<>>, {})
  /\ \A e : Enumerates(<<e>>, {e})
BY DEF Enumerates

LEMMA EnumeratesMore ==
  ASSUME NEW S, NEW T, NEW s, NEW t, Enumerates(s, S), Enumerates(t, T), S \cap T = {}
  PROVE  Enumerates(s \o t, S \cup T)
<1> DEFINE U == S \cup T
           r == s \o t
<1>1. s \in Seq(U) /\ t \in Seq(U)
  <2>1. s \in Seq(S) /\ t \in Seq(T)
    BY DEF Enumerates
  <2> QED BY <2>1
<1>2. Len(s) \in Nat /\ Len(t) \in Nat
  BY <1>1
<1>3. /\ r \in Seq(U) /\ Len(r) = Len(s) + Len(t)
      /\ DOMAIN s = 1 .. Len(s) /\ DOMAIN t = 1 .. Len(t) /\ DOMAIN r = 1 .. Len(r)
  BY <1>1, <1>2
<1>4. /\ \A i \in 1 .. Len(s) : i \in 1 .. Len(r) /\ r[i] = s[i]
      /\ \A i \in 1 .. Len(t) : Len(s) + i \in 1 .. Len(r) /\ r[Len(s) + i] = t[i]
  BY <1>1, <1>2, <1>3
<1>5. ASSUME NEW i \in 1 .. Len(r)
      PROVE  \/ i \in 1 .. Len(s) /\ r[i] \in S
             \/ \E k \in 1 .. Len(t) : i = Len(s) + k /\ r[i] \in T
  <2>1. CASE i \in 1 .. Len(s)
    BY <1>3, <1>4, <2>1 DEF Enumerates
  <2>2. CASE i \notin 1 .. Len(s)
    <3>1. i - Len(s) \in 1 .. Len(t) /\ i = Len(s) + (i - Len(s))
      BY <1>2, <1>3, <2>2
    <3>2. PICK k \in 1 .. Len(t) : i = Len(s) + k
      BY <3>1
    <3>3. r[i] = t[k]
      BY <1>4, <3>2
    <3>4. t[k] \in T
      BY <1>3 DEF Enumerates
    <3> QED BY <3>2, <3>3, <3>4
  <2> QED BY <2>1, <2>2
<1> HIDE DEF r
<1>6. ASSUME NEW i \in 1 .. Len(r), NEW j \in 1 .. Len(r), r[i] = r[j]
      PROVE  i = j
  <2>1. CASE i \in 1 .. Len(s) /\ j \in 1 .. Len(s)
    <3>1. s[i] = s[j]
      BY <1>4, <1>6, <2>1
    <3> QED BY <1>3, <2>1, <3>1 DEF Enumerates
  <2>2. CASE ~(i \in 1 .. Len(s)) /\ ~(j \in 1 .. Len(s))
    <3>1. PICK k \in 1 .. Len(t) : i = Len(s) + k
      BY <1>5, <2>2
    <3>2. PICK l \in 1 .. Len(t) : j = Len(s) + l
      BY <1>5, <2>2
    <3>3. t[k] = t[l]
      BY <1>4, <1>6, <3>1, <3>2
    <3>4. k = l
      BY <1>3, <3>3 DEF Enumerates
    <3> QED BY <3>1, <3>2, <3>4
  <2>3. (r[i] \in S <=> i \in 1 .. Len(s)) /\ (r[j] \in S <=> j \in 1 .. Len(s))
    <3>1. \A k \in 1 .. Len(r) : r[k] \in S => k \in 1 .. Len(s)
      BY <1>5
    <3>2. \A k \in 1 .. Len(s) : r[k] \in S
      BY <1>3, <1>4 DEF Enumerates
    <3> QED BY <3>1, <3>2
  <2> QED BY <1>6, <2>1, <2>2, <2>3
<1>7. ASSUME NEW e \in U PROVE \E i \in 1 .. Len(r) : r[i] = e
  <2>1. CASE e \in S
    <3>1. PICK i \in 1 .. Len(s) : s[i] = e
      BY <1>3, <2>1 DEF Enumerates
    <3> QED BY <1>4, <3>1
  <2>2. CASE e \in T
    <3>1. PICK i \in 1 .. Len(t) : t[i] = e
      BY <1>3, <2>2 DEF Enumerates
    <3> QED BY <1>4, <3>1
  <2> QED BY <2>1, <2>2
<1>8. Enumerates(r, U)
  BY <1>3, <1>6, <1>7 DEF Enumerates
<1> QED BY <1>8 DEF r

LEMMA JoinedExists ==
  ASSUME NEW n \in Nat, NEW P
  PROVE  \E f : Joined(f, P, n)
<1> DEFINE S == {k \in Nat : \E f : Joined(f, P, k)}
<1>1. 0 \in S
  <2> DEFINE f == [i \in 0 .. 0 |-> <<>>]
  <2>1. Joined(f, P, 0)
    <3>1. \A i \in 0 .. 0 : i = 0
      BY SMT
    <3> QED BY <3>1, Zenon DEF Joined
  <2> QED BY <2>1
<1>2. ASSUME NEW k \in Nat, k \in S PROVE k + 1 \in S
  <2>1. PICK f : Joined(f, P, k)
    BY <1>2
  <2> DEFINE g == [i \in 0 .. k + 1 |-> IF i = k + 1 THEN f[k] \o P[k] ELSE f[i]]
  <2>2. /\ k + 1 \in Nat /\ k + 1 # 0 /\ k + 1 - 1 = k /\ k # k + 1 /\ k \in 0 .. k + 1
        /\ k + 1 \in 0 .. k + 1 /\ 0 \in 0 .. k
        /\ \A i \in 0 .. k + 1 : i # k + 1 => i \in 0 .. k
        /\ \A i \in 0 .. k + 1 : i # 0 => i - 1 \in 0 .. k + 1 /\ i - 1 # k + 1 /\ i - 1 \in 0 .. k
    BY SMT
  <2>3. \A i \in 0 .. k : f[i] = IF i = 0 THEN <<>> ELSE f[i - 1] \o P[i - 1]
    BY <2>1, Zenon DEF Joined
  <2>4. /\ DOMAIN g = 0 .. k + 1 /\ g[k + 1] = f[k] \o P[k]
        /\ \A i \in 0 .. k + 1 : i # k + 1 => g[i] = f[i]
    BY <2>2, Zenon
  <2>5. g = [i \in 0 .. k + 1 |-> g[i]]
    BY Zenon
  <2> HIDE DEF g
  <2>6. \A i \in 0 .. k + 1 : g[i] = IF i = 0 THEN <<>> ELSE g[i - 1] \o P[i - 1]
    <3> SUFFICES ASSUME NEW i \in 0 .. k + 1
                 PROVE  g[i] = IF i = 0 THEN <<>> ELSE g[i - 1] \o P[i - 1]
      OBVIOUS
    <3>1. CASE i = k + 1
      <4>1. i - 1 = k /\ i # 0
        BY <2>2, <3>1
      <4>2. g[k] = f[k] /\ g[i] = f[k] \o P[k]
        BY <2>2, <2>4, <3>1
      <4> QED BY <4>1, <4>2, Zenon
    <3>2. CASE i # k + 1 /\ i # 0
      <4>1. g[i] = f[i] /\ i \in 0 .. k /\ g[i - 1] = f[i - 1]
        BY <2>2, <2>4, <3>2, Zenon
      <4> QED BY <2>3, <3>2, <4>1, Zenon
    <3>3. CASE i # k + 1 /\ i = 0
      <4>1. g[i] = f[i] /\ i \in 0 .. k
        BY <2>2, <2>4, <3>3, Zenon
      <4> QED BY <2>3, <3>3, <4>1, Zenon
    <3> QED BY <3>1, <3>2, <3>3
  <2>7. Joined(g, P, k + 1)
    BY <2>5, <2>6, Zenon DEF Joined
  <2> QED BY <2>2, <2>7
<1>3. Nat \subseteq S
  <2> HIDE DEF S
  <2> QED BY <1>1, <1>2, SetInduction
<1> QED BY <1>3

LEMMA JoinedEnumerates ==
  ASSUME NEW n \in Nat, NEW P, NEW T, NEW f, Joined(f, P, n),
         \A i \in 0 .. n - 1 : Enumerates(P[i], T[i]),
         \A i, k \in 0 .. n - 1 : i # k => T[i] \cap T[k] = {}
  PROVE  Enumerates(f[n], AllOf(T, n))
<1> DEFINE U(k) == AllOf(T, k)
           S == {k \in Nat : k <= n => Enumerates(f[k], U(k))}
<1>1. \A i \in 0 .. n : f[i] = IF i = 0 THEN <<>> ELSE f[i - 1] \o P[i - 1]
  BY Zenon DEF Joined
<1>2. 0 \in S
  <2>1. 0 .. 0 - 1 = {} /\ 0 \in 0 .. n
    BY SMT
  <2>2. U(0) = {} /\ f[0] = <<>>
    BY <1>1, <2>1 DEF AllOf
  <2> QED BY <2>2, EnumeratesFew
<1>3. ASSUME NEW k \in Nat, k \in S PROVE k + 1 \in S
  <2> SUFFICES ASSUME k + 1 <= n PROVE Enumerates(f[k + 1], U(k + 1))
    BY <1>3
  <2>1. /\ k <= n /\ k + 1 \in 0 .. n /\ k + 1 # 0 /\ k + 1 - 1 = k /\ k \in 0 .. n - 1
        /\ 0 .. k + 1 - 1 = (0 .. k - 1) \cup {k}
        /\ \A i \in 0 .. k - 1 : i \in 0 .. n - 1 /\ i # k
    BY SMT
  <2>2. Enumerates(f[k], U(k)) /\ Enumerates(P[k], T[k])
    BY <1>3, <2>1
  <2>3. U(k) \cap T[k] = {}
    BY <2>1 DEF AllOf
  <2>4. f[k + 1] = f[k] \o P[k]
    <3>1. \A i \in 0 .. n : i # 0 => f[i] = f[i - 1] \o P[i - 1]
      BY <1>1
    <3>2. PICK i \in 0 .. n : i = k + 1 /\ i # 0 /\ i - 1 = k
      BY <2>1
    <3>3. f[i] = f[i - 1] \o P[i - 1]
      BY <3>1, <3>2
    <3> QED BY <3>2, <3>3, Zenon
  <2>5. U(k + 1) = U(k) \cup T[k]
    BY <2>1 DEF AllOf
  <2> HIDE DEF U
  <2> QED BY <2>2, <2>3, <2>4, <2>5, EnumeratesMore
<1>4. n \in S
  <2> HIDE DEF S
  <2>1. Nat \subseteq S
    BY <1>2, <1>3, SetInduction
  <2> QED BY <2>1
<1> QED BY <1>4

-----------------------------------------------------------------------------
(* The blocks that hang at or below level j of the path to block b.         *)
Beneath(ino, dsk, b, j) ==
  {e \in Blk : \E c \in FileBlocks : \E k \in j .. mode_of(c) :
                  SamePlace(b, c, j) /\ e = Node(ino, dsk, c, k)}

(* All blocks of the tree. *)
NodesOf(ino, dsk) ==
  {e \in Blk : \E c \in FileBlocks : \E k \in 0 .. mode_of(c) : e = Node(ino, dsk, c, k)}

(* Beside the path to b, at level j, there is one for every entry.          *)
LEMMA Sibling ==
  ASSUME NEW b \in FileBlocks, NEW j \in 0 .. 3, j < mode_of(b), NEW i \in 0 .. Links - 1
  PROVE  \E c \in FileBlocks : SamePlace(b, c, j) /\ index_of(c)[j + 1] = i
<1> DEFINE m == mode_of(b)
           d == [k \in 1 .. 3 |-> IF k = j + 1 THEN i ELSE index_of(b)[k]]
<1>1. m \in 0 .. 3 /\ m # 0 /\ j + 1 \in 1 .. m /\ j + 1 \in 1 .. 3
  BY PathFacts, SMT
<1>2. d \in [1 .. 3 -> 0 .. Links - 1]
  BY PathFacts
<1>3. PICK c \in FileBlocks : mode_of(c) = m /\ \A k \in 1 .. m : index_of(c)[k] = d[k]
  <2> HIDE DEF d, m
  <2> QED BY <1>1, <1>2, EveryPlaceTaken
<1>4. index_of(c)[j + 1] = i
  BY <1>1, <1>3
<1>5. index_of(c)[0] = index_of(b)[0]
  <2>1. \A e \in FileBlocks : mode_of(e) # 0 => index_of(e)[0] = Direct - 1 + mode_of(e)
    BY SMT DEF index_of
  <2> QED BY <1>1, <1>3, <2>1
<1>6. SamePlace(b, c, j)
  <2> SUFFICES ASSUME NEW k \in 0 .. j PROVE index_of(b)[k] = index_of(c)[k]
    BY DEF SamePlace
  <2>1. k = 0 \/ (k \in 1 .. m /\ k \in 1 .. 3 /\ k # j + 1)
    BY <1>1, SMT
  <2> QED BY <1>3, <1>5, <2>1
<1> QED BY <1>4, <1>6

LEMMA SamePlaceEq ==
  ASSUME NEW b, NEW c, NEW d, NEW j, SamePlace(b, c, j), SamePlace(b, d, j)
  PROVE  SamePlace(c, b, j) /\ SamePlace(c, d, j)
BY DEF SamePlace

LEMMA SamePlaceUpTo ==
  ASSUME NEW b, NEW c, NEW j \in 0 .. 3, NEW k \in 0 .. 3, k <= j, SamePlace(b, c, j)
  PROVE  SamePlace(b, c, k)
<1>1. \A i \in 0 .. k : i \in 0 .. j
  BY SMT
<1> QED BY <1>1 DEF SamePlace

(* The pieces a walk collects below one index block, and the block itself.  *)
LEMMA LevelStep ==
  ASSUME NEW ino, NEW dsk, TreeType(ino, dsk), Apart(ino, dsk),
         NEW b \in FileBlocks, NEW j \in 0 .. 3, j < mode_of(b), Node(ino, dsk, b, j) # 0,
         NEW P, NEW f, Joined(f, P, Links),
         \A c \in FileBlocks : SamePlace(b, c, j) =>
            Enumerates(P[index_of(c)[j + 1]], Beneath(ino, dsk, c, j + 1))
  PROVE  Enumerates(f[Links] \o <<Node(ino, dsk, b, j)>>, Beneath(ino, dsk, b, j))
<1> DEFINE n == Node(ino, dsk, b, j)
           At(i) == CHOOSE c \in FileBlocks : SamePlace(b, c, j) /\ index_of(c)[j + 1] = i
           T == [i \in 0 .. Links - 1 |-> Beneath(ino, dsk, At(i), j + 1)]
           U == AllOf(T, Links)
<1>1. /\ mode_of(b) \in 0 .. 3 /\ j + 1 \in 1 .. 3 /\ j + 1 \in 0 .. 3 /\ j <= j + 1
      /\ j \in 0 .. mode_of(b) /\ Links \in Nat /\ j + 1 - 1 = j
  BY PathFacts, IndirectAssumption, SMT
<1>2. \A i \in 0 .. Links - 1 : /\ At(i) \in FileBlocks /\ SamePlace(b, At(i), j)
                                /\ index_of(At(i))[j + 1] = i
  BY Sibling
<1> HIDE DEF At
<1>3. \A i \in 0 .. Links - 1 : T[i] = Beneath(ino, dsk, At(i), j + 1)
  OBVIOUS
<1> HIDE DEF T
<1>4. \A i \in 0 .. Links - 1 : Enumerates(P[i], T[i])
  BY <1>2, <1>3
<1>5. ASSUME NEW i \in 0 .. Links - 1, NEW e, e \in T[i]
      PROVE  \E c \in FileBlocks : \E k \in j + 1 .. mode_of(c) :
                /\ SamePlace(b, c, j) /\ index_of(c)[j + 1] = i /\ e = Node(ino, dsk, c, k)
                /\ k \in 0 .. mode_of(c) /\ j + 1 \in 0 .. k /\ k # j /\ e \in Blk
  <2>1. e \in Beneath(ino, dsk, At(i), j + 1)
    BY <1>3, <1>5
  <2>2. PICK c \in FileBlocks : \E k \in j + 1 .. mode_of(c) :
               SamePlace(At(i), c, j + 1) /\ e = Node(ino, dsk, c, k)
    BY <2>1 DEF Beneath
  <2>3. PICK k \in j + 1 .. mode_of(c) : SamePlace(At(i), c, j + 1) /\ e = Node(ino, dsk, c, k)
    BY <2>2
  <2>4. mode_of(c) \in 0 .. 3 /\ k \in 0 .. mode_of(c) /\ j + 1 \in 0 .. k /\ k # j
    BY <1>1, PathFacts, SMT
  <2>5. SamePlace(At(i), c, j) /\ index_of(At(i))[j + 1] = index_of(c)[j + 1]
    BY <1>1, <2>3, SameUpTo
  <2>6. SamePlace(b, c, j)
    BY <1>2, <2>5 DEF SamePlace
  <2>7. e \in Blk
    BY <2>1 DEF Beneath
  <2> QED BY <1>2, <2>3, <2>4, <2>5, <2>6, <2>7
<1>6. ASSUME NEW i \in 0 .. Links - 1, NEW k \in 0 .. Links - 1, i # k
      PROVE  T[i] \cap T[k] = {}
  <2> SUFFICES ASSUME NEW e, e \in T[i], e \in T[k] PROVE FALSE
    OBVIOUS
  <2>1. PICK c \in FileBlocks : \E l \in j + 1 .. mode_of(c) :
          /\ index_of(c)[j + 1] = i /\ e = Node(ino, dsk, c, l)
          /\ l \in 0 .. mode_of(c) /\ j + 1 \in 0 .. l /\ e \in Blk
    BY <1>5
  <2>2. PICK l \in 0 .. mode_of(c) : e = Node(ino, dsk, c, l) /\ j + 1 \in 0 .. l
    BY <2>1
  <2>3. PICK d \in FileBlocks : \E p \in j + 1 .. mode_of(d) :
          index_of(d)[j + 1] = k /\ e = Node(ino, dsk, d, p) /\ p \in 0 .. mode_of(d)
    BY <1>5
  <2>4. PICK p \in 0 .. mode_of(d) : e = Node(ino, dsk, d, p)
    BY <2>3
  <2>5. e # 0
    BY <2>1, SMT DEF Blk
  <2>6. SamePlace(c, d, l)
    BY <2>2, <2>4, <2>5 DEF Apart
  <2>7. index_of(c)[j + 1] = index_of(d)[j + 1]
    BY <2>2, <2>6 DEF SamePlace
  <2> QED BY <1>6, <2>1, <2>3, <2>7
<1>7. Enumerates(f[Links], U)
  <2>1. \A i, k \in 0 .. Links - 1 : i # k => T[i] \cap T[k] = {}
    BY <1>6
  <2>2. Links \in Nat /\ Joined(f, P, Links)
    BY <1>1
  <2> QED BY <1>4, <2>1, <2>2, JoinedEnumerates
<1>8. n \in Blk
  <2>1. n \in Word
    BY NodeType DEF TreeType
  <2> QED BY <2>1, SMT DEF Word, Blk
<1>9. U \cap {n} = {}
  <2> SUFFICES ASSUME NEW i \in 0 .. Links - 1, n \in T[i] PROVE FALSE
    BY DEF AllOf
  <2>1. PICK c \in FileBlocks : \E k \in j + 1 .. mode_of(c) :
               n = Node(ino, dsk, c, k) /\ k \in 0 .. mode_of(c) /\ k # j
    <3> HIDE DEF n
    <3> QED BY <1>5
  <2>2. PICK k \in 0 .. mode_of(c) : n = Node(ino, dsk, c, k) /\ k # j
    BY <2>1
  <2> QED BY <1>1, <2>2 DEF Apart
<1>10. U \cup {n} = Beneath(ino, dsk, b, j)
  <2>1. ASSUME NEW i \in 0 .. Links - 1, NEW e, e \in T[i] PROVE e \in Beneath(ino, dsk, b, j)
    <3>1. PICK c \in FileBlocks : \E k \in j + 1 .. mode_of(c) :
                 SamePlace(b, c, j) /\ e = Node(ino, dsk, c, k) /\ e \in Blk
      BY <1>5, <2>1
    <3>2. \A k \in j + 1 .. mode_of(c) : k \in j .. mode_of(c)
      BY <1>1, PathFacts, SMT
    <3> QED BY <3>1, <3>2 DEF Beneath
  <2>2. n \in Beneath(ino, dsk, b, j)
    <3>1. SamePlace(b, b, j) /\ j \in j .. mode_of(b)
      BY <1>1, SMT DEF SamePlace
    <3> QED BY <1>8, <3>1 DEF Beneath
  <2>3. ASSUME NEW e, e \in Beneath(ino, dsk, b, j) PROVE e \in U \cup {n}
    <3>1. PICK c \in FileBlocks : \E k \in j .. mode_of(c) :
                 SamePlace(b, c, j) /\ e = Node(ino, dsk, c, k)
      BY <2>3 DEF Beneath
    <3>2. PICK k \in j .. mode_of(c) : SamePlace(b, c, j) /\ e = Node(ino, dsk, c, k)
      BY <3>1
    <3>3. mode_of(c) \in 0 .. 3 /\ j \in 0 .. j
      BY <1>1, PathFacts, SMT
    <3>4. CASE k = j
      <4>1. Node(ino, dsk, b, j) = Node(ino, dsk, c, j)
        BY <3>2, <3>3, SameNodes
      <4> QED BY <3>2, <3>4, <4>1
    <3>5. CASE k # j
      <4>1. k \in j + 1 .. mode_of(c)
        BY <1>1, <3>3, <3>5, SMT
      <4>2. PICK i \in 0 .. Links - 1 : i = index_of(c)[j + 1]
        BY <1>1, PathFacts
      <4>3. SamePlace(At(i), c, j)
        BY <1>2, <3>2 DEF SamePlace
      <4>4. SamePlace(At(i), c, j + 1)
        BY <1>1, <1>2, <4>2, <4>3, SameUpTo
      <4>5. e \in Blk
        BY <2>3 DEF Beneath
      <4>6. e \in T[i]
        BY <1>3, <3>2, <4>1, <4>4, <4>5 DEF Beneath
      <4> QED BY <4>6 DEF AllOf
    <3> QED BY <3>4, <3>5
  <2>4. \A e : e \in U <=> \E i \in 0 .. Links - 1 : e \in T[i]
    BY DEF AllOf
  <2> HIDE DEF n, U
  <2> QED BY <2>1, <2>2, <2>3, <2>4
<1>11. Enumerates(<<n>>, {n})
  BY EnumeratesFew
<1> HIDE DEF U, n
<1>12. Enumerates(f[Links] \o <<n>>, U \cup {n})
  BY <1>7, <1>9, <1>11, EnumeratesMore
<1> QED BY <1>10, <1>12 DEF n

-----------------------------------------------------------------------------
(* What deallocate_data_blocks visits below one entry.                      *)
LEMMA InOrder0 ==
  ASSUME NEW n
  PROVE  \E P, f : /\ Joined(f, P, Links) /\ InOrder(n, Level0) = f[Links]
                   /\ \A i \in 0 .. Links - 1 : P[i] = Level0(disk[n][i])
<1> DEFINE P == [i \in 0 .. Links - 1 |-> Level0(disk[n][i])]
           G(g) == [i \in 0 .. Links |-> IF i = 0 THEN <<>> ELSE g[i - 1] \o Level0(disk[n][i - 1])]
           f == CHOOSE g : g = G(g)
<1>1. InOrder(n, Level0) = f[Links]
  BY DEF InOrder
<1>2. \A i \in 0 .. Links - 1 : P[i] = Level0(disk[n][i])
  OBVIOUS
<1>3. \A g : Joined(g, P, Links) <=> g = G(g)
  <2>1. Links \in Nat
    BY IndirectAssumption
  <2>2. \A i \in 0 .. Links : i # 0 => i - 1 \in 0 .. Links - 1
    BY <2>1, SMT
  <2> HIDE DEF P
  <2>3. \A i \in 0 .. Links : i # 0 => P[i - 1] = Level0(disk[n][i - 1])
    BY <1>2, <2>2
  <2>4. ASSUME NEW g
        PROVE  [i \in 0 .. Links |-> IF i = 0 THEN <<>> ELSE g[i - 1] \o P[i - 1]] = G(g)
    BY <2>3
  <2> HIDE DEF G
  <2> QED BY <2>4 DEF Joined
<1>4. \E g : g = G(g)
  <2>1. \E g : Joined(g, P, Links)
    <3> HIDE DEF P
    <3> QED BY JoinedExists, IndirectAssumption
  <2> HIDE DEF P, G
  <2> QED BY <1>3, <2>1
<1>5. f = G(f)
  <2> HIDE DEF G
  <2> QED BY <1>4
<1> HIDE DEF P, f, G
<1>6. Joined(f, P, Links)
  BY <1>3, <1>5
<1> QED BY <1>1, <1>2, <1>6

LEMMA InOrder1 ==
  ASSUME NEW n
  PROVE  \E P, f : /\ Joined(f, P, Links) /\ InOrder(n, Level1) = f[Links]
                   /\ \A i \in 0 .. Links - 1 : P[i] = Level1(disk[n][i])
<1> DEFINE P == [i \in 0 .. Links - 1 |-> Level1(disk[n][i])]
           G(g) == [i \in 0 .. Links |-> IF i = 0 THEN <<>> ELSE g[i - 1] \o Level1(disk[n][i - 1])]
           f == CHOOSE g : g = G(g)
<1>1. InOrder(n, Level1) = f[Links]
  BY DEF InOrder
<1>2. \A i \in 0 .. Links - 1 : P[i] = Level1(disk[n][i])
  OBVIOUS
<1>3. \A g : Joined(g, P, Links) <=> g = G(g)
  <2>1. Links \in Nat
    BY IndirectAssumption
  <2>2. \A i \in 0 .. Links : i # 0 => i - 1 \in 0 .. Links - 1
    BY <2>1, SMT
  <2> HIDE DEF P
  <2>3. \A i \in 0 .. Links : i # 0 => P[i - 1] = Level1(disk[n][i - 1])
    BY <1>2, <2>2
  <2>4. ASSUME NEW g
        PROVE  [i \in 0 .. Links |-> IF i = 0 THEN <<>> ELSE g[i - 1] \o P[i - 1]] = G(g)
    BY <2>3
  <2> HIDE DEF G
  <2> QED BY <2>4 DEF Joined
<1>4. \E g : g = G(g)
  <2>1. \E g : Joined(g, P, Links)
    <3> HIDE DEF P
    <3> QED BY JoinedExists, IndirectAssumption
  <2> HIDE DEF P, G
  <2> QED BY <1>3, <2>1
<1>5. f = G(f)
  <2> HIDE DEF G
  <2> QED BY <1>4
<1> HIDE DEF P, f, G
<1>6. Joined(f, P, Links)
  BY <1>3, <1>5
<1> QED BY <1>1, <1>2, <1>6

LEMMA InOrder2 ==
  ASSUME NEW n
  PROVE  \E P, f : /\ Joined(f, P, Links) /\ InOrder(n, Level2) = f[Links]
                   /\ \A i \in 0 .. Links - 1 : P[i] = Level2(disk[n][i])
<1> DEFINE P == [i \in 0 .. Links - 1 |-> Level2(disk[n][i])]
           G(g) == [i \in 0 .. Links |-> IF i = 0 THEN <<>> ELSE g[i - 1] \o Level2(disk[n][i - 1])]
           f == CHOOSE g : g = G(g)
<1>1. InOrder(n, Level2) = f[Links]
  BY DEF InOrder
<1>2. \A i \in 0 .. Links - 1 : P[i] = Level2(disk[n][i])
  OBVIOUS
<1>3. \A g : Joined(g, P, Links) <=> g = G(g)
  <2>1. Links \in Nat
    BY IndirectAssumption
  <2>2. \A i \in 0 .. Links : i # 0 => i - 1 \in 0 .. Links - 1
    BY <2>1, SMT
  <2> HIDE DEF P
  <2>3. \A i \in 0 .. Links : i # 0 => P[i - 1] = Level2(disk[n][i - 1])
    BY <1>2, <2>2
  <2>4. ASSUME NEW g
        PROVE  [i \in 0 .. Links |-> IF i = 0 THEN <<>> ELSE g[i - 1] \o P[i - 1]] = G(g)
    BY <2>3
  <2> HIDE DEF G
  <2> QED BY <2>4 DEF Joined
<1>4. \E g : g = G(g)
  <2>1. \E g : Joined(g, P, Links)
    <3> HIDE DEF P
    <3> QED BY JoinedExists, IndirectAssumption
  <2> HIDE DEF P, G
  <2> QED BY <1>3, <2>1
<1>5. f = G(f)
  <2> HIDE DEF G
  <2> QED BY <1>4
<1> HIDE DEF P, f, G
<1>6. Joined(f, P, Links)
  BY <1>3, <1>5
<1> QED BY <1>1, <1>2, <1>6

LEMMA NothingBeneath ==
  ASSUME NEW ino, NEW dsk, NEW b \in FileBlocks, NEW j \in 0 .. mode_of(b), Node(ino, dsk, b, j) = 0
  PROVE  Beneath(ino, dsk, b, j) = {}
<1> SUFFICES ASSUME NEW e, e \in Beneath(ino, dsk, b, j) PROVE FALSE
  OBVIOUS
<1>1. PICK c \in FileBlocks : \E k \in j .. mode_of(c) :
             SamePlace(b, c, j) /\ e = Node(ino, dsk, c, k)
  BY DEF Beneath
<1>2. PICK k \in j .. mode_of(c) : SamePlace(b, c, j) /\ e = Node(ino, dsk, c, k)
  BY <1>1
<1>3. mode_of(b) \in 0 .. 3 /\ mode_of(c) \in 0 .. 3 /\ j \in 0 .. 3 /\ j \in 0 .. j
  BY PathFacts, SMT
<1>4. k \in 0 .. 3 /\ j <= k
  BY <1>3, SMT
<1>5. Node(ino, dsk, c, j) = 0
  BY <1>2, <1>3, SameNodes
<1>6. e = 0 /\ e \in Blk
  BY <1>2, <1>3, <1>4, <1>5, NodesMissing DEF Beneath
<1> QED BY <1>6, SMT DEF Blk

LEMMA LeafBeneath ==
  ASSUME NEW ino, NEW dsk, TreeType(ino, dsk), NEW b \in FileBlocks,
         Node(ino, dsk, b, mode_of(b)) # 0
  PROVE  Beneath(ino, dsk, b, mode_of(b)) = {Node(ino, dsk, b, mode_of(b))}
<1> DEFINE m == mode_of(b)
           n == Node(ino, dsk, b, m)
<1>1. m \in 0 .. 3 /\ m \in m .. m /\ m \in 0 .. m
  BY PathFacts, SMT
<1>2. n \in Blk
  <2>1. n \in Word
    BY <1>1, NodeType DEF TreeType
  <2> QED BY <2>1, SMT DEF Word, Blk
<1>3. n \in Beneath(ino, dsk, b, m)
  <2>1. SamePlace(b, b, m)
    BY DEF SamePlace
  <2> QED BY <1>1, <1>2, <2>1 DEF Beneath
<1>4. ASSUME NEW e, e \in Beneath(ino, dsk, b, m) PROVE e = n
  <2>1. PICK c \in FileBlocks : \E k \in m .. mode_of(c) :
               SamePlace(b, c, m) /\ e = Node(ino, dsk, c, k)
    BY <1>4 DEF Beneath
  <2>2. b = c
    BY <2>1, SamePath
  <2>3. \A k \in m .. m : k = m
    BY <1>1, SMT
  <2> QED BY <2>1, <2>2, <2>3
<1> QED BY <1>3, <1>4

(* Level by level: what is collected at a node are the blocks beneath it,   *)
(* each of them once.                                                       *)
LEMMA CollectsLeaf ==
  ASSUME NEW ino, NEW dsk, TreeType(ino, dsk), NEW b \in FileBlocks
  PROVE  Enumerates(Level0(Node(ino, dsk, b, mode_of(b))), Beneath(ino, dsk, b, mode_of(b)))
<1>1. mode_of(b) \in 0 .. mode_of(b)
  BY PathFacts, SMT
<1>2. CASE Node(ino, dsk, b, mode_of(b)) = 0
  BY <1>1, <1>2, NothingBeneath, EnumeratesFew DEF Level0
<1>3. CASE Node(ino, dsk, b, mode_of(b)) # 0
  BY <1>1, <1>3, LeafBeneath, EnumeratesFew DEF Level0
<1> QED BY <1>2, <1>3

LEMMA Collects1 ==
  ASSUME NEW ino, TreeType(ino, disk), Apart(ino, disk),
         NEW b \in FileBlocks, NEW j \in 0 .. 3, mode_of(b) = j + 1
  PROVE  Enumerates(Level1(Node(ino, disk, b, j)), Beneath(ino, disk, b, j))
<1> DEFINE n == Node(ino, disk, b, j)
<1>1. /\ mode_of(b) \in 0 .. 3 /\ j \in 0 .. mode_of(b) /\ j < mode_of(b) /\ 0 \in 0 .. j
      /\ j + 1 \in 0 .. 3 /\ j + 1 \in 1 .. 3 /\ j + 1 - 1 = j /\ mode_of(b) = (j + 1) + 0
  BY PathFacts, SMT
<1>2. CASE n = 0
  BY <1>1, <1>2, NothingBeneath, EnumeratesFew DEF Level1
<1>3. CASE n # 0
  <2>1. Level1(n) = InOrder(n, Level0) \o <<n>>
    <3> HIDE DEF n
    <3> QED BY <1>3 DEF Level1
  <2>2. PICK P, f : /\ Joined(f, P, Links) /\ InOrder(n, Level0) = f[Links]
                    /\ \A i \in 0 .. Links - 1 : P[i] = Level0(disk[n][i])
    <3> HIDE DEF n
    <3> QED BY InOrder0
  <2>3. ASSUME NEW c \in FileBlocks, SamePlace(b, c, j)
        PROVE  Enumerates(P[index_of(c)[j + 1]], Beneath(ino, disk, c, j + 1))
    <3>1. index_of(b)[0] = index_of(c)[0] /\ Node(ino, disk, c, j) = n
      <4>1. j \in 0 .. j
        BY <1>1, SMT
      <4> QED BY <1>1, <2>3, <4>1, SameNodes DEF SamePlace
    <3>2. mode_of(c) = (j + 1) + 0
      BY <1>1, <3>1, SameMode
    <3>3. index_of(c)[j + 1] \in 0 .. Links - 1
      BY <1>1, PathFacts
    <3>4. Node(ino, disk, c, j + 1) = disk[n][index_of(c)[j + 1]]
      BY <1>1, <1>3, <3>1, NodeStep
    <3>5. P[index_of(c)[j + 1]] = Level0(Node(ino, disk, c, j + 1))
      BY <2>2, <3>3, <3>4
    <3>6. mode_of(c) = j + 1
      BY <1>1, <3>2, SMT
    <3>7. Enumerates(Level0(Node(ino, disk, c, mode_of(c))), Beneath(ino, disk, c, mode_of(c)))
      BY CollectsLeaf
    <3> QED BY <3>5, <3>6, <3>7
  <2>4. Enumerates(f[Links] \o <<Node(ino, disk, b, j)>>, Beneath(ino, disk, b, j))
    <3>1. Node(ino, disk, b, j) # 0
      BY <1>3
    <3> QED BY <1>1, <2>2, <2>3, <3>1, LevelStep
  <2> QED BY <2>1, <2>2, <2>4
<1> QED BY <1>2, <1>3

LEMMA Collects2 ==
  ASSUME NEW ino, TreeType(ino, disk), Apart(ino, disk),
         NEW b \in FileBlocks, NEW j \in 0 .. 3, mode_of(b) = j + 2
  PROVE  Enumerates(Level2(Node(ino, disk, b, j)), Beneath(ino, disk, b, j))
<1> DEFINE n == Node(ino, disk, b, j)
<1>1. /\ mode_of(b) \in 0 .. 3 /\ j \in 0 .. mode_of(b) /\ j < mode_of(b) /\ 0 \in 0 .. j
      /\ j + 1 \in 0 .. 3 /\ j + 1 \in 1 .. 3 /\ j + 1 - 1 = j /\ mode_of(b) = (j + 1) + 1
  BY PathFacts, SMT
<1>2. CASE n = 0
  BY <1>1, <1>2, NothingBeneath, EnumeratesFew DEF Level2
<1>3. CASE n # 0
  <2>1. Level2(n) = InOrder(n, Level1) \o <<n>>
    <3> HIDE DEF n
    <3> QED BY <1>3 DEF Level2
  <2>2. PICK P, f : /\ Joined(f, P, Links) /\ InOrder(n, Level1) = f[Links]
                    /\ \A i \in 0 .. Links - 1 : P[i] = Level1(disk[n][i])
    <3> HIDE DEF n
    <3> QED BY InOrder1
  <2>3. ASSUME NEW c \in FileBlocks, SamePlace(b, c, j)
        PROVE  Enumerates(P[index_of(c)[j + 1]], Beneath(ino, disk, c, j + 1))
    <3>1. index_of(b)[0] = index_of(c)[0] /\ Node(ino, disk, c, j) = n
      <4>1. j \in 0 .. j
        BY <1>1, SMT
      <4> QED BY <1>1, <2>3, <4>1, SameNodes DEF SamePlace
    <3>2. mode_of(c) = (j + 1) + 1
      BY <1>1, <3>1, SameMode
    <3>3. index_of(c)[j + 1] \in 0 .. Links - 1
      BY <1>1, PathFacts
    <3>4. Node(ino, disk, c, j + 1) = disk[n][index_of(c)[j + 1]]
      BY <1>1, <1>3, <3>1, NodeStep
    <3>5. P[index_of(c)[j + 1]] = Level1(Node(ino, disk, c, j + 1))
      BY <2>2, <3>3, <3>4
    <3>6. PICK k \in 0 .. 3 : k = j + 1
      BY <1>1
    <3>7. Enumerates(Level1(Node(ino, disk, c, k)), Beneath(ino, disk, c, k))
      BY <3>2, <3>6, Collects1
    <3> QED BY <3>5, <3>6, <3>7
  <2>4. Enumerates(f[Links] \o <<Node(ino, disk, b, j)>>, Beneath(ino, disk, b, j))
    <3>1. Node(ino, disk, b, j) # 0
      BY <1>3
    <3> QED BY <1>1, <2>2, <2>3, <3>1, LevelStep
  <2> QED BY <2>1, <2>2, <2>4
<1> QED BY <1>2, <1>3

LEMMA Collects3 ==
  ASSUME NEW ino, TreeType(ino, disk), Apart(ino, disk),
         NEW b \in FileBlocks, NEW j \in 0 .. 3, mode_of(b) = j + 3
  PROVE  Enumerates(Level3(Node(ino, disk, b, j)), Beneath(ino, disk, b, j))
<1> DEFINE n == Node(ino, disk, b, j)
<1>1. /\ mode_of(b) \in 0 .. 3 /\ j \in 0 .. mode_of(b) /\ j < mode_of(b) /\ 0 \in 0 .. j
      /\ j + 1 \in 0 .. 3 /\ j + 1 \in 1 .. 3 /\ j + 1 - 1 = j /\ mode_of(b) = (j + 1) + 2
  BY PathFacts, SMT
<1>2. CASE n = 0
  BY <1>1, <1>2, NothingBeneath, EnumeratesFew DEF Level3
<1>3. CASE n # 0
  <2>1. Level3(n) = InOrder(n, Level2) \o <<n>>
    <3> HIDE DEF n
    <3> QED BY <1>3 DEF Level3
  <2>2. PICK P, f : /\ Joined(f, P, Links) /\ InOrder(n, Level2) = f[Links]
                    /\ \A i \in 0 .. Links - 1 : P[i] = Level2(disk[n][i])
    <3> HIDE DEF n
    <3> QED BY InOrder2
  <2>3. ASSUME NEW c \in FileBlocks, SamePlace(b, c, j)
        PROVE  Enumerates(P[index_of(c)[j + 1]], Beneath(ino, disk, c, j + 1))
    <3>1. index_of(b)[0] = index_of(c)[0] /\ Node(ino, disk, c, j) = n
      <4>1. j \in 0 .. j
        BY <1>1, SMT
      <4> QED BY <1>1, <2>3, <4>1, SameNodes DEF SamePlace
    <3>2. mode_of(c) = (j + 1) + 2
      BY <1>1, <3>1, SameMode
    <3>3. index_of(c)[j + 1] \in 0 .. Links - 1
      BY <1>1, PathFacts
    <3>4. Node(ino, disk, c, j + 1) = disk[n][index_of(c)[j + 1]]
      BY <1>1, <1>3, <3>1, NodeStep
    <3>5. P[index_of(c)[j + 1]] = Level2(Node(ino, disk, c, j + 1))
      BY <2>2, <3>3, <3>4
    <3>6. PICK k \in 0 .. 3 : k = j + 1
      BY <1>1
    <3>7. Enumerates(Level2(Node(ino, disk, c, k)), Beneath(ino, disk, c, k))
      BY <3>2, <3>6, Collects2
    <3> QED BY <3>5, <3>6, <3>7
  <2>4. Enumerates(f[Links] \o <<Node(ino, disk, b, j)>>, Beneath(ino, disk, b, j))
    <3>1. Node(ino, disk, b, j) # 0
      BY <1>3
    <3> QED BY <1>1, <2>2, <2>3, <3>1, LevelStep
  <2> QED BY <2>1, <2>2, <2>4
<1> QED BY <1>2, <1>3

-----------------------------------------------------------------------------
(* The blocks behind the direct entries.                                    *)
LEMMA DirectPart ==
  ASSUME NEW ino
  PROVE  \E P, f : /\ Joined(f, P, Direct)
                   /\ \A i \in 0 .. Direct - 1 : P[i] = Level0(ino.i_block[i])
                   /\ BlocksOf(ino) = f[Direct] \o Level1(ino.i_block[SI_INDEX])
                         \o Level2(ino.i_block[DI_INDEX]) \o Level3(ino.i_block[TI_INDEX])
<1> DEFINE P == [i \in 0 .. Direct - 1 |-> Level0(ino.i_block[i])]
           G(g) == [i \in 0 .. Direct |->
                      IF i = 0 THEN <<>> ELSE g[i - 1] \o Level0(ino.i_block[i - 1])]
           f == CHOOSE g : g = G(g)
<1>1. BlocksOf(ino) = f[Direct] \o Level1(ino.i_block[SI_INDEX])
                        \o Level2(ino.i_block[DI_INDEX]) \o Level3(ino.i_block[TI_INDEX])
  BY DEF BlocksOf
<1>2. \A i \in 0 .. Direct - 1 : P[i] = Level0(ino.i_block[i])
  OBVIOUS
<1>3. \A g : Joined(g, P, Direct) <=> g = G(g)
  <2>1. Direct \in Nat
    BY IndirectAssumption
  <2>2. \A i \in 0 .. Direct : i # 0 => i - 1 \in 0 .. Direct - 1
    BY <2>1, SMT
  <2> HIDE DEF P
  <2>3. \A i \in 0 .. Direct : i # 0 => P[i - 1] = Level0(ino.i_block[i - 1])
    BY <1>2, <2>2
  <2>4. ASSUME NEW g
        PROVE  [i \in 0 .. Direct |-> IF i = 0 THEN <<>> ELSE g[i - 1] \o P[i - 1]] = G(g)
    BY <2>3
  <2> HIDE DEF G
  <2> QED BY <2>4 DEF Joined
<1>4. \E g : g = G(g)
  <2>1. \E g : Joined(g, P, Direct)
    <3> HIDE DEF P
    <3> QED BY JoinedExists, IndirectAssumption
  <2> HIDE DEF P, G
  <2> QED BY <1>3, <2>1
<1>5. f = G(f)
  <2> HIDE DEF G
  <2> QED BY <1>4
<1> HIDE DEF P, f, G
<1>6. Joined(f, P, Direct)
  BY <1>3, <1>5
<1> QED BY <1>1, <1>2, <1>6

(* One block of each entry of i_block.                                      *)
LEMMA EntryTaken ==
  ASSUME NEW k \in 0 .. TI_INDEX
  PROVE  \E b \in FileBlocks : /\ index_of(b)[0] = k
                               /\ mode_of(b) = IF k < Direct THEN 0 ELSE k - SI_INDEX + 1
<1> DEFINE m == IF k < Direct THEN 0 ELSE k - SI_INDEX + 1
<1>1. Direct \in Nat \ {0} /\ k \in Nat /\ m \in 0 .. 3
  BY IndirectAssumption, SMT DEF TI_INDEX, SI_INDEX
<1>2. CASE k < Direct
  <2>1. k \in FileBlocks /\ k < limits(0)
    <3>1. limits(0) = Direct /\ limits(3) \in Nat /\ limits(0) < limits(3)
      <4>1. limits(0) = Direct
        BY DEF limits
      <4> QED BY <4>1, LimitsRise, SMT
    <3> HIDE DEF m
    <3> QED BY <1>1, <1>2, <3>1, SMT DEF FileBlocks
  <2>2. mode_of(k) = 0
    BY <2>1, ModeByRange
  <2>3. index_of(k)[0] = k
    BY <2>2, SMT DEF index_of
  <2> QED BY <1>2, <2>1, <2>2, <2>3
<1>3. CASE ~(k < Direct)
  <2> DEFINE d == [i \in 1 .. 3 |-> 0]
  <2>1. d \in [1 .. 3 -> 0 .. Links - 1]
    <3>1. 0 \in 0 .. Links - 1
      BY IndirectAssumption, SMT
    <3> QED BY <3>1
  <2>2. PICK b \in FileBlocks : mode_of(b) = m
    <3> HIDE DEF d, m
    <3> QED BY <1>1, <2>1, EveryPlaceTaken
  <2>3. mode_of(b) = k - SI_INDEX + 1 /\ mode_of(b) # 0
    BY <1>1, <1>3, <2>2, SMT DEF SI_INDEX
  <2>4. index_of(b)[0] = Direct - 1 + mode_of(b)
    BY <2>3, SMT DEF index_of
  <2>5. index_of(b)[0] = k
    BY <1>1, <2>3, <2>4, SMT DEF SI_INDEX
  <2> QED BY <1>3, <2>3, <2>5
<1> QED BY <1>2, <1>3

(* The blocks of one entry of i_block. *)
Through(ino, dsk, k) ==
  {e \in Blk : \E c \in FileBlocks : \E l \in 0 .. mode_of(c) :
                  index_of(c)[0] = k /\ e = Node(ino, dsk, c, l)}

LEMMA ThroughIs ==
  ASSUME NEW ino, NEW dsk, NEW b \in FileBlocks
  PROVE  Through(ino, dsk, index_of(b)[0]) = Beneath(ino, dsk, b, 0)
<1>1. \A c : SamePlace(b, c, 0) <=> index_of(c)[0] = index_of(b)[0]
  <2>1. \A i \in 0 .. 0 : i = 0
    BY SMT
  <2> QED BY <2>1 DEF SamePlace
<1> QED BY <1>1 DEF Through, Beneath

LEMMA ThroughApart ==
  ASSUME NEW ino, NEW dsk, Apart(ino, dsk), NEW i, NEW k, i # k
  PROVE  Through(ino, dsk, i) \cap Through(ino, dsk, k) = {}
<1> SUFFICES ASSUME NEW e, e \in Through(ino, dsk, i), e \in Through(ino, dsk, k) PROVE FALSE
  OBVIOUS
<1>1. PICK c \in FileBlocks : \E l \in 0 .. mode_of(c) :
             index_of(c)[0] = i /\ e = Node(ino, dsk, c, l)
  BY DEF Through
<1>2. PICK l \in 0 .. mode_of(c) : index_of(c)[0] = i /\ e = Node(ino, dsk, c, l)
  BY <1>1
<1>3. PICK d \in FileBlocks : \E p \in 0 .. mode_of(d) :
             index_of(d)[0] = k /\ e = Node(ino, dsk, d, p)
  BY DEF Through
<1>4. PICK p \in 0 .. mode_of(d) : index_of(d)[0] = k /\ e = Node(ino, dsk, d, p)
  BY <1>3
<1>5. e # 0 /\ 0 \in 0 .. l
  <2>1. e \in Blk /\ mode_of(c) \in 0 .. 3
    BY PathFacts DEF Through
  <2> QED BY <2>1, SMT DEF Blk
<1>6. SamePlace(c, d, l)
  BY <1>2, <1>4, <1>5 DEF Apart
<1>7. index_of(c)[0] = index_of(d)[0]
  BY <1>5, <1>6 DEF SamePlace
<1> QED BY <1>2, <1>4, <1>7

(* What a walk through a sound tree collects are its blocks, each of them   *)
(* once.                                                                    *)
LEMMA CollectsAll ==
  ASSUME NEW ino, TreeType(ino, disk), Apart(ino, disk)
  PROVE  Enumerates(BlocksOf(ino), NodesOf(ino, disk))
<1> DEFINE T == [k \in 0 .. TI_INDEX |-> Through(ino, disk, k)]
           A == AllOf(T, Direct)
<1>1. /\ Direct \in Nat \ {0} /\ SI_INDEX = Direct /\ DI_INDEX = Direct + 1
      /\ TI_INDEX = Direct + 2
  BY IndirectAssumption DEF SI_INDEX, DI_INDEX, TI_INDEX
<1>2. /\ SI_INDEX \in 0 .. TI_INDEX /\ DI_INDEX \in 0 .. TI_INDEX /\ TI_INDEX \in 0 .. TI_INDEX
      /\ \A k \in 0 .. Direct - 1 : k \in 0 .. TI_INDEX /\ k < Direct
      /\ SI_INDEX # DI_INDEX /\ SI_INDEX # TI_INDEX /\ DI_INDEX # TI_INDEX
      /\ \A k \in 0 .. Direct - 1 : k # SI_INDEX /\ k # DI_INDEX /\ k # TI_INDEX
      /\ \A k \in 0 .. TI_INDEX : k \in 0 .. Direct - 1 \/ k \in {SI_INDEX, DI_INDEX, TI_INDEX}
      /\ ~(SI_INDEX < Direct) /\ ~(DI_INDEX < Direct) /\ ~(TI_INDEX < Direct)
      /\ SI_INDEX - SI_INDEX + 1 = 1 /\ DI_INDEX - SI_INDEX + 1 = 2 /\ TI_INDEX - SI_INDEX + 1 = 3
  BY <1>1, SMT
<1>3. \A k \in 0 .. TI_INDEX : T[k] = Through(ino, disk, k)
  OBVIOUS
<1> HIDE DEF T
<1>4. \A i, k \in 0 .. TI_INDEX : i # k => T[i] \cap T[k] = {}
  BY <1>3, ThroughApart
<1>5. \A b \in FileBlocks : Node(ino, disk, b, 0) = ino.i_block[index_of(b)[0]]
  BY NodeStep
<1>6. ASSUME NEW k \in 0 .. Direct - 1 PROVE Enumerates(Level0(ino.i_block[k]), T[k])
  <2>1. PICK b \in FileBlocks : index_of(b)[0] = k /\ mode_of(b) = 0
    BY <1>2, EntryTaken
  <2>2. Enumerates(Level0(Node(ino, disk, b, mode_of(b))), Beneath(ino, disk, b, mode_of(b)))
    BY CollectsLeaf
  <2>3. T[k] = Beneath(ino, disk, b, 0)
    BY <1>2, <1>3, <2>1, ThroughIs
  <2> QED BY <1>5, <2>1, <2>2, <2>3
<1>7. Enumerates(Level1(ino.i_block[SI_INDEX]), T[SI_INDEX])
  <2>1. PICK b \in FileBlocks : index_of(b)[0] = SI_INDEX /\ mode_of(b) = 1
    BY <1>2, EntryTaken
  <2>2. Enumerates(Level1(Node(ino, disk, b, 0)), Beneath(ino, disk, b, 0))
    <3>1. 0 \in 0 .. 3 /\ mode_of(b) = 0 + 1
      BY <2>1, SMT
    <3> QED BY <3>1, Collects1
  <2>3. T[SI_INDEX] = Beneath(ino, disk, b, 0)
    BY <1>2, <1>3, <2>1, ThroughIs
  <2> QED BY <1>5, <2>1, <2>2, <2>3
<1>8. Enumerates(Level2(ino.i_block[DI_INDEX]), T[DI_INDEX])
  <2>1. PICK b \in FileBlocks : index_of(b)[0] = DI_INDEX /\ mode_of(b) = 2
    BY <1>2, EntryTaken
  <2>2. Enumerates(Level2(Node(ino, disk, b, 0)), Beneath(ino, disk, b, 0))
    <3>1. 0 \in 0 .. 3 /\ mode_of(b) = 0 + 2
      BY <2>1, SMT
    <3> QED BY <3>1, Collects2
  <2>3. T[DI_INDEX] = Beneath(ino, disk, b, 0)
    BY <1>2, <1>3, <2>1, ThroughIs
  <2> QED BY <1>5, <2>1, <2>2, <2>3
<1>9. Enumerates(Level3(ino.i_block[TI_INDEX]), T[TI_INDEX])
  <2>1. PICK b \in FileBlocks : index_of(b)[0] = TI_INDEX /\ mode_of(b) = 3
    BY <1>2, EntryTaken
  <2>2. Enumerates(Level3(Node(ino, disk, b, 0)), Beneath(ino, disk, b, 0))
    <3>1. 0 \in 0 .. 3 /\ mode_of(b) = 0 + 3
      BY <2>1, SMT
    <3> QED BY <3>1, Collects3
  <2>3. T[TI_INDEX] = Beneath(ino, disk, b, 0)
    BY <1>2, <1>3, <2>1, ThroughIs
  <2> QED BY <1>5, <2>1, <2>2, <2>3
<1>10. PICK P, f : /\ Joined(f, P, Direct)
                   /\ \A i \in 0 .. Direct - 1 : P[i] = Level0(ino.i_block[i])
                   /\ BlocksOf(ino) = f[Direct] \o Level1(ino.i_block[SI_INDEX])
                         \o Level2(ino.i_block[DI_INDEX]) \o Level3(ino.i_block[TI_INDEX])
  BY DirectPart
<1>11. Enumerates(f[Direct], A)
  <2>1. \A i \in 0 .. Direct - 1 : Enumerates(P[i], T[i])
    BY <1>6, <1>10
  <2>2. \A i, k \in 0 .. Direct - 1 : i # k => T[i] \cap T[k] = {}
    BY <1>2, <1>4
  <2>3. Direct \in Nat /\ Joined(f, P, Direct)
    BY <1>1, <1>10
  <2> QED BY <2>1, <2>2, <2>3, JoinedEnumerates
<1>12. \A k \in {SI_INDEX, DI_INDEX, TI_INDEX} : A \cap T[k] = {}
  BY <1>2, <1>4 DEF AllOf
<1> DEFINE B == A \cup T[SI_INDEX]
           C == B \cup T[DI_INDEX]
           D == C \cup T[TI_INDEX]
           p == f[Direct] \o Level1(ino.i_block[SI_INDEX])
           q == p \o Level2(ino.i_block[DI_INDEX])
<1>13. Enumerates(p, B)
  <2> HIDE DEF A
  <2> QED BY <1>7, <1>11, <1>12, EnumeratesMore
<1>14. Enumerates(q, C)
  <2>1. B \cap T[DI_INDEX] = {}
    BY <1>2, <1>4, <1>12
  <2> HIDE DEF A, B, p
  <2> QED BY <1>8, <1>13, <2>1, EnumeratesMore
<1>15. Enumerates(BlocksOf(ino), D)
  <2>1. C \cap T[TI_INDEX] = {}
    BY <1>2, <1>4, <1>12
  <2>2. BlocksOf(ino) = q \o Level3(ino.i_block[TI_INDEX])
    BY <1>10
  <2> HIDE DEF A, B, C, p, q
  <2> QED BY <1>9, <1>14, <2>1, <2>2, EnumeratesMore
<1>16. D = NodesOf(ino, disk)
  <2>1. \A e : e \in D <=> \E k \in 0 .. TI_INDEX : e \in T[k]
    BY <1>2 DEF AllOf
  <2> HIDE DEF D
  <2>2. ASSUME NEW e, e \in D PROVE e \in NodesOf(ino, disk)
    BY <1>3, <2>1, <2>2 DEF Through, NodesOf
  <2>3. ASSUME NEW e, e \in NodesOf(ino, disk) PROVE e \in D
    <3>1. PICK c \in FileBlocks : \E l \in 0 .. mode_of(c) : e = Node(ino, disk, c, l)
      BY <2>3 DEF NodesOf
    <3>2. e \in Blk /\ index_of(c)[0] \in 0 .. TI_INDEX
      BY <2>3, PathFacts DEF NodesOf
    <3>3. e \in T[index_of(c)[0]]
      BY <1>3, <3>1, <3>2 DEF Through
    <3> QED BY <2>1, <3>2, <3>3
  <2> QED BY <2>2, <2>3
<1> QED BY <1>15, <1>16

-----------------------------------------------------------------------------
LEMMA EnumeratesCount ==
  ASSUME NEW T, NEW s, Enumerates(s, T)
  PROVE  Elements(s) = T /\ IsFiniteSet(T) /\ Cardinality(T) = Len(s)
<1>1. /\ s \in Seq(T) /\ Len(s) \in Nat /\ DOMAIN s = 1 .. Len(s)
      /\ \A i \in 1 .. Len(s) : s[i] \in T
      /\ s = [i \in 1 .. Len(s) |-> s[i]]
  BY DEF Enumerates
<1>2. Elements(s) = T
  <2>1. Elements(s) = {s[i] : i \in 1 .. Len(s)}
    BY <1>1 DEF Elements
  <2>2. \A e \in T : \E i \in 1 .. Len(s) : s[i] = e
    BY <1>1 DEF Enumerates
  <2> QED BY <1>1, <2>1, <2>2
<1>3. ExistsBijection(1 .. Len(s), T)
  <2>1. s \in [1 .. Len(s) -> T]
    BY <1>1
  <2>2. \A i, j \in 1 .. Len(s) : s[i] = s[j] => i = j
    BY <1>1 DEF Enumerates
  <2>3. \A e \in T : \E i \in 1 .. Len(s) : s[i] = e
    BY <1>1 DEF Enumerates
  <2> QED BY <2>1, <2>2, <2>3 DEF ExistsBijection, Bijection, Injection, Surjection, IsInjective
<1>4. IsFiniteSet(1 .. Len(s)) /\ Cardinality(1 .. Len(s)) = Len(s)
  <2>1. 1 \in Int /\ Len(s) \in Int
    BY <1>1
  <2>2. IsFiniteSet(1 .. Len(s)) /\ Cardinality(1 .. Len(s)) = IF 1 > Len(s) THEN 0 ELSE Len(s) - 1 + 1
    BY <2>1, FS_Interval
  <2> QED BY <1>1, <2>2, SMT
<1> QED BY <1>2, <1>3, <1>4, FS_Bijection

(* The first of a list, and the rest. *)
LEMMA EnumeratesRest ==
  ASSUME NEW T, NEW s, Enumerates(s, T), s # <<>>
  PROVE  Head(s) \in T /\ Enumerates(Tail(s), T \ {Head(s)})
<1> DEFINE h == Head(s)
           t == Tail(s)
<1>1. /\ s \in Seq(T) /\ Len(s) \in Nat \ {0} /\ DOMAIN s = 1 .. Len(s) /\ h = s[1] /\ h \in T
      /\ t \in Seq(T) /\ Len(t) = Len(s) - 1 /\ DOMAIN t = 1 .. Len(t)
      /\ \A i \in 1 .. Len(t) : t[i] = s[i + 1]
  <2>1. s \in Seq(T)
    BY DEF Enumerates
  <2> QED BY <2>1
<1> HIDE DEF h, t
<1>2. \A i \in 1 .. Len(t) : i + 1 \in 1 .. Len(s) /\ i + 1 # 1 /\ 1 \in 1 .. Len(s)
  BY <1>1, SMT
<1>3. \A i, j \in 1 .. Len(s) : s[i] = s[j] => i = j
  BY <1>1 DEF Enumerates
<1>4. \A i \in 1 .. Len(t) : t[i] \in T \ {h}
  BY <1>1, <1>2, <1>3
<1>5. t \in Seq(T \ {h})
  BY <1>1, <1>4
<1>6. \A i, j \in DOMAIN t : t[i] = t[j] => i = j
  <2>1. \A i, j \in 1 .. Len(t) : t[i] = t[j] => i + 1 = j + 1
    BY <1>1, <1>2, <1>3
  <2> QED BY <1>1, <2>1, SMT
<1>7. \A e \in T \ {h} : \E i \in DOMAIN t : t[i] = e
  <2> SUFFICES ASSUME NEW e \in T \ {h} PROVE \E i \in DOMAIN t : t[i] = e
    OBVIOUS
  <2>1. PICK k \in 1 .. Len(s) : s[k] = e
    BY <1>1 DEF Enumerates
  <2>2. k # 1
    BY <1>1, <2>1
  <2>3. k - 1 \in 1 .. Len(t) /\ k - 1 + 1 = k
    BY <1>1, <2>1, <2>2, SMT
  <2> QED BY <1>1, <2>1, <2>3
<1>8. Enumerates(t, T \ {h})
  BY <1>5, <1>6, <1>7 DEF Enumerates
<1> QED BY <1>1, <1>8 DEF h, t

LEMMA EnumeratesNothing ==
  ASSUME NEW T, Enumerates(<<>>, T)
  PROVE  T = {}
BY DEF Enumerates

-----------------------------------------------------------------------------
LEMMA SameNodesOf ==
  ASSUME NEW ino, NEW dsk, NEW ino2, NEW dsk2,
         \A b \in FileBlocks : \A j \in 0 .. mode_of(b) : Node(ino2, dsk2, b, j) = Node(ino, dsk, b, j)
  PROVE  NodesOf(ino2, dsk2) = NodesOf(ino, dsk)
BY DEF NodesOf

LEMMA MarkedNodes ==
  ASSUME NEW ino, NEW dsk, NEW u, MarkedIn(ino, dsk, u)
  PROVE  NodesOf(ino, dsk) \subseteq u
<1>1. 0 \notin Blk
  BY BlockWords
<1> QED BY <1>1 DEF NodesOf, MarkedIn

LEMMA NoNodes ==
  ASSUME NEW dsk
  PROVE  NodesOf(EmptyInode, dsk) = {}
<1>1. MarkedIn(EmptyInode, dsk, {})
  BY EmptyTree DEF Tree
<1> QED BY <1>1, MarkedNodes

(* A branch adds its blocks to those of the tree. *)
LEMMA GraftNodes ==
  ASSUME NEW ino, NEW dsk, NEW ino2, NEW dsk2, NEW b \in FileBlocks, NEW j \in 0 .. mode_of(b),
         NEW c, TreeType(ino, dsk), Apart(ino, dsk), Branch(ino, dsk, b, j, c),
         Hung(ino, dsk, ino2, dsk2, b, j, c[j])
  PROVE  NodesOf(ino2, dsk2) = NodesOf(ino, dsk) \cup {c[k] : k \in j .. mode_of(b)}
<1>0. \A d \in FileBlocks : mode_of(d) \in 0 .. 3 /\ \A k \in 0 .. mode_of(d) : k \in 0 .. 3 /\ k \in Nat
  BY PathFacts, SMT
<1>1. \A d \in FileBlocks : \A k \in 0 .. mode_of(d) :
         Node(ino2, dsk2, d, k) = IF k >= j /\ SamePlace(b, d, k) THEN c[k] ELSE Node(ino, dsk, d, k)
  BY Graft
<1>2. j \in Nat /\ j \in 0 .. 3
  BY <1>0
<1>3. ASSUME NEW e \in NodesOf(ino2, dsk2)
      PROVE  e \in NodesOf(ino, dsk) \cup {c[k] : k \in j .. mode_of(b)}
  <2>1. PICK d \in FileBlocks : \E k \in 0 .. mode_of(d) : e = Node(ino2, dsk2, d, k)
    BY DEF NodesOf
  <2>2. PICK k \in 0 .. mode_of(d) : e = Node(ino2, dsk2, d, k)
    BY <2>1
  <2>3. CASE k >= j /\ SamePlace(b, d, k)
    <3>1. e = c[k]
      BY <1>1, <2>2, <2>3
    <3>2. index_of(b)[0] = index_of(d)[0]
      <4>1. 0 \in 0 .. k
        BY <1>0, SMT
      <4> QED BY <2>3, <4>1 DEF SamePlace
    <3>3. mode_of(b) = mode_of(d)
      BY <3>2, SameMode
    <3>4. k \in j .. mode_of(b)
      BY <1>0, <1>2, <2>3, <3>3, SMT
    <3> QED BY <3>1, <3>4
  <2>4. CASE ~(k >= j /\ SamePlace(b, d, k))
    <3>1. e = Node(ino, dsk, d, k) /\ e \in Blk
      BY <1>1, <2>2, <2>4 DEF NodesOf
    <3> QED BY <3>1 DEF NodesOf
  <2> QED BY <2>3, <2>4
<1>4. ASSUME NEW e \in NodesOf(ino, dsk) PROVE e \in NodesOf(ino2, dsk2)
  <2>1. PICK d \in FileBlocks : \E k \in 0 .. mode_of(d) : e = Node(ino, dsk, d, k)
    BY DEF NodesOf
  <2>2. PICK k \in 0 .. mode_of(d) : e = Node(ino, dsk, d, k)
    BY <2>1
  <2>3. e \in Blk /\ e # 0
    BY BlockWords DEF NodesOf
  <2>4. ~(k >= j /\ SamePlace(b, d, k))
    <3> SUFFICES ASSUME k >= j, SamePlace(b, d, k) PROVE FALSE
      OBVIOUS
    <3>1. k \in 0 .. 3 /\ k \in 0 .. k
      BY <1>0, SMT
    <3>2. Node(ino, dsk, b, k) = e
      BY <2>2, <3>1, SameNodes
    <3>3. Node(ino, dsk, b, j) = 0
      BY DEF Branch
    <3>4. Node(ino, dsk, b, k) = 0
      BY <1>2, <3>1, <3>3, NodesMissing
    <3> QED BY <2>3, <3>2, <3>4
  <2>5. Node(ino2, dsk2, d, k) = e
    BY <1>1, <2>2, <2>4
  <2> QED BY <2>3, <2>5 DEF NodesOf
<1>5. ASSUME NEW k \in j .. mode_of(b) PROVE c[k] \in NodesOf(ino2, dsk2)
  <2>1. k \in 0 .. mode_of(b) /\ k >= j
    BY <1>0, <1>2, SMT
  <2>2. SamePlace(b, b, k)
    BY DEF SamePlace
  <2>3. Node(ino2, dsk2, b, k) = c[k]
    BY <1>1, <2>1, <2>2
  <2>4. c[k] \in Blk
    BY DEF Branch
  <2> QED BY <2>1, <2>3, <2>4 DEF NodesOf
<1> QED BY <1>3, <1>4, <1>5
-----------------------------------------------------------------------------
LEMMA EmptyList ==
  ASSUME NEW W
  PROVE  <<>> \in Seq(W)
OBVIOUS

LEMMA JoinedSeq ==
  ASSUME NEW n \in Nat, NEW P, NEW f, Joined(f, P, n), NEW W, \A i \in 0 .. n - 1 : P[i] \in Seq(W)
  PROVE  f[n] \in Seq(W)
<1> DEFINE S == {k \in Nat : k <= n => f[k] \in Seq(W)}
<1>1. \A i \in 0 .. n : f[i] = IF i = 0 THEN <<>> ELSE f[i - 1] \o P[i - 1]
  BY Zenon DEF Joined
<1>0. /\ f[0] = <<>>
      /\ \A i \in 0 .. n : i # 0 => f[i] = f[i - 1] \o P[i - 1]
  <2>1. 0 \in 0 .. n
    BY SMT
  <2>2. f[0] = <<>>
    BY <1>1, <2>1
  <2>3. \A i \in 0 .. n : i # 0 => f[i] = f[i - 1] \o P[i - 1]
    BY <1>1
  <2> QED BY <2>2, <2>3
<1>2. 0 \in S
  <2>1. f[0] = <<>>
    BY <1>0
  <2>2. <<>> \in Seq(W)
    OBVIOUS
  <2>3. f[0] \in Seq(W)
    BY <2>1, <2>2, Zenon
  <2> QED BY <2>3
<1>3. ASSUME NEW k \in Nat, k \in S PROVE k + 1 \in S
  <2>1. CASE k + 1 <= n
    <3>1. k <= n /\ k \in 0 .. n - 1 /\ k + 1 \in 0 .. n /\ k + 1 # 0 /\ k + 1 - 1 = k
      BY <2>1, SMT
    <3>2. f[k + 1] = f[k] \o P[k]
      <4>1. PICK i \in 0 .. n : i = k + 1 /\ i # 0 /\ i - 1 = k
        BY <3>1
      <4>2. f[i] = f[i - 1] \o P[i - 1]
        BY <1>0, <4>1
      <4> QED BY <4>1, <4>2, Zenon
    <3>3. f[k] \in Seq(W) /\ P[k] \in Seq(W)
      BY <1>3, <3>1
    <3>4. \A s, t \in Seq(W) : s \o t \in Seq(W)
      OBVIOUS
    <3>5. f[k + 1] \in Seq(W)
      BY <3>2, <3>3, <3>4
    <3> QED BY <3>5
  <2> QED BY <2>1
<1>4. n \in S
  <2> HIDE DEF S
  <2> QED BY <1>2, <1>3, SetInduction
<1> QED BY <1>4

(* The blocks of any i_block, whether it is a tree or not. *)
LEMMA BlocksTyped ==
  ASSUME NEW ino, TreeType(ino, disk)
  PROVE  BlocksOf(ino) \in Seq(Word)
<1>1. Links \in Nat /\ Direct \in Nat \ {0} /\ Word \in {Word}
  BY IndirectAssumption
<1>2. \A w \in Word : Level0(w) \in Seq(Word)
  BY DEF Level0
<1>3. \A w \in Word : w # 0 => \A i \in 0 .. Links - 1 : disk[w][i] \in Word
  BY BlockWords DEF TreeType
<1>4. ASSUME NEW w \in Word PROVE Level1(w) \in Seq(Word)
  <2>1. CASE w # 0
    <3>1. PICK P : \E f : /\ Joined(f, P, Links) /\ InOrder(w, Level0) = f[Links]
                          /\ \A i \in 0 .. Links - 1 : P[i] = Level0(disk[w][i])
      BY InOrder0
    <3>2. PICK f : /\ Joined(f, P, Links) /\ InOrder(w, Level0) = f[Links]
                   /\ \A i \in 0 .. Links - 1 : P[i] = Level0(disk[w][i])
      BY <3>1
    <3>3. \A i \in 0 .. Links - 1 : P[i] \in Seq(Word)
      BY <1>2, <1>3, <2>1, <3>2
    <3>4. f[Links] \in Seq(Word)
      BY <1>1, <3>2, <3>3, JoinedSeq
    <3> QED BY <2>1, <3>2, <3>4 DEF Level1
  <2> QED BY <2>1 DEF Level1
<1>5. ASSUME NEW w \in Word PROVE Level2(w) \in Seq(Word)
  <2>1. CASE w # 0
    <3>1. PICK P : \E f : /\ Joined(f, P, Links) /\ InOrder(w, Level1) = f[Links]
                          /\ \A i \in 0 .. Links - 1 : P[i] = Level1(disk[w][i])
      BY InOrder1
    <3>2. PICK f : /\ Joined(f, P, Links) /\ InOrder(w, Level1) = f[Links]
                   /\ \A i \in 0 .. Links - 1 : P[i] = Level1(disk[w][i])
      BY <3>1
    <3>3. \A i \in 0 .. Links - 1 : P[i] \in Seq(Word)
      BY <1>3, <1>4, <2>1, <3>2
    <3>4. f[Links] \in Seq(Word)
      BY <1>1, <3>2, <3>3, JoinedSeq
    <3> QED BY <2>1, <3>2, <3>4 DEF Level2
  <2> QED BY <2>1 DEF Level2
<1>6. ASSUME NEW w \in Word PROVE Level3(w) \in Seq(Word)
  <2>1. CASE w # 0
    <3>1. PICK P : \E f : /\ Joined(f, P, Links) /\ InOrder(w, Level2) = f[Links]
                          /\ \A i \in 0 .. Links - 1 : P[i] = Level2(disk[w][i])
      BY InOrder2
    <3>2. PICK f : /\ Joined(f, P, Links) /\ InOrder(w, Level2) = f[Links]
                   /\ \A i \in 0 .. Links - 1 : P[i] = Level2(disk[w][i])
      BY <3>1
    <3>3. \A i \in 0 .. Links - 1 : P[i] \in Seq(Word)
      BY <1>3, <1>5, <2>1, <3>2
    <3>4. f[Links] \in Seq(Word)
      BY <1>1, <3>2, <3>3, JoinedSeq
    <3> QED BY <2>1, <3>2, <3>4 DEF Level3
  <2> QED BY <2>1 DEF Level3
<1>7. \A k \in 0 .. TI_INDEX : ino.i_block[k] \in Word
  BY DEF TreeType
<1>8. /\ SI_INDEX \in 0 .. TI_INDEX /\ DI_INDEX \in 0 .. TI_INDEX /\ TI_INDEX \in 0 .. TI_INDEX
      /\ \A i \in 0 .. Direct - 1 : i \in 0 .. TI_INDEX
  BY <1>1, SMT DEF SI_INDEX, DI_INDEX, TI_INDEX
<1>9. PICK P : \E f : /\ Joined(f, P, Direct)
                      /\ \A i \in 0 .. Direct - 1 : P[i] = Level0(ino.i_block[i])
                      /\ BlocksOf(ino) = f[Direct] \o Level1(ino.i_block[SI_INDEX])
                            \o Level2(ino.i_block[DI_INDEX]) \o Level3(ino.i_block[TI_INDEX])
  BY DirectPart
<1>10. PICK f : /\ Joined(f, P, Direct)
                /\ \A i \in 0 .. Direct - 1 : P[i] = Level0(ino.i_block[i])
                /\ BlocksOf(ino) = f[Direct] \o Level1(ino.i_block[SI_INDEX])
                      \o Level2(ino.i_block[DI_INDEX]) \o Level3(ino.i_block[TI_INDEX])
  BY <1>9
<1>11. f[Direct] \in Seq(Word)
  <2>1. \A i \in 0 .. Direct - 1 : P[i] \in Seq(Word)
    BY <1>2, <1>7, <1>8, <1>10
  <2> QED BY <1>1, <1>10, <2>1, JoinedSeq
<1>12. PICK s0, s1, s2, s3 : /\ s0 = f[Direct] /\ s1 = Level1(ino.i_block[SI_INDEX])
                             /\ s2 = Level2(ino.i_block[DI_INDEX])
                             /\ s3 = Level3(ino.i_block[TI_INDEX])
  OBVIOUS
<1>13. s0 \in Seq(Word) /\ s1 \in Seq(Word) /\ s2 \in Seq(Word) /\ s3 \in Seq(Word)
  BY <1>4, <1>5, <1>6, <1>7, <1>8, <1>11, <1>12
<1>14. s0 \o s1 \o s2 \o s3 \in Seq(Word)
  BY <1>13
<1> QED BY <1>10, <1>12, <1>14

-----------------------------------------------------------------------------
(* Until a block of it is freed, a file in its removal is whole, and a kill *)
(* may leave it so.                                                         *)
LEMMA BlocksKept ==
  ASSUME UNCHANGED <<disk, dinode>>
  PROVE  BlocksOf(dinode)' = BlocksOf(dinode)
BY DEF BlocksOf, Level0, Level1, Level2, Level3, InOrder

LEMMA KeptNext ==
  ASSUME Good, Kept, [Next]_vars
  PROVE  Kept'
<1>1. CASE RemoveStart
  <2>1. /\ UNCHANGED <<disk, used, dinode>> /\ todo' = BlocksOf(dinode) /\ pc = "rest"
    BY <1>1 DEF RemoveStart, dev
  <2>2. Tree(dinode, disk, used) /\ TreeType(dinode, disk)
    BY <2>1 DEF Good, Typed, Planted, Removing, TreeType, Inodes
  <2>3. BlocksOf(dinode)' = BlocksOf(dinode) /\ BlocksOf(dinode) \in Seq(Word)
    BY <2>1, <2>2, BlocksKept, BlocksTyped
  <2>4. Len(BlocksOf(dinode)) \in Nat
    BY <2>3
  <2> QED BY <2>1, <2>2, <2>3, <2>4 DEF Kept
<1>2. CASE RemoveBlock
  <2>1. /\ UNCHANGED <<disk, dinode>> /\ todo # <<>> /\ Removal /\ Kept
    BY <1>2 DEF RemoveBlock, Removal
  <2>2. BlocksOf(dinode)' = BlocksOf(dinode)
    BY <2>1, BlocksKept
  <2>3. CASE UNCHANGED <<todo, used>>
    BY <2>1, <2>2, <2>3 DEF Kept, Begun
  <2>4. CASE todo' = Tail(todo)
    <3> DEFINE n == Len(BlocksOf(dinode))
    <3>1. todo \in Seq(Word) /\ n \in Nat /\ Len(todo) <= n
      BY <2>1 DEF Kept
    <3> HIDE DEF n
    <3>2. Tail(todo) \in Seq(Word) /\ Len(Tail(todo)) = Len(todo) - 1 /\ Len(todo) \in Nat
      BY <2>1, <3>1
    <3>3. Len(Tail(todo)) < n
      BY <3>1, <3>2, SMT
    <3> QED BY <2>2, <2>4, <3>1, <3>2, <3>3 DEF Kept, Begun, n
  <2> QED BY <1>2, <2>3, <2>4 DEF RemoveBlock
<1>3. CASE UNCHANGED vars
  <2>1. UNCHANGED <<disk, used, dinode, pc, todo>>
    BY <1>3 DEF vars, dev, locs
  <2> QED BY <2>1, BlocksKept DEF Kept, Begun, Removal
<1>4. ASSUME ~RemoveStart, ~RemoveBlock, ~UNCHANGED vars PROVE ~Removal'
  <2>1. CASE Open \/ (\E r \in Writes : WriteStart(r)) \/ (\E r \in Reads : ReadStart(r)) \/ Crash
    BY <2>1 DEF Open, WriteStart, ReadStart, Crash, Removal
  <2>2. CASE Step
    BY <1>4, <2>2 DEF Step, WriteBlock, WriteNoSpace, AllocData, ChainIndex, LinkIndex, LinkInode,
       Commit, CommitSuper, WriteEnd, ReadBlock, ReadEnd, RemoveEnd, Removal
  <2> QED BY <1>4, <2>1, <2>2 DEF Next, Stopped
<1> QED BY <1>1, <1>2, <1>3, <1>4 DEF Kept

LEMMA DamageStays ==
  ASSUME damaged, [Next]_vars
  PROVE  damaged'
BY DEF damaged, Next, Step, vars, bnd, Open, WriteStart, ReadStart, RemoveStart, Crash, Stopped,
       WriteBlock, WriteNoSpace, AllocData, ChainIndex, LinkIndex, LinkInode, Commit,
       CommitSuper, WriteEnd, ReadBlock, ReadEnd, RemoveBlock, RemoveEnd,
       Allocated, NotAllocated

(* The invariant, which damage ends for good. *)
FileInv == damaged \/ (Good /\ Kept)

LEMMA FileInvariant == Spec => []FileInv
<1>1. Init => FileInv
  BY InitGood DEF FileInv, Kept, Removal, Init
<1>2. FileInv /\ [Next]_vars => FileInv'
  BY NextGood, KeptNext, DamageStays DEF FileInv
<1> QED BY <1>1, <1>2, PTL DEF Spec

(* A step that damages a file is one of a write, or a crash in its removal. *)
LEMMA NextDamage ==
  ASSUME Good, [Next]_vars, ~damaged, damaged'
  PROVE  Abstract!Damage
<1>1. CASE Crash
  <2>1. Removal /\ UNCHANGED <<disk, dinode>> /\ crashes' = crashes + 1 /\ req' = NoRequest
    BY <1>1 DEF Crash, damaged, dev
  <2>2. req = NoRequest
    BY <2>1 DEF Good, Asked, Writing, Removal
  <2>3. Content' = Content
    BY <2>1, SameAll, WordsKept
  <2> QED BY <2>1, <2>2, <2>3 DEF Abstract!Damage, Abstract!Abort, Abstract!NoRequest, NoRequest
<1>2. ASSUME ~Crash PROVE (AllocData \/ ChainIndex)
  BY <1>2 DEF damaged, Next, Step, vars, bnd, Open, WriteStart, ReadStart, RemoveStart, Stopped,
       WriteBlock, WriteNoSpace, LinkIndex, LinkInode, Commit,
       CommitSuper, WriteEnd, ReadBlock, ReadEnd, RemoveBlock, RemoveEnd
<1>3. CASE AllocData \/ ChainIndex
  <2>1. pc \in {"write", "chain"} /\ UNCHANGED <<req, crashes>>
    BY <1>3 DEF AllocData, ChainIndex
  <2>2. req \in Writes
    BY <2>1 DEF Good, Asked, Writing
  <2>3. req # NoRequest
    BY <2>2, RequestFits DEF NoRequest
  <2> QED BY <2>1, <2>3 DEF Abstract!Damage, Abstract!NoRequest, NoRequest
<1> QED BY <1>1, <1>2, <1>3

(* The index block that the iterator of a handle keeps in memory is never   *)
(* stale when it is used, and what read_file_ext2 delivers is what the file *)
(* holds: for every number of links in a block and every request, across    *)
(* the growth of the tree and crashes, until the file is damaged.           *)
THEOREM IteratorNeverStale == Spec => []IteratorCoherent
<1>1. FileInv => IteratorCoherent
  <2> SUFFICES ASSUME Good PROVE IteratorCoherent
    BY DEF FileInv, IteratorCoherent
  <2>1. ASSUME pc \in {"rest", "write", "read"} PROVE Current = Lookup(inode, it.offset)
    <3>1. it = Iter(inode, disk, Here, it.offset) /\ it.offset \in Offsets
      BY <2>1 DEF Good, Placed, Typed
    <3> QED BY <3>1, CurrentHere, LookupIs DEF Here
  <2>2. \A i \in DOMAIN rd.words : rd.words[i] = WordAt(rd.off + i - 1)
    BY DEF Good, Delivered
  <2> QED BY <2>1, <2>2 DEF IteratorCoherent
<1> QED BY <1>1, FileInvariant, PTL

(* A file is the sparse array of words that SparseFile describes: of every  *)
(* size the tree can hold, with a crash at any step.  It is damaged only in *)
(* a write, or by a crash in its removal, which leaves what it holds.       *)
THEOREM FileImplementsSparse == Spec => ImplementsSparseFile
<1>1. Init => Abstract!Init
  BY InitGood DEF Init, Abstract!Init, damaged
<1>2. FileInv /\ [Next]_vars => [Abstract!Next]_(Abstract!vars)
  <2> SUFFICES ASSUME FileInv, [Next]_vars PROVE [Abstract!Next]_(Abstract!vars)
    OBVIOUS
  <2>1. CASE damaged
    <3>1. damaged'
      BY <2>1, DamageStays
    <3> QED BY <2>1, <3>1, Zenon DEF Abstract!Next
  <2>2. CASE ~damaged /\ damaged'
    BY <2>2, NextDamage, Zenon DEF FileInv, Abstract!Next
  <2>3. CASE ~damaged /\ ~damaged'
    <3>1. [Abstract!Deed]_(Abstract!file)
      BY <2>3, NextGood DEF FileInv
    <3>2. damaged' = damaged
      BY <2>3 DEF damaged
    <3> QED BY <3>1, <3>2, Zenon DEF Abstract!Next, Abstract!vars
  <2> QED BY <2>1, <2>2, <2>3
<1> QED BY <1>1, <1>2, FileInvariant, PTL DEF Spec, ImplementsSparseFile, Abstract!Spec

(* ASSERT(blk_iterator_get_blk_index(it) == first_new_blk) at the end of    *)
(* allocate_new_data_block can only fail on a damaged file.                 *)
THEOREM NewBlockFound == Spec => [](pc = "wrong_block" => damaged)
<1>1. FileInv => (pc = "wrong_block" => damaged)
  BY DEF FileInv, Good, Saved
<1> QED BY <1>1, FileInvariant, PTL

-----------------------------------------------------------------------------
(* Where no block is on its way into the tree or out of it.                 *)
Quiet == {"rest", "write", "read", "no_block"}

(* Without a crash no block is lost: the blocks in use are those of the     *)
(* tree and of the branch that grows beside it, and s_free_blocks_count and *)
(* i_blocks lag behind by the n of allocate_new_data_block.                 *)
Counted == crashes = 0 =>
  /\ pc # "orphan" /\ free \in Nat /\ dfree = free
  /\ free + Cardinality(used) = NumBlocks + IF pc \in {"chain", "commit", "super"} THEN ch.n ELSE 0
  /\ pc \notin Removing =>
       Cardinality(used) = inode.i_blocks + IF pc \in {"chain", "commit"} THEN ch.n ELSE 0
  /\ pc \in Quiet \cup {"commit", "super"} => used = NodesOf(inode, disk)
  /\ pc = "chain" => \A c : c[ch.j] = ch.child /\ Branch(inode, disk, Here, ch.j, c) =>
                       used = NodesOf(inode, disk) \cup {c[k] : k \in ch.j .. mode_of(Here)}

(* What is still to be freed is marked, and without a crash it is all.      *)
Listed ==
  /\ pc # "not_used" /\ crashes \in Nat
  /\ pc = "remove" =>
       \E T \in SUBSET used : Enumerates(todo, T) /\ (crashes = 0 => T = used)
  /\ pc = "super" => Current # 0
  /\ pc = "no_block" => free = 0

Sound == Good /\ Kept /\ Counted /\ Listed

LEMMA QuietKeeps ==
  ASSUME Sound, pc \in Quiet, pc' \in Quiet, pc' = "no_block" => free = 0,
         UNCHANGED <<used, free, crashes>>, dfree' \in {dfree, free},
         NodesOf(inode', disk') = NodesOf(inode, disk), inode'.i_blocks = inode.i_blocks
  PROVE  Counted' /\ Listed'
<1>1. Counted'
  BY DEF Sound, Counted, Quiet, Removing
<1>2. Listed'
  BY DEF Sound, Listed, Quiet
<1> QED BY <1>1, <1>2

LEMMA OpenCounts ==
  ASSUME Sound, Open
  PROVE  Counted' /\ Listed'
<1>1. inode' = inode /\ UNCHANGED <<disk, used, dfree, free, crashes, pc>> /\ pc = "rest"
  BY DEF Sound, Good, Saved, Open, dev, bnd
<1> QED BY <1>1, QuietKeeps DEF Quiet

LEMMA WriteStartCounts ==
  ASSUME Sound, NEW r \in Writes, WriteStart(r)
  PROVE  Counted' /\ Listed'
<1>1. UNCHANGED <<disk, used, dfree, free, crashes, inode>> /\ pc = "rest" /\ pc' = "write"
  BY DEF WriteStart, dev
<1> QED BY <1>1, QuietKeeps DEF Quiet

LEMMA ReadStartCounts ==
  ASSUME Sound, NEW r \in Reads, ReadStart(r)
  PROVE  Counted' /\ Listed'
<1>1. UNCHANGED <<disk, used, dfree, free, crashes, inode>> /\ pc = "rest" /\ pc' = "read"
  BY DEF ReadStart, dev
<1> QED BY <1>1, QuietKeeps DEF Quiet

LEMMA ReadBlockCounts ==
  ASSUME Sound, ReadBlock
  PROVE  Counted' /\ Listed'
<1>1. UNCHANGED <<disk, used, dfree, free, crashes, inode, pc>> /\ pc = "read"
  BY DEF ReadBlock, dev, bnd
<1> QED BY <1>1, QuietKeeps DEF Quiet

LEMMA ReadEndCounts ==
  ASSUME Sound, ReadEnd
  PROVE  Counted' /\ Listed'
<1>1. UNCHANGED <<disk, used, dfree, free, crashes, inode>> /\ pc = "read" /\ pc' = "rest"
  BY DEF ReadEnd, mem, bnd
<1> QED BY <1>1, QuietKeeps DEF Quiet

LEMMA WriteNoSpaceCounts ==
  ASSUME Sound, WriteNoSpace
  PROVE  Counted' /\ Listed'
<1>1. /\ UNCHANGED <<disk, used, dfree, free, crashes, inode>>
      /\ pc = "write" /\ pc' = "no_block" /\ free = 0
  BY DEF WriteNoSpace, dev, mem, bnd
<1> QED BY <1>1, QuietKeeps DEF Quiet

LEMMA WriteEndCounts ==
  ASSUME Sound, WriteEnd
  PROVE  Counted' /\ Listed'
<1>1. /\ UNCHANGED <<disk, used, free, crashes>> /\ dfree' = free
      /\ pc = "write" /\ pc' = "rest" /\ inode' = [inode EXCEPT !.i_size = EndSize]
      /\ inode \in Inodes
  BY DEF WriteEnd, bnd, Sound, Good, Typed
<1>2. inode'.i_block = inode.i_block /\ inode'.i_blocks = inode.i_blocks
  BY <1>1 DEF Inodes
<1>3. NodesOf(inode', disk') = NodesOf(inode, disk)
  <2>1. Unmoved(inode, disk, inode', disk)
    BY <1>2, SameBlocks
  <2> QED BY <1>1, <2>1, SameNodesOf DEF Unmoved
<1> QED BY <1>1, <1>2, <1>3, QuietKeeps DEF Quiet

LEMMA WriteBlockCounts ==
  ASSUME Sound, WriteBlock
  PROVE  Counted' /\ Listed'
<1>1. /\ UNCHANGED <<used, free, dfree, crashes, inode, pc>> /\ pc = "write" /\ Current # 0
      /\ TreeType(inode, disk) /\ Apart(inode, disk)
      /\ it = Iter(inode, disk, Here, it.offset) /\ it.offset \in Offsets
      /\ Here \in FileBlocks
  BY HereIs DEF WriteBlock, bnd, Sound, Good, Typed, Planted, Placed, Tree, TreeType, Inodes, Removing
<1>2. Current = Node(inode, disk, Here, mode_of(Here))
  BY <1>1, CurrentHere
<1>3. \A q \in Blk : q # Current => disk'[q] = disk[q]
  BY <1>1 DEF WriteBlock, TreeType
<1>4. DataWritten(inode, disk, disk', Here)
  BY <1>1, <1>2, <1>3, DataBlock
<1>5. NodesOf(inode', disk') = NodesOf(inode, disk)
  BY <1>1, <1>4, SameNodesOf DEF DataWritten
<1> QED BY <1>1, <1>5, QuietKeeps DEF Quiet

LEMMA UsedFinite ==
  ASSUME Typed
  PROVE  /\ IsFiniteSet(used) /\ Cardinality(used) \in Nat /\ Cardinality(used) <= NumBlocks
         /\ IsFiniteSet(Blk) /\ Cardinality(Blk) = NumBlocks
<1>1. NumBlocks \in Nat /\ used \in SUBSET Blk
  BY FileAssumption DEF Typed
<1>2. IsFiniteSet(Blk) /\ Cardinality(Blk) = NumBlocks
  <2>1. 1 \in Int /\ NumBlocks \in Int
    BY <1>1
  <2>2. IsFiniteSet(1 .. NumBlocks)
        /\ Cardinality(1 .. NumBlocks) = IF 1 > NumBlocks THEN 0 ELSE NumBlocks - 1 + 1
    BY <2>1, FS_Interval
  <2> QED BY <1>1, <2>2, SMT DEF Blk
<1> QED BY <1>1, <1>2, FS_Subset, FS_CardinalityType

LEMMA AllocDataCounts ==
  ASSUME Sound, AllocData, ~starved'
  PROVE  Counted' /\ Listed'
<1>1. /\ pc = "write" /\ pc' = "chain" /\ UNCHANGED <<free, dfree, crashes, inode, dinode, it>>
      /\ Typed /\ inode = dinode
      /\ it = Iter(inode, disk, Here, it.offset) /\ it.offset \in Offsets
      /\ mode_of(Here) \in 0 .. 3 /\ it.mode = mode_of(Here) /\ Here' = Here
  BY HereIs, PathHere DEF AllocData, mem, Sound, Good, Typed, Saved, Placed, Here
<1>2. PICK b \in Blk \ used :
         /\ used' = used \cup {b} /\ disk' = [disk EXCEPT ![b] = ZeroBlock]
         /\ ch' = [child |-> b, first |-> b, n |-> 1, j |-> it.mode]
  BY DEF AllocData, Allocated, NotAllocated
<1>3. NodesOf(inode', disk') = NodesOf(inode, disk)
  <2>1. \A q \in Blk : q # b => disk'[q] = disk[q]
    BY <1>1, <1>2 DEF Typed
  <2>2. \A d \in FileBlocks : \A l \in 0 .. mode_of(d) : Node(inode, disk', d, l) = Node(inode, disk, d, l)
    BY <1>1, <1>2, <2>1, FreshBlock DEF Sound, Removing
  <2> QED BY <1>1, <2>2, SameNodesOf
<1>4. ASSUME crashes' = 0
      PROVE  /\ pc' # "orphan" /\ free' \in Nat /\ dfree' = free'
             /\ free' + Cardinality(used') = NumBlocks + ch'.n
             /\ Cardinality(used') = inode'.i_blocks + ch'.n
             /\ \A c : c[ch'.j] = ch'.child =>
                   used' = NodesOf(inode', disk') \cup {c[k] : k \in ch'.j .. mode_of(Here)}
  <2>1. /\ free \in Nat /\ dfree = free /\ free + Cardinality(used) = NumBlocks
        /\ Cardinality(used) = inode.i_blocks /\ used = NodesOf(inode, disk)
    <3>1. /\ free + Cardinality(used) = NumBlocks + 0 /\ Cardinality(used) = inode.i_blocks + 0
          /\ free \in Nat /\ dfree = free /\ used = NodesOf(inode, disk) /\ inode \in Inodes
      BY <1>1, <1>4 DEF Sound, Counted, Quiet, Removing, Typed
    <3> QED BY <1>1, <3>1, FileAssumption, UsedFinite, SMT DEF Inodes
  <2>2. Cardinality(used') = Cardinality(used) + 1
    BY <1>1, <1>2, UsedFinite, FS_AddElement
  <2>3. ch'.n = 1 /\ ch'.j = mode_of(Here) /\ ch'.child = b
    BY <1>1, <1>2
  <2>4. ASSUME NEW c, c[ch'.j] = ch'.child
        PROVE  used' = NodesOf(inode', disk') \cup {c[k] : k \in ch'.j .. mode_of(Here)}
    <3>1. \A k : k \in mode_of(Here) .. mode_of(Here) <=> k = mode_of(Here)
      BY <1>1, SMT
    <3>2. {c[k] : k \in ch'.j .. mode_of(Here)} = {b}
      BY <2>3, <2>4, <3>1
    <3> QED BY <1>2, <1>3, <2>1, <3>2
  <2>5. free + (Cardinality(used) + 1) = NumBlocks + 1
    BY <1>1, <2>1, UsedFinite, FileAssumption, SMT
  <2> QED BY <1>1, <2>1, <2>2, <2>3, <2>4, <2>5
<1>5. Counted'
  BY <1>1, <1>4 DEF Counted, Quiet
<1>6. Listed'
  BY <1>1 DEF Sound, Listed
<1> QED BY <1>5, <1>6

LEMMA ChainIndexCounts ==
  ASSUME Sound, ChainIndex, ~starved'
  PROVE  Counted' /\ Listed'
<1> DEFINE m == mode_of(Here)
           j == ch.j
<1>1. /\ pc = "chain" /\ pc' = "chain" /\ UNCHANGED <<free, dfree, crashes, inode, dinode, it>>
      /\ Typed /\ ch.child \in Word /\ ch.n \in Nat
      /\ it.index = index_of(Here) /\ Here \in FileBlocks /\ Here' = Here
      /\ j > 0 /\ j \in 0 .. m /\ it.blks_blk[j] = 0 /\ inode = dinode
      /\ it = Iter(inode, disk, Here, it.offset) /\ it.offset \in Offsets
  BY ChainReady DEF ChainIndex, mem, Sound, Good, Typed, Here
<1>2. PICK b \in Blk \ used :
         /\ used' = used \cup {b}
         /\ disk' = [k \in Blk |-> IF k = b
                                   THEN [ZeroBlock EXCEPT ![it.index[ch.j]] = ch.child]
                                   ELSE disk[k]]
         /\ ch' = [ch EXCEPT !.child = b, !.n = @ + 1, !.j = @ - 1]
  BY DEF ChainIndex, Allocated, NotAllocated
<1>3. ch'.child = b /\ ch'.n = ch.n + 1 /\ ch'.j = j - 1
  BY <1>1, <1>2 DEF Typed
<1>4. /\ m \in 0 .. 3 /\ j \in 1 .. m /\ j \in 0 .. 3 /\ j - 1 \in 0 .. 3 /\ j - 1 <= j
      /\ j - 1 + 1 = j /\ j - 1 \in j - 1 .. m - 1 /\ j - 1 \in j - 1 .. m
      /\ j \in j .. m /\ m \in j .. m
      /\ \A k : k \in j - 1 .. m <=> k = j - 1 \/ k \in j .. m
      /\ \A k \in j .. m : k # j - 1 /\ k \in j - 1 .. m
      /\ \A k \in j .. m - 1 : k \in j .. m /\ k \in j - 1 .. m - 1
  <2>1. m \in 0 .. 3
    BY <1>1, HereIs
  <2> HIDE DEF m, j
  <2> QED BY <1>1, <2>1, SMT
<1>5. \A d \in FileBlocks : \A l \in 0 .. mode_of(d) : Node(inode, disk', d, l) = Node(inode, disk, d, l)
  <2>1. \A q \in Blk : q # b => disk'[q] = disk[q]
    BY <1>1, <1>2 DEF Typed
  <2> QED BY <1>1, <1>2, <2>1, FreshBlock DEF Sound, Removing
<1>6. NodesOf(inode', disk') = NodesOf(inode, disk)
  BY <1>1, <1>5, SameNodesOf
<1>7. Node(inode, disk, Here, j) = 0
  <2>1. Node(inode, disk, Here, j - 1) = 0
    BY <1>1, <1>4, PathHere
  <2> HIDE DEF j, m
  <2> QED BY <1>4, <2>1, NodesMissing
<1>8. ASSUME NEW c, c[j - 1] = b, Branch(inode, disk', Here, j - 1, c)
      PROVE  c[j] = ch.child /\ Branch(inode, disk, Here, j, c)
  <2> HIDE DEF j, m
  <2>1. /\ \A k \in j - 1 .. m :
              /\ c[k] \in Blk
              /\ \A d \in FileBlocks : \A l \in 0 .. mode_of(d) : Node(inode, disk', d, l) # c[k]
        /\ \A k, l \in j - 1 .. m : c[k] = c[l] => k = l
        /\ \A k \in j - 1 .. m - 1 :
              disk'[c[k]] = [ZeroBlock EXCEPT ![index_of(Here)[k + 1]] = c[k + 1]]
        /\ disk'[c[m]] = ZeroBlock
    BY <1>8 DEF Branch, m
  <2>2. c[j] = ch.child
    <3>1. disk'[b] = [ZeroBlock EXCEPT ![index_of(Here)[j]] = c[j]]
      BY <1>4, <1>8, <2>1
    <3>2. disk'[b] = [ZeroBlock EXCEPT ![index_of(Here)[j]] = ch.child]
      BY <1>1, <1>2 DEF j
    <3>3. index_of(Here)[j] \in 0 .. Links - 1
      BY <1>1, <1>4, PathFacts
    <3>4. /\ [ZeroBlock EXCEPT ![index_of(Here)[j]] = c[j]][index_of(Here)[j]] = c[j]
          /\ [ZeroBlock EXCEPT ![index_of(Here)[j]] = ch.child][index_of(Here)[j]] = ch.child
      BY <3>3 DEF ZeroBlock
    <3> QED BY <3>1, <3>2, <3>4
  <2>3. \A k \in j .. m : c[k] \in Blk /\ c[k] # b
    BY <1>4, <1>8, <2>1
  <2>4. \A k \in j .. m : disk'[c[k]] = disk[c[k]]
    BY <1>2, <2>3
  <2>5. \A k \in j .. m : \A d \in FileBlocks : \A l \in 0 .. mode_of(d) : Node(inode, disk, d, l) # c[k]
    BY <1>4, <1>5, <2>1
  <2>6. \A k, l \in j .. m : c[k] = c[l] => k = l
    BY <1>4, <2>1
  <2>7. \A k \in j .. m - 1 : disk[c[k]] = [ZeroBlock EXCEPT ![index_of(Here)[k + 1]] = c[k + 1]]
    BY <1>4, <2>1, <2>4
  <2>8. disk[c[m]] = ZeroBlock
    BY <1>4, <2>1, <2>4
  <2> QED BY <1>7, <2>2, <2>3, <2>5, <2>6, <2>7, <2>8 DEF Branch, m
<1>9. ASSUME crashes' = 0
      PROVE  /\ pc' # "orphan" /\ free' \in Nat /\ dfree' = free'
             /\ free' + Cardinality(used') = NumBlocks + ch'.n
             /\ Cardinality(used') = inode'.i_blocks + ch'.n
             /\ \A c : c[ch'.j] = ch'.child /\ Branch(inode', disk', Here, ch'.j, c) =>
                   used' = NodesOf(inode', disk') \cup {c[k] : k \in ch'.j .. m}
  <2>1. /\ free \in Nat /\ dfree = free /\ free + Cardinality(used) = NumBlocks + ch.n
        /\ Cardinality(used) = inode.i_blocks + ch.n /\ inode.i_blocks \in Nat
        /\ \A c : c[j] = ch.child /\ Branch(inode, disk, Here, j, c) =>
              used = NodesOf(inode, disk) \cup {c[k] : k \in j .. m}
    BY <1>1, <1>9 DEF Sound, Counted, Removing, Typed, Inodes
  <2>2. Cardinality(used') = Cardinality(used) + 1
    BY <1>1, <1>2, UsedFinite, FS_AddElement
  <2>3. /\ free + (Cardinality(used) + 1) = NumBlocks + (ch.n + 1)
        /\ Cardinality(used) + 1 = inode.i_blocks + (ch.n + 1)
    BY <1>1, <2>1, UsedFinite, FileAssumption, SMT
  <2>4. ASSUME NEW c, c[j - 1] = b, Branch(inode, disk', Here, j - 1, c)
        PROVE  used' = NodesOf(inode', disk') \cup {c[k] : k \in j - 1 .. m}
    <3>1. used = NodesOf(inode, disk) \cup {c[k] : k \in j .. m}
      BY <1>8, <2>1, <2>4
    <3> HIDE DEF j, m
    <3>2. {c[k] : k \in j - 1 .. m} = {c[k] : k \in j .. m} \cup {b}
      BY <1>4, <2>4
    <3> QED BY <1>2, <1>6, <3>1, <3>2
  <2> HIDE DEF m, j
  <2> QED BY <1>1, <1>3, <2>1, <2>2, <2>3, <2>4
<1>10. Counted'
  BY <1>1, <1>9 DEF Counted, Quiet
<1>11. Listed'
  BY <1>1 DEF Sound, Listed
<1> QED BY <1>10, <1>11

(* The branch that was hung in is the part of used that the tree lacked.    *)
LEMMA LinkCounts ==
  ASSUME Sound, pc = "chain", pc' = "commit", UNCHANGED <<used, free, dfree, crashes, ch>>,
         inode'.i_blocks = inode.i_blocks,
         Hung(inode, disk, inode', disk', Here, ch.j, ch.child)
  PROVE  Counted' /\ Listed'
<1>1. /\ Good /\ Counted /\ TreeType(inode, disk) /\ Apart(inode, disk)
      /\ Here \in FileBlocks /\ ch.j \in 0 .. mode_of(Here)
  BY ChainReady DEF Sound, Tree
<1>2. PICK c : c[ch.j] = ch.child /\ Branch(inode, disk, Here, ch.j, c)
  BY <1>1, ChainReady
<1>3. NodesOf(inode', disk') = NodesOf(inode, disk) \cup {c[k] : k \in ch.j .. mode_of(Here)}
  BY <1>1, <1>2, GraftNodes
<1>4. Counted'
  BY <1>1, <1>2, <1>3 DEF Counted, Quiet, Removing
<1>5. Listed'
  BY DEF Sound, Listed
<1> QED BY <1>4, <1>5

LEMMA LinkIndexCounts ==
  ASSUME Sound, LinkIndex
  PROVE  Counted' /\ Listed'
<1>1. /\ pc = "chain" /\ pc' = "commit" /\ UNCHANGED <<used, free, dfree, crashes, ch, inode>>
      /\ ch.j > 0 /\ it.blks_blk[ch.j] # 0
      /\ disk' = [disk EXCEPT ![it.blks_blk[ch.j]][it.index[ch.j]] = ch.child]
  BY DEF LinkIndex, mem, locs, bnd
<1>2. /\ it = Iter(inode, disk, Here, it.offset) /\ it.offset \in Offsets
      /\ Here \in FileBlocks /\ ch.j \in 0 .. mode_of(Here) /\ it.index = index_of(Here)
      /\ mode_of(Here) \in 0 .. 3
  BY <1>1, ChainReady, HereIs DEF Sound
<1>3. it.blks_blk[ch.j] = Node(inode, disk, Here, ch.j - 1)
  <2>1. ch.j \in 1 .. mode_of(Here)
    BY <1>1, <1>2, SMT
  <2> QED BY <1>2, <2>1, PathHere
<1>4. Hung(inode, disk, inode', disk', Here, ch.j, ch.child)
  BY <1>1, <1>2, <1>3 DEF Hung
<1> QED BY <1>1, <1>4, LinkCounts

LEMMA LinkInodeCounts ==
  ASSUME Sound, LinkInode
  PROVE  Counted' /\ Listed'
<1>1. /\ pc = "chain" /\ pc' = "commit" /\ UNCHANGED <<disk, used, free, dfree, crashes, ch>>
      /\ ch.j = 0 /\ inode' = [inode EXCEPT !.i_block[it.index[0]] = ch.child]
      /\ inode \in Inodes /\ it.index = index_of(Here)
  BY ChainReady DEF LinkInode, dev, locs, bnd, Sound, Good, Typed
<1>2. /\ inode'.i_block = [inode.i_block EXCEPT ![index_of(Here)[0]] = ch.child]
      /\ inode'.i_blocks = inode.i_blocks
  BY <1>1 DEF Inodes
<1>3. Hung(inode, disk, inode', disk', Here, ch.j, ch.child)
  BY <1>1, <1>2 DEF Hung
<1> QED BY <1>1, <1>2, <1>3, LinkCounts

LEMMA CommitCounts ==
  ASSUME Sound, Commit
  PROVE  Counted' /\ Listed'
<1>1. /\ Good /\ Typed /\ pc = "commit" /\ UNCHANGED <<disk, used, free, dfree, crashes, ch>>
      /\ it' = blk_iterator_init(inode, disk, it.offset) /\ it.offset \in Offsets
      /\ inode \in Inodes /\ ch.n \in Nat /\ ch.first # 0
      /\ Node(inode, disk, Here, mode_of(Here)) = ch.first
  BY DEF Sound, Good, Typed, Grown, Commit, Refreshed, locs, bnd
<1>2. it' = Iter(inode, disk, Here, it.offset)
  BY <1>1, InitIs DEF Here
<1>3. blk_iterator_get_blk_index(it') = ch.first
  BY <1>1, <1>2, HereIs, CurrentIs
<1>4. /\ pc' = "super" /\ inode'.i_block = inode.i_block
      /\ inode'.i_blocks = inode.i_blocks + ch.n /\ Current' # 0
  BY <1>1, <1>3 DEF Commit, Inodes, Current
<1>5. NodesOf(inode', disk') = NodesOf(inode, disk)
  <2>1. Unmoved(inode, disk, inode', disk)
    BY <1>4, SameBlocks
  <2> QED BY <1>1, <2>1, SameNodesOf DEF Unmoved
<1>6. Counted'
  <2>1. ASSUME crashes = 0
        PROVE  /\ free \in Nat /\ dfree = free /\ free + Cardinality(used) = NumBlocks + ch.n
               /\ Cardinality(used) = inode.i_blocks + ch.n /\ used = NodesOf(inode, disk)
    BY <1>1, <2>1 DEF Sound, Counted, Quiet, Removing
  <2>2. crashes = 0 => Cardinality(used) = inode'.i_blocks + 0
    BY <1>1, <1>4, <2>1, SMT DEF Inodes
  <2> QED BY <1>1, <1>4, <1>5, <2>1, <2>2 DEF Counted, Quiet
<1>7. Listed'
  BY <1>1, <1>4 DEF Sound, Listed
<1> QED BY <1>6, <1>7

LEMMA CommitSuperCounts ==
  ASSUME Sound, CommitSuper
  PROVE  Counted' /\ Listed'
<1>1. /\ Typed /\ pc = "super" /\ UNCHANGED <<disk, used, inode, it, crashes>>
      /\ free' = Sub32(free, ch.n) /\ dfree' = free' /\ Current # 0 /\ pc' = "write"
      /\ ch.n \in Nat
  BY DEF Sound, Good, Typed, Listed, CommitSuper, Charged, bnd
<1>2. Counted'
  <2>1. ASSUME crashes = 0
        PROVE  free' \in Nat /\ free' + Cardinality(used) = NumBlocks + 0
    <3>1. free \in Nat /\ free + Cardinality(used) = NumBlocks + ch.n
      BY <1>1, <2>1 DEF Sound, Counted
    <3> QED BY <1>1, <3>1, UsedFinite, FileAssumption, SMT DEF Sub32
  <2> QED BY <1>1, <2>1 DEF Sound, Counted, Quiet, Removing
<1>3. Listed'
  BY <1>1 DEF Sound, Listed
<1> QED BY <1>2, <1>3

LEMMA RemoveStartCounts ==
  ASSUME Sound, RemoveStart
  PROVE  Counted' /\ Listed'
<1>1. /\ pc = "rest" /\ pc' = "remove" /\ UNCHANGED <<disk, used, free, dfree, crashes>>
      /\ inode = dinode /\ inode' = inode /\ todo' = BlocksOf(inode)
      /\ TreeType(inode, disk) /\ Apart(inode, disk) /\ MarkedIn(inode, disk, used)
  BY DEF Sound, Good, Typed, Saved, Planted, Tree, TreeType, Inodes, Removing, RemoveStart, dev
<1>2. Enumerates(todo', NodesOf(inode, disk)) /\ NodesOf(inode, disk) \subseteq used
  BY <1>1, CollectsAll, MarkedNodes
<1>3. crashes = 0 => NodesOf(inode, disk) = used
  BY <1>1 DEF Sound, Counted, Quiet
<1>4. Listed'
  BY <1>1, <1>2, <1>3 DEF Sound, Listed
<1>5. Counted'
  BY <1>1 DEF Sound, Counted, Quiet, Removing
<1> QED BY <1>4, <1>5

LEMMA RemoveBlockCounts ==
  ASSUME Sound, RemoveBlock
  PROVE  Counted' /\ Listed'
<1>1. Typed /\ pc = "remove" /\ todo # <<>> /\ UNCHANGED crashes
  BY DEF Sound, Good, RemoveBlock, bnd
<1>2. PICK T \in SUBSET used : Enumerates(todo, T) /\ (crashes = 0 => T = used)
  BY <1>1 DEF Sound, Listed
<1>3. Head(todo) \in T /\ Enumerates(Tail(todo), T \ {Head(todo)})
  BY <1>1, <1>2, EnumeratesRest
<1>4. /\ used' = used \ {Head(todo)} /\ dfree' = free'
      /\ free' = IF free = U32 - 1 THEN 0 ELSE free + 1
      /\ todo' = Tail(todo) /\ pc' = "remove"
  BY <1>1, <1>2, <1>3 DEF RemoveBlock
<1>5. Listed'
  <2>1. T \ {Head(todo)} \in SUBSET used'
    BY <1>4
  <2> QED BY <1>1, <1>2, <1>3, <1>4, <2>1 DEF Sound, Listed
<1>6. Counted'
  <2>1. ASSUME crashes = 0
        PROVE  free' \in Nat /\ free' + Cardinality(used') = NumBlocks + 0
    <3>1. free \in Nat /\ free + Cardinality(used) = NumBlocks + 0
      BY <1>1, <2>1 DEF Sound, Counted
    <3>2. Cardinality(used') = Cardinality(used) - 1 /\ Cardinality(used') \in Nat
      BY <1>1, <1>2, <1>3, <1>4, UsedFinite, FS_RemoveElement, FS_CardinalityType
    <3>3. free + 1 <= NumBlocks /\ NumBlocks < U32
      BY <1>1, <3>1, <3>2, UsedFinite, FileAssumption, SMT
    <3>4. free' = free + 1
      BY <1>4, <3>1, <3>3, U32Assumption, FileAssumption, SMT
    <3> QED BY <1>1, <3>1, <3>2, <3>4, UsedFinite, FileAssumption, SMT
  <2> QED BY <1>1, <1>4, <2>1 DEF Counted, Quiet, Removing
<1> QED BY <1>5, <1>6

LEMMA RemoveEndCounts ==
  ASSUME Sound, RemoveEnd
  PROVE  Counted' /\ Listed'
<1>1. /\ pc = "remove" /\ todo = <<>> /\ pc' = "rest" /\ inode' = EmptyInode
      /\ UNCHANGED <<disk, used, free, dfree, crashes>>
  BY DEF RemoveEnd, locs, bnd
<1>2. Listed'
  BY <1>1 DEF Sound, Listed
<1>3. Counted'
  <2>1. ASSUME crashes = 0
        PROVE  /\ free \in Nat /\ dfree = free /\ free + Cardinality(used) = NumBlocks + 0
               /\ Cardinality(used) = inode'.i_blocks + 0 /\ used = NodesOf(inode', disk)
    <3>1. free \in Nat /\ dfree = free /\ free + Cardinality(used) = NumBlocks + 0
      BY <1>1, <2>1 DEF Sound, Counted
    <3>2. used = {}
      <4>1. Enumerates(todo, used)
        BY <1>1, <2>1 DEF Sound, Listed
      <4> QED BY <1>1, <4>1, EnumeratesNothing
    <3>3. Cardinality(used) = inode'.i_blocks
      BY <1>1, <3>2, FS_EmptySet DEF EmptyInode
    <3>4. inode'.i_blocks = inode'.i_blocks + 0
      BY <1>1, SMT DEF EmptyInode
    <3> QED BY <1>1, <3>1, <3>2, <3>3, <3>4, NoNodes
  <2> QED BY <1>1, <2>1 DEF Counted, Quiet
<1> QED BY <1>2, <1>3

LEMMA CrashCounts ==
  ASSUME Sound, Crash
  PROVE  Counted' /\ Listed'
<1>1. /\ crashes' = crashes + 1 /\ crashes \in Nat /\ pc' \in {"rest", "orphan"}
  BY DEF Sound, Listed, Crash
<1>2. crashes' \in Nat /\ crashes' # 0
  BY <1>1, SMT
<1> QED BY <1>1, <1>2 DEF Counted, Listed

-----------------------------------------------------------------------------
LEMMA InitSound ==
  ASSUME Init
  PROVE  Sound
<1> USE DEF Init
<1>1. Good
  BY InitGood
<1>2. Cardinality(used) = 0 /\ used = NodesOf(inode, disk)
  BY FS_EmptySet, NoNodes
<1>3. Counted
  <2>1. free \in Nat /\ free + 0 = NumBlocks + 0 /\ inode.i_blocks + 0 = 0
    BY FileAssumption, SMT DEF EmptyInode
  <2> QED BY <1>2, <2>1 DEF Counted, Quiet
<1>4. Listed /\ Kept
  BY DEF Listed, Kept, Removal
<1> QED BY <1>1, <1>3, <1>4 DEF Sound

LEMMA NextSound ==
  ASSUME Sound, [Next]_vars, ~damaged'
  PROVE  Sound'
<1> USE DEF damaged
<1>0. Good' /\ Kept'
  BY NextGood, KeptNext DEF Sound
<1>1. CASE Open
  BY <1>0, <1>1, OpenCounts DEF Sound
<1>2. ASSUME NEW r \in Writes, WriteStart(r) PROVE Sound'
  BY <1>0, <1>2, WriteStartCounts DEF Sound
<1>3. ASSUME NEW r \in Reads, ReadStart(r) PROVE Sound'
  BY <1>0, <1>3, ReadStartCounts DEF Sound
<1>4. CASE RemoveStart
  BY <1>0, <1>4, RemoveStartCounts DEF Sound
<1>5. CASE Step
  <2>1. CASE WriteBlock \/ WriteNoSpace \/ WriteEnd \/ ReadBlock \/ ReadEnd
    BY <1>0, <2>1, WriteBlockCounts, WriteNoSpaceCounts, WriteEndCounts, ReadBlockCounts,
       ReadEndCounts DEF Sound
  <2>2. CASE AllocData \/ ChainIndex
    BY <1>0, <2>2, AllocDataCounts, ChainIndexCounts DEF Sound
  <2>3. CASE LinkIndex \/ LinkInode
    BY <1>0, <2>3, LinkIndexCounts, LinkInodeCounts DEF Sound
  <2>4. CASE Commit \/ CommitSuper
    BY <1>0, <2>4, CommitCounts, CommitSuperCounts DEF Sound
  <2>5. CASE RemoveBlock \/ RemoveEnd
    BY <1>0, <2>5, RemoveBlockCounts, RemoveEndCounts DEF Sound
  <2> QED BY <1>0, <1>5, <2>1, <2>2, <2>3, <2>4, <2>5 DEF Step, Sound
<1>6. CASE Crash
  BY <1>0, <1>6, CrashCounts DEF Sound
<1>7. CASE UNCHANGED vars
  <2>1. UNCHANGED <<disk, used, dfree, free, inode, it, pc, ch, todo, crashes>>
    BY <1>7 DEF vars, dev, mem, locs, bnd
  <2>2. Here' = Here /\ Current' = Current
    BY <2>1 DEF Here, Current
  <2>3. Counted' /\ Listed'
    BY <2>1, <2>2 DEF Sound, Counted, Listed
  <2> QED BY <1>0, <2>3 DEF Sound
<1> QED BY <1>1, <1>2, <1>3, <1>4, <1>5, <1>6, <1>7 DEF Next, Stopped

SoundInv == /\ damaged \/ Sound
            /\ crashes \in Nat /\ (halved => crashes # 0)

LEMMA SoundInvariant == Spec => []SoundInv
<1>1. Init => SoundInv
  <2> SUFFICES ASSUME Init PROVE SoundInv
    OBVIOUS
  <2>1. crashes = 0 /\ ~halved
    BY Zenon DEF Init
  <2> QED BY <2>1, InitSound DEF SoundInv
<1>2. SoundInv /\ [Next]_vars => SoundInv'
  <2> SUFFICES ASSUME SoundInv, [Next]_vars PROVE SoundInv'
    OBVIOUS
  <2>1. damaged' \/ Sound'
    BY NextSound, DamageStays DEF SoundInv
  <2>2. CASE Crash
    <3>1. crashes' \in Nat /\ crashes' # 0
      BY <2>2, SMT DEF SoundInv, Crash
    <3> QED BY <2>1, <3>1 DEF SoundInv
  <2>3. CASE UNCHANGED <<halved, crashes>>
    BY <2>1, <2>3 DEF SoundInv
  <2>4. ~Crash => UNCHANGED <<halved, crashes>>
    BY DEF Next, Step, vars, bnd, Open, WriteStart, ReadStart, RemoveStart, Stopped,
       WriteBlock, WriteNoSpace, AllocData, ChainIndex, LinkIndex, LinkInode, Commit,
       CommitSuper, WriteEnd, ReadBlock, ReadEnd, RemoveBlock, RemoveEnd
  <2> QED BY <2>2, <2>3, <2>4
<1> QED BY <1>1, <1>2, PTL DEF Spec

(* For every number of links in a block and every volume, the blocks of the *)
(* file on the disk form a tree at every moment a crash may choose, until   *)
(* remove_file_ext2 frees the first: each hangs in one place and is marked  *)
(* in the bitmap.  Between requests, and without a crash, nothing is lost:  *)
(* bitmap, s_free_blocks_count and i_blocks agree with the tree.            *)
THEOREM TreesAreSound == Spec => []TreeSound
<1>1. SoundInv => TreeSound
  <2> SUFFICES ASSUME Sound, ~damaged PROVE TreeSound
    BY DEF SoundInv, TreeSound
  <2> DEFINE s == BlocksOf(dinode)
  <2>1. ASSUME pc # "orphan", ~(Removal /\ Begun)
        PROVE  /\ Elements(s) = NodesOf(dinode, disk) /\ Cardinality(Elements(s)) = Len(s)
               /\ Elements(s) \subseteq used
    <3>1. TreeType(dinode, disk) /\ Apart(dinode, disk) /\ MarkedIn(dinode, disk, used)
      BY <2>1 DEF Sound, Good, Typed, Planted, Kept, Removal, Tree, TreeType, Inodes, Removing
    <3>2. Enumerates(s, NodesOf(dinode, disk))
      BY <3>1, CollectsAll
    <3> QED BY <3>1, <3>2, EnumeratesCount, MarkedNodes
  <2>2. ASSUME pc = "rest", crashes = 0
        PROVE  /\ used = Elements(s) /\ dfree = free
               /\ free = NumBlocks - Cardinality(used) /\ dinode.i_blocks = Len(s)
    <3>1. /\ free \in Nat /\ dfree = free /\ free + Cardinality(used) = NumBlocks + 0
          /\ Cardinality(used) = inode.i_blocks + 0 /\ used = NodesOf(inode, disk)
          /\ inode = dinode /\ inode.i_blocks \in Nat /\ Typed
      BY <2>2 DEF Sound, Good, Saved, Counted, Quiet, Removing, Typed, Inodes
    <3>2. used = Elements(s) /\ Cardinality(used) = Len(s)
      BY <2>1, <2>2, <3>1 DEF Removal
    <3>3. free = NumBlocks - Cardinality(used) /\ Cardinality(used) = inode.i_blocks
      BY <3>1, UsedFinite, FileAssumption, SMT
    <3> QED BY <3>1, <3>2, <3>3
  <2> HIDE DEF s
  <2> QED BY <2>1, <2>2 DEF TreeSound, s
<1> QED BY <1>1, SoundInvariant, PTL

(* The ASSERTs of write_file_ext2, allocate_new_data_block and              *)
(* deallocate_block fail only on a volume without a free block or on a      *)
(* damaged file.                                                            *)
THEOREM AssertsHoldUntilDamage == Spec => []FailedAssertsExplained
<1>1. SoundInv => FailedAssertsExplained
  BY DEF SoundInv, Sound, Good, Saved, Listed, FailedAssertsExplained
<1> QED BY <1>1, SoundInvariant, PTL

(* The first allocation that fails in a run without a crash is one of a     *)
(* chain that needs more blocks than s_free_blocks_count promised: only the *)
(* gate of allocate_new_data_block, which asks for one block, is to blame.  *)
THEOREM ChainsFailWhenShort == Spec => FailsOnlyWhenShort
<1>1. ASSUME SoundInv, [Next]_vars, ~starved, starved', crashes = 0
      PROVE  free < ch'.n
  <2>1. /\ Sound /\ Typed /\ free \in Nat /\ ch.n \in Nat /\ NumBlocks \in Nat
        /\ (AllocData \/ ChainIndex) /\ NotAllocated
    <3>1. Sound /\ Typed /\ free \in Nat /\ ch.n \in Nat
      BY <1>1 DEF SoundInv, damaged, Sound, Counted, Good, Typed
    <3>2. (AllocData \/ ChainIndex) /\ NotAllocated
      BY <1>1 DEF Next, Step, vars, bnd, Open, WriteStart, ReadStart, RemoveStart, Crash, Stopped,
        WriteBlock, WriteNoSpace, AllocData, ChainIndex, LinkIndex, LinkInode, Commit,
        CommitSuper, WriteEnd, ReadBlock, ReadEnd, RemoveBlock, RemoveEnd,
        Allocated, NotAllocated
    <3> QED BY <3>1, <3>2, FileAssumption
  <2>2. Cardinality(used) = NumBlocks
    BY <2>1, UsedFinite DEF NotAllocated
  <2>3. ~AllocData
    <3> SUFFICES ASSUME AllocData PROVE FALSE
      OBVIOUS
    <3>1. pc = "write" /\ free # 0
      BY DEF AllocData
    <3>2. free + NumBlocks = NumBlocks + 0
      BY <1>1, <2>1, <2>2, <3>1 DEF Sound, Counted
    <3> QED BY <2>1, <3>1, <3>2, SMT
  <2>4. pc = "chain" /\ ch'.n = ch.n + 1
    BY <2>1, <2>3 DEF ChainIndex, Typed
  <2>5. free + NumBlocks = NumBlocks + ch.n
    BY <1>1, <2>1, <2>2, <2>4 DEF Sound, Counted
  <2> QED BY <2>1, <2>4, <2>5, SMT
<1> QED BY <1>1, SoundInvariant, PTL DEF Spec, FailsOnlyWhenShort

-----------------------------------------------------------------------------
(* Types, which hold for a damaged file too. *)
IterShape(i) ==
  i = [offset |-> i.offset, mode |-> i.mode, index |-> i.index, blks_blk |-> i.blks_blk,
       leaf |-> i.leaf]

Busy == {"write", "chain", "commit", "super", "read"}

Shaped ==
  /\ disk \in [Blk -> [0 .. Links - 1 -> Word]] /\ used \subseteq Blk
  /\ dfree \in 0 .. U32 - 1 /\ free \in 0 .. U32 - 1
  /\ inode \in Inodes /\ dinode \in Inodes
  /\ IterShape(it) /\ it.offset \in Offsets /\ it.mode \in 0 .. 3
  /\ pc \in Busy \cup {"rest", "remove", "no_block", "wrong_block", "not_used", "orphan"}
  /\ req.off \in Nat /\ req.val \in Word
  /\ pos \in [off : Nat, count : Nat] /\ pos.off + pos.count \in Offsets
  /\ pc \in Busy => pos.off = it.offset
  /\ ch \in [child : Word, first : Word, n : 0 .. 4, j : 0 .. 3] /\ ch.n + ch.j <= 4
  /\ todo \in Seq(Word)
  /\ late \in BOOLEAN /\ starved \in BOOLEAN /\ halved \in BOOLEAN
  /\ crashes \in 0 .. MaxCrashes /\ ops \in 0 .. MaxOps

LEMMA InitShape ==
  ASSUME NEW ino, NEW dsk, NEW off \in Offsets
  PROVE  /\ IterShape(blk_iterator_init(ino, dsk, off))
         /\ blk_iterator_init(ino, dsk, off).offset = off
         /\ blk_iterator_init(ino, dsk, off).mode \in 0 .. 3
<1>1. path_of[BlockOfOffset(off)].mode \in 0 .. 3
  <2>1. BlockOfOffset(off) \in FileBlocks
    BY OffsetBlock
  <2> QED BY <2>1, PathFacts DEF path_of
<1> QED BY <1>1 DEF blk_iterator_init, IterShape

LEMMA NextShape ==
  ASSUME NEW i, NEW ino, NEW dsk, NEW off \in Offsets, IterShape(i), i.mode \in 0 .. 3
  PROVE  /\ IterShape(blk_iterator_next(i, ino, dsk, off))
         /\ blk_iterator_next(i, ino, dsk, off).offset = off
         /\ blk_iterator_next(i, ino, dsk, off).mode \in 0 .. 3
<1> DEFINE x == path_of[BlockOfOffset(off)].index
           m == path_of[BlockOfOffset(off)].mode
           n == blk_iterator_next(i, ino, dsk, off)
<1>1. \/ n = [i EXCEPT !.offset = off]
      \/ n = blk_iterator_init(ino, dsk, off)
      \/ n = [i EXCEPT !.offset = off, !.index = x, !.blks_blk[0] = ino.i_block[x[0]]]
      \/ n = [i EXCEPT !.offset = off, !.index[m] = x[m]]
  BY DEF blk_iterator_next
<1> HIDE DEF n, x, m
<1>2. CASE n = [i EXCEPT !.offset = off]
  BY <1>2 DEF IterShape, n
<1>3. CASE n = blk_iterator_init(ino, dsk, off)
  BY <1>3, InitShape DEF n
<1>4. CASE n = [i EXCEPT !.offset = off, !.index = x, !.blks_blk[0] = ino.i_block[x[0]]]
  BY <1>4 DEF IterShape, n
<1>5. CASE n = [i EXCEPT !.offset = off, !.index[m] = x[m]]
  BY <1>5 DEF IterShape, n
<1> QED BY <1>1, <1>2, <1>3, <1>4, <1>5

LEMMA MoveShape ==
  ASSUME Shaped, NEW off \in Offsets
  PROVE  IterShape(MoveTo(off)) /\ MoveTo(off).offset = off /\ MoveTo(off).mode \in 0 .. 3
BY NextShape DEF Shaped, MoveTo

LEMMA ShapedInit ==
  ASSUME Init
  PROVE  Shaped
<1> USE DEF Init
<1>1. IterShape(it) /\ it.offset = 0 /\ it.mode \in 0 .. 3 /\ 0 \in Offsets
  BY InitShape, OffsetsFit
<1>2. /\ EmptyInode \in Inodes /\ ZeroBlock \in [0 .. Links - 1 -> Word]
  BY OffsetsFit, BlockWords DEF EmptyInode, Inodes, ZeroBlock
<1>3. /\ NoRequest.off \in Nat /\ NoRequest.val \in Word
      /\ NoPos \in [off : Nat, count : Nat] /\ NoPos.off + NoPos.count \in Offsets
  BY BlockWords, OffsetsFit DEF NoRequest, NoPos
<1>4. /\ NoChain \in [child : Word, first : Word, n : 0 .. 4, j : 0 .. 3]
      /\ NoChain.n + NoChain.j <= 4
  BY BlockWords, SMT DEF NoChain
<1>5. NumBlocks \in 0 .. U32 - 1 /\ 0 \in 0 .. MaxCrashes /\ 0 \in 0 .. MaxOps
  BY FileAssumption, U32Assumption, SMT
<1>6. /\ disk \in [Blk -> [0 .. Links - 1 -> Word]] /\ used \subseteq Blk
      /\ inode \in Inodes /\ dinode \in Inodes
  BY <1>2
<1>7. /\ pc = "rest" /\ todo \in Seq(Word)
      /\ late \in BOOLEAN /\ starved \in BOOLEAN /\ halved \in BOOLEAN
  BY EmptyList
<1>8. /\ dfree \in 0 .. U32 - 1 /\ free \in 0 .. U32 - 1
      /\ crashes \in 0 .. MaxCrashes /\ ops \in 0 .. MaxOps
  BY <1>5
<1>9. /\ req.off \in Nat /\ req.val \in Word
      /\ pos \in [off : Nat, count : Nat] /\ pos.off + pos.count \in Offsets
  BY <1>3
<1>10. ch \in [child : Word, first : Word, n : 0 .. 4, j : 0 .. 3] /\ ch.n + ch.j <= 4
  BY <1>4
<1> QED BY <1>1, <1>6, <1>7, <1>8, <1>9, <1>10 DEF Shaped, Busy

(* The loops of read_file_ext2 and write_file_ext2 move on within their     *)
(* request.                                                                 *)
LEMMA PassShape ==
  ASSUME Shaped, pc \in {"write", "read"}, pos.count > 0, UNCHANGED pc,
         NEW dsk, it' = blk_iterator_next(it, inode, dsk, pos.off + Chunk),
         pos' = [off |-> pos.off + Chunk, count |-> pos.count - Chunk]
  PROVE  /\ IterShape(it') /\ it'.offset \in Offsets /\ it'.mode \in 0 .. 3
         /\ pos' \in [off : Nat, count : Nat] /\ pos'.off + pos'.count \in Offsets
         /\ pos'.off = it'.offset
<1>1. /\ pos.off \in Nat /\ pos.count \in Nat /\ pos.off + pos.count \in Offsets
      /\ pos.off \in Offsets
  BY OffsetsFit, SMT DEF Shaped
<1>2. Chunk \in 0 .. pos.count
  BY <1>1, ChunkFits
<1>3. /\ pos.off + Chunk \in Offsets /\ pos.off + Chunk \in Nat /\ pos.count - Chunk \in Nat
      /\ (pos.off + Chunk) + (pos.count - Chunk) = pos.off + pos.count
  BY <1>1, <1>2, OffsetsFit, SMT
<1>4. IterShape(it') /\ it'.offset = pos.off + Chunk /\ it'.mode \in 0 .. 3
  BY <1>3, NextShape DEF Shaped
<1>5. pos'.off = pos.off + Chunk /\ pos'.count = pos.count - Chunk
  OBVIOUS
<1> QED BY <1>1, <1>3, <1>4, <1>5

LEMMA ShapedStarts ==
  ASSUME Shaped,
         Open \/ (\E r \in Writes : WriteStart(r)) \/ (\E r \in Reads : ReadStart(r)) \/ RemoveStart \/ Crash
  PROVE  Shaped'
<1>0. 0 \in Offsets /\ inode.i_size \in Offsets /\ dinode.i_size \in Offsets
  BY OffsetsFit DEF Shaped, Inodes
<1>1. CASE Open
  BY <1>0, <1>1, InitShape DEF Shaped, Open, dev, locs, bnd, Busy
<1>2. ASSUME NEW r \in Writes, WriteStart(r) PROVE Shaped'
  <2>1. /\ r.off \in Offsets /\ r.off \in Nat /\ r.len \in Nat /\ r.val \in Word
        /\ r.off + r.len \in Offsets
    BY RequestFits
  <2>2. IterShape(it') /\ it'.offset = r.off /\ it'.mode \in 0 .. 3
    BY <1>2, <2>1, MoveShape DEF WriteStart
  <2>3. /\ pos'.off = r.off /\ pos'.count = r.len /\ pos' \in [off : Nat, count : Nat]
        /\ req' = r /\ pc' = "write"
    BY <1>2, <2>1 DEF WriteStart
  <2>4. ops' \in 0 .. MaxOps
    BY <1>2, FileAssumption, SMT DEF WriteStart, Shaped
  <2> QED BY <1>2, <2>1, <2>2, <2>3, <2>4 DEF WriteStart, Shaped, dev, Busy
<1>3. ASSUME NEW r \in Reads, ReadStart(r) PROVE Shaped'
  <2> DEFINE off == Smaller(r.off, inode.i_size)
             count == Smaller(r.len, inode.i_size - off)
  <2>1. r.off \in Nat /\ r.len \in Nat
    BY RequestFits
  <2>2. off \in Offsets /\ off \in Nat /\ count \in Nat /\ off + count \in Offsets
    BY <1>0, <2>1, OffsetsFit, SMT DEF Smaller, Offsets
  <2>3. IterShape(it') /\ it'.offset = off /\ it'.mode \in 0 .. 3
    BY <1>3, <2>2, MoveShape DEF ReadStart
  <2>4. /\ pos'.off = off /\ pos'.count = count /\ pos' = [off |-> off, count |-> count]
        /\ pc' = "read"
    BY <1>3 DEF ReadStart
  <2>5. ops' \in 0 .. MaxOps
    BY <1>3, FileAssumption, SMT DEF ReadStart, Shaped
  <2> HIDE DEF off, count
  <2> QED BY <1>3, <2>2, <2>3, <2>4, <2>5 DEF ReadStart, Shaped, dev, Busy
<1>4. CASE RemoveStart
  <2>1. BlocksOf(dinode) \in Seq(Word)
    BY BlocksTyped DEF Shaped, TreeType, Inodes
  <2>2. ops' \in 0 .. MaxOps
    BY <1>4, FileAssumption, SMT DEF RemoveStart, Shaped
  <2> QED BY <1>0, <1>4, <2>1, <2>2, InitShape DEF Shaped, RemoveStart, dev, Busy
<1>5. CASE Crash
  <2>1. /\ NoRequest.off \in Nat /\ NoRequest.val \in Word
        /\ NoPos \in [off : Nat, count : Nat] /\ NoPos.off + NoPos.count \in Offsets
    BY BlockWords, OffsetsFit DEF NoRequest, NoPos
  <2>2. /\ NoChain \in [child : Word, first : Word, n : 0 .. 4, j : 0 .. 3]
        /\ NoChain.n + NoChain.j <= 4
    BY BlockWords, SMT DEF NoChain
  <2>3. crashes' \in 0 .. MaxCrashes
    BY <1>5, FileAssumption, SMT DEF Crash, Shaped
  <2>4. pc' \in {"rest", "orphan"} /\ <<>> \in Seq(Word)
    BY <1>5 DEF Crash
  <2> QED BY <1>0, <1>5, <2>1, <2>2, <2>3, <2>4, InitShape DEF Shaped, Crash, dev, Busy
<1> QED BY <1>1, <1>2, <1>3, <1>4, <1>5

LEMMA ShapedWrites ==
  ASSUME Shaped, WriteBlock \/ WriteNoSpace \/ WriteEnd \/ ReadBlock \/ ReadEnd
  PROVE  Shaped'
<1>1. CASE WriteBlock
  <2>1. PICK d : /\ d = [disk EXCEPT ![Current] =
                           [i \in 0 .. Links - 1 |->
                              IF i \in (pos.off % Links) .. (pos.off % Links) + Chunk - 1
                              THEN req.val ELSE @[i]]]
                 /\ disk' = d /\ it' = blk_iterator_next(it, inode, d, pos.off + Chunk)
    BY <1>1 DEF WriteBlock
  <2>2. disk' \in [Blk -> [0 .. Links - 1 -> Word]]
    <3>1. Current \in Blk => \A i \in 0 .. Links - 1 : disk[Current][i] \in Word
      BY DEF Shaped
    <3>2. \A b \in Blk : d[b] \in [0 .. Links - 1 -> Word]
      BY <2>1, <3>1 DEF Shaped
    <3>3. DOMAIN d = Blk /\ d = [b \in Blk |-> d[b]]
      BY <2>1 DEF Shaped
    <3> QED BY <2>1, <3>2, <3>3
  <2>3. /\ IterShape(it') /\ it'.offset \in Offsets /\ it'.mode \in 0 .. 3
        /\ pos' \in [off : Nat, count : Nat] /\ pos'.off + pos'.count \in Offsets
        /\ pos'.off = it'.offset
    BY <1>1, <2>1, PassShape DEF WriteBlock
  <2> QED BY <1>1, <2>2, <2>3 DEF Shaped, WriteBlock, bnd
<1>2. CASE WriteNoSpace
  BY <1>2 DEF Shaped, WriteNoSpace, dev, mem, locs, bnd, Busy
<1>3. CASE WriteEnd
  <2>1. EndSize \in Offsets
    BY DEF Shaped, EndSize, Larger, Inodes
  <2>2. [inode EXCEPT !.i_size = EndSize] \in Inodes
    BY <2>1 DEF Shaped, Inodes
  <2>3. /\ NoRequest.off \in Nat /\ NoRequest.val \in Word
        /\ NoPos \in [off : Nat, count : Nat] /\ NoPos.off + NoPos.count \in Offsets
    BY BlockWords, OffsetsFit DEF NoRequest, NoPos
  <2> QED BY <1>3, <2>2, <2>3 DEF Shaped, WriteEnd, bnd, Busy
<1>4. CASE ReadBlock
  <2>1. /\ IterShape(it') /\ it'.offset \in Offsets /\ it'.mode \in 0 .. 3
        /\ pos' \in [off : Nat, count : Nat] /\ pos'.off + pos'.count \in Offsets
        /\ pos'.off = it'.offset
    BY <1>4, PassShape DEF ReadBlock, bnd
  <2> QED BY <1>4, <2>1 DEF Shaped, ReadBlock, dev, bnd
<1>5. CASE ReadEnd
  <2>1. NoPos \in [off : Nat, count : Nat] /\ NoPos.off + NoPos.count \in Offsets
    BY OffsetsFit DEF NoPos
  <2> QED BY <1>5, <2>1 DEF Shaped, ReadEnd, mem, bnd, Busy
<1> QED BY <1>1, <1>2, <1>3, <1>4, <1>5

LEMMA ShapedGrowth ==
  ASSUME Shaped, AllocData \/ ChainIndex \/ LinkIndex \/ LinkInode
  PROVE  Shaped'
<1>0. ch.child \in Word /\ ch.first \in Word /\ ch.n \in 0 .. 4 /\ ch.j \in 0 .. 3 /\ ch.n + ch.j <= 4
  BY DEF Shaped
<1>1. ZeroBlock \in [0 .. Links - 1 -> Word]
  BY BlockWords DEF ZeroBlock
<1>2. CASE AllocData
  <2>1. PICK b \in Word :
          /\ \/ Allocated(b) /\ disk' = [disk EXCEPT ![b] = ZeroBlock]
             \/ NotAllocated /\ UNCHANGED disk
          /\ ch' = [child |-> b, first |-> b, n |-> 1, j |-> it.mode]
    BY <1>2 DEF AllocData
  <2>2. used' \subseteq Blk /\ starved' \in BOOLEAN /\ disk' \in [Blk -> [0 .. Links - 1 -> Word]]
    <3>1. used \subseteq Blk /\ starved \in BOOLEAN /\ disk \in [Blk -> [0 .. Links - 1 -> Word]]
      BY DEF Shaped
    <3>2. CASE Allocated(b) /\ disk' = [disk EXCEPT ![b] = ZeroBlock]
      <4>1. b \in Blk /\ used' = used \cup {b} /\ starved' = starved
        BY <3>2 DEF Allocated
      <4>2. disk' \in [Blk -> [0 .. Links - 1 -> Word]]
        BY <1>1, <3>1, <3>2
      <4> QED BY <3>1, <4>1, <4>2
    <3>3. CASE NotAllocated /\ UNCHANGED disk
      BY <3>1, <3>3 DEF NotAllocated
    <3> QED BY <2>1, <3>2, <3>3
  <2>3. /\ ch' \in [child : Word, first : Word, n : 0 .. 4, j : 0 .. 3] /\ ch'.n + ch'.j <= 4
    BY <2>1, SMT DEF Shaped
  <2> QED BY <1>2, <2>2, <2>3 DEF Shaped, AllocData, mem, Busy
<1>3. CASE ChainIndex
  <2>1. PICK b \in Word :
          /\ Allocated(b) \/ NotAllocated
          /\ disk' = [k \in Blk |-> IF k = b
                                    THEN [ZeroBlock EXCEPT ![it.index[ch.j]] = ch.child]
                                    ELSE disk[k]]
          /\ ch' = [ch EXCEPT !.child = b, !.n = @ + 1, !.j = @ - 1]
    BY <1>3 DEF ChainIndex
  <2>2. used' \subseteq Blk /\ starved' \in BOOLEAN
    BY <2>1 DEF Allocated, NotAllocated, Shaped
  <2>3. disk' \in [Blk -> [0 .. Links - 1 -> Word]]
    <3>1. [ZeroBlock EXCEPT ![it.index[ch.j]] = ch.child] \in [0 .. Links - 1 -> Word]
      BY <1>0, <1>1
    <3> QED BY <2>1, <3>1 DEF Shaped
  <2>4. /\ ch' \in [child : Word, first : Word, n : 0 .. 4, j : 0 .. 3] /\ ch'.n + ch'.j <= 4
    <3>1. ch' = [child |-> b, first |-> ch.first, n |-> ch.n + 1, j |-> ch.j - 1]
      BY <2>1 DEF Shaped
    <3>2. ch.n + 1 \in 0 .. 4 /\ ch.j - 1 \in 0 .. 3 /\ (ch.n + 1) + (ch.j - 1) <= 4
      <4>1. ch.j > 0
        BY <1>3 DEF ChainIndex
      <4> QED BY <1>0, <4>1, SMT
    <3> QED BY <1>0, <2>1, <3>1, <3>2
  <2> QED BY <1>3, <2>2, <2>3, <2>4 DEF Shaped, ChainIndex, mem, Busy
<1>4. CASE LinkIndex
  <2>1. disk' \in [Blk -> [0 .. Links - 1 -> Word]]
    BY <1>0, <1>4 DEF LinkIndex, Shaped
  <2> QED BY <1>4, <2>1 DEF Shaped, LinkIndex, mem, locs, bnd, Busy
<1>5. CASE LinkInode
  <2>1. inode' = [inode EXCEPT !.i_block = [inode.i_block EXCEPT ![it.index[0]] = ch.child]]
    BY <1>5 DEF LinkInode
  <2>2. [inode.i_block EXCEPT ![it.index[0]] = ch.child] \in [0 .. TI_INDEX -> Word]
    BY <1>0 DEF Shaped, Inodes
  <2>3. inode' \in Inodes
    BY <2>1, <2>2 DEF Shaped, Inodes
  <2> QED BY <1>5, <2>3 DEF Shaped, LinkInode, dev, locs, bnd, Busy
<1> QED BY <1>2, <1>3, <1>4, <1>5

LEMMA ShapedCommits ==
  ASSUME Shaped, Commit \/ CommitSuper \/ RemoveBlock \/ RemoveEnd
  PROVE  Shaped'
<1>1. CASE Commit
  <2>1. IterShape(it') /\ it'.offset = it.offset /\ it'.mode \in 0 .. 3
    BY <1>1, InitShape DEF Commit, Refreshed, Shaped
  <2>2. /\ pos.off \in Nat /\ pos.count \in Nat /\ pos.off + pos.count \in Offsets
        /\ pos.off \in Offsets /\ pos.off = it.offset
    BY <1>1, OffsetsFit, SMT DEF Shaped, Commit, Busy
  <2>3. it.offset + Chunk \in Offsets
    <3>1. Chunk \in 0 .. pos.count
      BY <2>2, ChunkFits
    <3> QED BY <2>2, <3>1, OffsetsFit, SMT
  <2>4. [inode EXCEPT !.i_size = Larger(@, it.offset + Chunk), !.i_blocks = @ + ch.n] \in Inodes
    <3>1. Larger(inode.i_size, it.offset + Chunk) \in Offsets /\ inode.i_blocks + ch.n \in Nat
      BY <2>3 DEF Larger, Shaped, Inodes
    <3> QED BY <3>1 DEF Shaped, Inodes
  <2>5. /\ inode' \in Inodes /\ dinode' \in Inodes /\ pc' \in {"super", "wrong_block"}
    BY <1>1, <2>4 DEF Commit, Shaped
  <2> QED BY <1>1, <2>1, <2>2, <2>5 DEF Shaped, Commit, locs, bnd, Busy
<1>2. CASE CommitSuper
  <2>1. free' \in 0 .. U32 - 1
    <3>1. free \in 0 .. U32 - 1 /\ ch.n \in 0 .. 4 /\ U32 \in Nat /\ U32 >= 4
      BY FileAssumption, U32Assumption DEF Shaped
    <3>2. free' = Sub32(free, ch.n)
      BY <1>2 DEF CommitSuper, Charged
    <3> QED BY <3>1, <3>2, SMT DEF Sub32
  <2>2. /\ NoChain \in [child : Word, first : Word, n : 0 .. 4, j : 0 .. 3]
        /\ NoChain.n + NoChain.j <= 4
    BY BlockWords, SMT DEF NoChain
  <2>3. pc' \in {"no_block", "write"}
    BY <1>2 DEF CommitSuper
  <2> QED BY <1>2, <2>1, <2>2, <2>3 DEF Shaped, CommitSuper, bnd, Busy
<1>3. CASE RemoveBlock
  <2>1. CASE Head(todo) \in used
    <3>1. free' \in 0 .. U32 - 1
      <4>1. free \in 0 .. U32 - 1 /\ U32 \in Nat \ {0}
        BY U32Assumption DEF Shaped
      <4>2. free' = IF free = U32 - 1 THEN 0 ELSE free + 1
        BY <1>3, <2>1 DEF RemoveBlock
      <4> QED BY <4>1, <4>2, SMT
    <3>2. todo' \in Seq(Word)
      <4>1. \A s \in Seq(Word) : s # <<>> => Tail(s) \in Seq(Word)
        OBVIOUS
      <4>2. todo \in Seq(Word) /\ todo # <<>> /\ todo' = Tail(todo)
        BY <1>3, <2>1 DEF RemoveBlock, Shaped
      <4> QED BY <4>1, <4>2
    <3> QED BY <1>3, <2>1, <3>1, <3>2 DEF Shaped, RemoveBlock, bnd, Busy
  <2>2. CASE Head(todo) \notin used
    BY <1>3, <2>2 DEF Shaped, RemoveBlock, bnd, Busy
  <2> QED BY <2>1, <2>2
<1>4. CASE RemoveEnd
  <2>1. 0 \in Offsets /\ EmptyInode \in Inodes
    BY OffsetsFit, BlockWords DEF EmptyInode, Inodes
  <2> QED BY <1>4, <2>1, InitShape DEF Shaped, RemoveEnd, locs, bnd, Busy
<1> QED BY <1>1, <1>2, <1>3, <1>4

LEMMA ShapedNext ==
  ASSUME Shaped, [Next]_vars
  PROVE  Shaped'
<1>1. CASE UNCHANGED vars
  BY <1>1 DEF Shaped, vars, dev, mem, locs, bnd
<1>2. CASE Step
  BY <1>2, ShapedWrites, ShapedGrowth, ShapedCommits DEF Step
<1> QED BY <1>1, <1>2, ShapedStarts DEF Next, Stopped

(* Every entry of i_block and of an index block is a block of the volume or *)
(* 0, and sizes, offsets and counts stay in their ranges: in every reachable*)
(* state, of a damaged file and after an ASSERT too.                        *)
THEOREM FileTypeCorrect == Spec => []TypeOK
<1>1. Init => Shaped
  BY ShapedInit
<1>2. Shaped /\ [Next]_vars => Shaped'
  BY ShapedNext
<1>3. Shaped => TypeOK
  <2> SUFFICES ASSUME Shaped PROVE TypeOK
    OBVIOUS
  <2>1. \A o \in Offsets : o \in 0 .. MaxWords
    BY OffsetsFit, SMT DEF Offsets
  <2>2. pos.count \in 0 .. MaxWords
    BY OffsetsFit, SMT DEF Shaped
  <2>3. \A n \in {inode, dinode} : /\ n.i_size \in 0 .. MaxWords /\ n.i_blocks \in Nat
                                   /\ n.i_block \in [0 .. TI_INDEX -> Word]
    BY <2>1 DEF Shaped, Inodes
  <2> QED BY <2>1, <2>2, <2>3 DEF Shaped, TypeOK, Busy
<1> QED BY <1>1, <1>2, <1>3, PTL DEF Spec
=============================================================================
