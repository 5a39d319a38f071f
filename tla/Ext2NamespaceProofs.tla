-------------------------- MODULE Ext2NamespaceProofs --------------------------
(***************************************************************************)
(* Proofs about the tree of directories of Ext2Namespace.                  *)
(*                                                                         *)
(* Typed says at which stage a command is and what its handles may hold; it*)
(* is inductive, and gives the types whatever the working directory is.    *)
(* The other invariants are about the time until a name is to be written   *)
(* into a free inode (astray = 0).  Until then the copies of inodes in the *)
(* handles are what the disk has (CopyOK), so that writing an inode back   *)
(* changes no more than the entry or the count it is written for, and every*)
(* step is one of PlainNext, which does without the copies.                *)
(* Control says what the handles know of the counts.  Drift compares the   *)
(* link counts with the names, as if both changed in one step (Ents): the  *)
(* counts are off by at most one for each crash and each entry that went   *)
(* with its directory.  Tree, which holds until the first crash, says what *)
(* the entries are: every one leads to an inode in use, every inode has one*)
(* name, "." and ".." are where they belong, and at which stage mkdir and  *)
(* rmdir make exceptions.  That the last name is gone when a link count    *)
(* reaches zero is where Tree needs Drift, and Drift needs that counts do  *)
(* not wrap.  Clearable follows from Tree: an inode whose last link is gone*)
(* is marked when its bit is cleared.                                      *)
(***************************************************************************)
EXTENDS Ext2Namespace, FiniteSetTheorems, TLAPS

(* The entries of E that name an inode, with their directories.             *)
Named(E, i) == {de \in UNION {{d} \X E[d] : d \in Inodes} : de[2].ino = i}
Count(E, i) == Cardinality(Named(E, i))

Finite(E) == \A d \in Inodes : IsFiniteSet(E[d])

Abs(n) == IF n < 0 THEN 0 - n ELSE n

(* Multiples of the width of a count.                                       *)
Wraps == {q * U16 : q \in Int}

Same16(a, b) == a - b \in Wraps

Cells(f) == UNION {{i} \X (1 .. f[i]) : i \in Inodes}

Size(dr) == Cardinality(Cells([i \in Inodes |-> Abs(dr[i])]))

(* The counts L are off by dr from the names in E; an inode of B has no     *)
(* more links than none.                                                    *)
DriftBy(dr, E, L, B) ==
  /\ \A i \in Inodes : Same16(L[i], Count(E, i) + dr[i])
  /\ \A i \in B : dr[i] <= 0 - Count(E, i)

Drifted(E, L, B, k) ==
  \E dr \in [Inodes -> Int] : DriftBy(dr, E, L, B) /\ Size(dr) <= k

-----------------------------------------------------------------------------
(* Counts that wrap.                                                       *)
LEMMA Width == U16 \in Nat \ {0} /\ NumInodes \in Nat /\ Root \in Inodes
BY NamespaceAssumption

LEMMA WrapsClosed ==
  /\ 0 \in Wraps /\ U16 \in Wraps /\ Wraps \subseteq Int
  /\ \A a, b \in Wraps : a + b \in Wraps /\ a - b \in Wraps
<1>1. U16 \in Nat \ {0}
  BY Width
<1>2. 0 = 0 * U16 /\ U16 = 1 * U16
  BY <1>1, SMT
<1>3. 0 \in Wraps /\ U16 \in Wraps
  BY <1>1, <1>2 DEF Wraps
<1>4. \A q \in Int : q * U16 \in Int
  BY <1>1, SMT
<1>5. Wraps \subseteq Int
  BY <1>4 DEF Wraps
<1>6. ASSUME NEW a \in Wraps, NEW b \in Wraps
      PROVE  a + b \in Wraps /\ a - b \in Wraps
  <2>1. PICK p \in Int : a = p * U16
    BY DEF Wraps
  <2>2. PICK q \in Int : b = q * U16
    BY DEF Wraps
  <2>3. a + b = (p + q) * U16 /\ a - b = (p - q) * U16
    BY <1>1, <2>1, <2>2, SMT
  <2>4. p + q \in Int /\ p - q \in Int
    OBVIOUS
  <2> QED BY <2>3, <2>4 DEF Wraps
<1> QED BY <1>3, <1>5, <1>6

(* A multiple is 0 or at least the width away from it.                      *)
LEMMA WrapsApart ==
  ASSUME NEW a \in Wraps, a # 0
  PROVE  a >= U16 \/ a <= 0 - U16
<1>1. PICK q \in Int : a = q * U16
  BY DEF Wraps
<1>2. U16 \in Nat \ {0}
  BY Width
<1>3. q >= 1 => q * U16 >= U16
  BY <1>2, SMT
<1>4. q <= 0 - 1 => q * U16 <= 0 - U16
  BY <1>2, SMT
<1>5. q = 0 => q * U16 = 0
  BY <1>2, SMT
<1> QED BY <1>1, <1>2, <1>3, <1>4, <1>5, SMT

LEMMA Remainder ==
  ASSUME NEW a \in Int
  PROVE  a % U16 \in 0 .. U16 - 1 /\ a - (a % U16) \in Wraps
<1>1. U16 \in Nat \ {0}
  BY Width
<1>2. a % U16 \in 0 .. U16 - 1 /\ a \div U16 \in Int /\ a = (U16 * (a \div U16)) + (a % U16)
  BY <1>1, SMT
<1>3. U16 * (a \div U16) = (a \div U16) * U16
  BY <1>1, <1>2, SMT
<1>4. (a \div U16) * U16 \in Wraps
  BY <1>2 DEF Wraps
<1>5. \A x \in Int, r \in Int, w \in Int : x = w + r => x - r = w
  BY SMT
<1>6. (a \div U16) * U16 \in Int
  BY <1>4, WrapsClosed
<1> QED BY <1>1, <1>2, <1>3, <1>4, <1>5, <1>6, SMT

LEMMA Least == \A a, b \in Nat : Min({a, b}) = IF a <= b THEN a ELSE b
<1> SUFFICES ASSUME NEW a \in Nat, NEW b \in Nat
             PROVE  Min({a, b}) = IF a <= b THEN a ELSE b
  OBVIOUS
<1> DEFINE m == IF a <= b THEN a ELSE b
           P(x) == x \in {a, b} /\ \A y \in {a, b} : x <= y
<1>1. P(m) /\ \A x : P(x) => x = m
  BY SMT
<1>2. (CHOOSE x : P(x)) = m
  <2> HIDE DEF m, P
  <2> QED BY <1>1
<1>3. Min({a, b}) = CHOOSE x \in {a, b} : \A y \in {a, b} : x <= y
  BY DEF Min
<1>4. (CHOOSE x \in {a, b} : \A y \in {a, b} : x <= y) = CHOOSE x : P(x)
  OBVIOUS
<1> QED BY <1>2, <1>3, <1>4

(* The distance modulo the width is no more than any integer that leads     *)
(* from one to the other.                                                   *)
LEMMA OffLeast ==
  ASSUME NEW a \in Int, NEW b \in Int, NEW d \in Int, Same16(a, b + d)
  PROVE  Off(a, b) \in Nat /\ Off(a, b) <= Abs(d)
<1> DEFINE x == (a - b) % U16
           y == (b - a) % U16
<1>1. U16 \in Nat \ {0}
  BY Width
<1>2. x \in 0 .. U16 - 1 /\ (a - b) - x \in Wraps
  BY Remainder
<1>3. y \in 0 .. U16 - 1 /\ (b - a) - y \in Wraps
  BY Remainder
<1>4. Off(a, b) = IF x <= y THEN x ELSE y
  BY <1>1, <1>2, <1>3, Least DEF Off
<1>5. a - (b + d) \in Wraps
  BY DEF Same16
<1> HIDE DEF x, y
<1>6. d - x \in Wraps
  <2>1. ((a - b) - x) - (a - (b + d)) \in Wraps
    BY <1>2, <1>5, WrapsClosed
  <2>2. ((a - b) - x) - (a - (b + d)) = d - x
    BY <1>1, <1>2, SMT
  <2> QED BY <2>1, <2>2
<1>7. (0 - d) - y \in Wraps
  <2>1. ((b - a) - y) + (a - (b + d)) \in Wraps
    BY <1>3, <1>5, WrapsClosed
  <2>2. ((b - a) - y) + (a - (b + d)) = (0 - d) - y
    BY <1>1, <1>3, SMT
  <2> QED BY <2>1, <2>2
<1>8. d >= 0 => x <= d
  BY <1>1, <1>2, <1>6, WrapsApart, SMT
<1>9. d < 0 => y <= 0 - d
  BY <1>1, <1>3, <1>7, WrapsApart, SMT
<1> QED BY <1>1, <1>2, <1>3, <1>4, <1>8, <1>9, SMT DEF Abs

-----------------------------------------------------------------------------
(* The names of an inode, and how their number changes.                     *)
LEMMA NamedMember ==
  ASSUME NEW E, NEW i
  PROVE  \A de : de \in Named(E, i)
                  <=> \E d \in Inodes : \E e \in E[d] : de = <<d, e>> /\ e.ino = i
<1> SUFFICES ASSUME NEW de
             PROVE  de \in Named(E, i)
                      <=> \E d \in Inodes : \E e \in E[d] : de = <<d, e>> /\ e.ino = i
  OBVIOUS
<1>1. ASSUME de \in Named(E, i)
      PROVE  \E d \in Inodes : \E e \in E[d] : de = <<d, e>> /\ e.ino = i
  <2>1. de[2].ino = i /\ \E d \in Inodes : de \in {d} \X E[d]
    BY <1>1 DEF Named
  <2>2. PICK d \in Inodes : de \in {d} \X E[d]
    BY <2>1
  <2>3. PICK e \in E[d] : de = <<d, e>>
    BY <2>2
  <2>4. e.ino = i
    BY <2>1, <2>3
  <2> QED BY <2>3, <2>4
<1>2. ASSUME NEW d \in Inodes, NEW e \in E[d], de = <<d, e>>, e.ino = i
      PROVE  de \in Named(E, i)
  <2>1. de \in {d} \X E[d] /\ de[2].ino = i
    BY <1>2
  <2> QED BY <2>1 DEF Named
<1> QED BY <1>1, <1>2

LEMMA NamedAt ==
  ASSUME NEW E, NEW i
  PROVE  \A de : de \in Named(E, i) <=> /\ de = <<de[1], de[2]>> /\ de[2].ino = i
                                        /\ de[1] \in Inodes /\ de[2] \in E[de[1]]
<1> SUFFICES ASSUME NEW de
             PROVE  de \in Named(E, i) <=> /\ de = <<de[1], de[2]>> /\ de[2].ino = i
                                          /\ de[1] \in Inodes /\ de[2] \in E[de[1]]
  OBVIOUS
<1>1. ASSUME NEW d \in Inodes, NEW e \in E[d], de = <<d, e>>, e.ino = i
      PROVE  /\ de = <<de[1], de[2]>> /\ de[2].ino = i
             /\ de[1] \in Inodes /\ de[2] \in E[de[1]]
  BY <1>1
<1>2. ASSUME de \in Named(E, i)
      PROVE  /\ de = <<de[1], de[2]>> /\ de[2].ino = i
             /\ de[1] \in Inodes /\ de[2] \in E[de[1]]
  <2>1. PICK d \in Inodes : \E e \in E[d] : de = <<d, e>> /\ e.ino = i
    BY <1>2, NamedMember
  <2>2. PICK e \in E[d] : de = <<d, e>> /\ e.ino = i
    BY <2>1
  <2> QED BY <1>1, <2>2
<1>3. ASSUME de = <<de[1], de[2]>>, de[2].ino = i, de[1] \in Inodes, de[2] \in E[de[1]]
      PROVE  de \in Named(E, i)
  <2>1. \E d \in Inodes : \E e \in E[d] : de = <<d, e>> /\ e.ino = i
    BY <1>3
  <2> QED BY <2>1, NamedMember
<1> QED BY <1>2, <1>3

LEMMA InodesFinite == IsFiniteSet(Inodes)
BY Width, FS_Interval, SMT DEF Inodes

(* The names are finitely many.                                             *)
LEMMA NamedFinite ==
  ASSUME NEW E, Finite(E), NEW i
  PROVE  IsFiniteSet(Named(E, i)) /\ Count(E, i) \in Nat
<1> DEFINE F == {{d} \X E[d] : d \in Inodes}
<1>1. IsFiniteSet(F)
  <2> DEFINE f == [d \in Inodes |-> {d} \X E[d]]
  <2>1. f \in Surjection(Inodes, F)
    BY Zenon DEF Surjection
  <2> QED BY <2>1, InodesFinite, FS_Surjection, Zenon
<1>2. \A T \in F : IsFiniteSet(T)
  <2> SUFFICES ASSUME NEW d \in Inodes
               PROVE  IsFiniteSet({d} \X E[d])
    OBVIOUS
  <2>1. IsFiniteSet({d}) /\ IsFiniteSet(E[d])
    BY FS_Singleton DEF Finite
  <2> QED BY <2>1, FS_Product
<1>3. IsFiniteSet(UNION F)
  BY <1>1, <1>2, FS_UNION
<1>4. Named(E, i) \subseteq UNION F
  BY DEF Named
<1>5. IsFiniteSet(Named(E, i))
  BY <1>3, <1>4, FS_Subset
<1> QED BY <1>5, FS_CardinalityType DEF Count

(* E2 has an entry more than E.                                             *)
Gains(E, E2, d, e) ==
  /\ d \in Inodes /\ e \notin E[d] /\ E2[d] = E[d] \cup {e}
  /\ \A c \in Inodes \ {d} : E2[c] = E[c]

LEMMA CountGain ==
  ASSUME NEW E, NEW E2, NEW d, NEW e, Finite(E), Gains(E, E2, d, e)
  PROVE  /\ Finite(E2)
         /\ \A i : Count(E2, i) = Count(E, i) + (IF i = e.ino THEN 1 ELSE 0)
<1> USE DEF Gains
<1>1. Finite(E2)
  <2>1. IsFiniteSet(E2[d])
    BY FS_AddElement DEF Finite
  <2> QED BY <2>1 DEF Finite
<1>2. ASSUME NEW i, i # e.ino
      PROVE  Named(E2, i) = Named(E, i)
  <2>1. \A c \in Inodes : \A f : f.ino = i => (f \in E2[c] <=> f \in E[c])
    BY <1>2
  <2>2. \A de : de \in Named(E2, i) <=> de \in Named(E, i)
    BY <2>1, NamedAt
  <2> QED BY <2>2, Zenon
<1>3. Named(E2, e.ino) = Named(E, e.ino) \cup {<<d, e>>}
  <2>1. ASSUME NEW de, de \in Named(E2, e.ino)
        PROVE  de \in Named(E, e.ino) \cup {<<d, e>>}
    <3>1. PICK c \in Inodes : \E f \in E2[c] : de = <<c, f>> /\ f.ino = e.ino
      BY <2>1, NamedMember
    <3>2. PICK f \in E2[c] : de = <<c, f>> /\ f.ino = e.ino
      BY <3>1
    <3>3. CASE c = d /\ f = e
      BY <3>2, <3>3
    <3>4. CASE f \in E[c]
      BY <3>2, <3>4, NamedMember
    <3> QED BY <3>2, <3>3, <3>4
  <2>2. ASSUME NEW de, de \in Named(E, e.ino)
        PROVE  de \in Named(E2, e.ino)
    <3>1. PICK c \in Inodes : \E f \in E[c] : de = <<c, f>> /\ f.ino = e.ino
      BY <2>2, NamedMember
    <3>2. PICK f \in E[c] : de = <<c, f>> /\ f.ino = e.ino
      BY <3>1
    <3>3. f \in E2[c]
      BY <3>2
    <3> QED BY <3>2, <3>3, NamedMember
  <2>3. <<d, e>> \in Named(E2, e.ino)
    BY NamedMember
  <2> QED BY <2>1, <2>2, <2>3
<1>4. <<d, e>> \notin Named(E, e.ino)
  <2>1. SUFFICES ASSUME <<d, e>> \in Named(E, e.ino) PROVE FALSE
    OBVIOUS
  <2>2. PICK c \in Inodes : \E f \in E[c] : <<d, e>> = <<c, f>>
    BY <2>1, NamedMember
  <2>3. PICK f \in E[c] : <<d, e>> = <<c, f>>
    BY <2>2
  <2> QED BY <2>3
<1>5. Count(E2, e.ino) = Count(E, e.ino) + 1
  BY <1>3, <1>4, NamedFinite, FS_AddElement DEF Count
<1>6. \A i : i # e.ino => Count(E2, i) = Count(E, i) /\ Count(E, i) \in Nat
  BY <1>2, NamedFinite DEF Count
<1>7. \A n \in Nat : n + 0 = n
  OBVIOUS
<1> QED BY <1>1, <1>5, <1>6, <1>7

(* An entry less.                                                           *)
LEMMA CountLose ==
  ASSUME NEW E, NEW E2, NEW d, NEW e, Finite(E), Gains(E2, E, d, e)
  PROVE  /\ Finite(E2)
         /\ \A i : Count(E2, i) = Count(E, i) - (IF i = e.ino THEN 1 ELSE 0)
         /\ Count(E, e.ino) >= 1
<1>1. Finite(E2)
  <2>1. d \in Inodes /\ E2[d] \subseteq E[d] /\ \A c \in Inodes \ {d} : E[c] = E2[c]
    BY DEF Gains
  <2>2. IsFiniteSet(E2[d])
    BY <2>1, FS_Subset DEF Finite
  <2> QED BY <2>1, <2>2 DEF Finite
<1>2. \A i : Count(E, i) = Count(E2, i) + (IF i = e.ino THEN 1 ELSE 0)
  BY <1>1, CountGain
<1>3. \A i : Count(E2, i) \in Nat
  BY <1>1, NamedFinite
<1>4. \A i : Count(E2, i) = Count(E, i) - (IF i = e.ino THEN 1 ELSE 0)
  BY <1>2, <1>3, SMT
<1> QED BY <1>1, <1>2, <1>3, <1>4, SMT

LEMMA CountSame ==
  ASSUME NEW E, NEW E2, \A d \in Inodes : E2[d] = E[d]
  PROVE  /\ \A i : Count(E2, i) = Count(E, i) /\ Named(E2, i) = Named(E, i)
         /\ Finite(E) => Finite(E2)
<1>1. ASSUME NEW i PROVE Named(E2, i) = Named(E, i)
  <2>1. \A de : de \in Named(E2, i) <=> de \in Named(E, i)
    BY NamedAt
  <2> QED BY <2>1, Zenon
<1> QED BY <1>1 DEF Count, Finite

LEMMA CountLess ==
  ASSUME NEW E, NEW E2, Finite(E), \A d \in Inodes : E2[d] \subseteq E[d], NEW i
  PROVE  Count(E2, i) <= Count(E, i)
<1>1. \A de : de \in Named(E2, i) => de \in Named(E, i)
  BY NamedAt
<1>2. Named(E2, i) \subseteq Named(E, i)
  BY <1>1, Zenon
<1> QED BY <1>2, NamedFinite, FS_Subset DEF Count

(* The entries of S that name an inode.                                     *)
Share(S, i) == Cardinality({e \in S : e.ino = i})

(* All entries of a directory less.                                         *)
LEMMA CountFree ==
  ASSUME NEW E, NEW E2, Finite(E), NEW d \in Inodes,
         E2[d] = {}, \A c \in Inodes \ {d} : E2[c] = E[c]
  PROVE  /\ Finite(E2)
         /\ \A i : /\ Share(E[d], i) \in Nat
                   /\ Count(E2, i) = Count(E, i) - Share(E[d], i)
<1>1. Finite(E2)
  BY FS_EmptySet DEF Finite
<1>2. ASSUME NEW i
      PROVE  /\ Share(E[d], i) \in Nat
             /\ Count(E2, i) = Count(E, i) - Share(E[d], i)
  <2> DEFINE T == {e \in E[d] : e.ino = i}
             D == {d} \X T
  <2>1. IsFiniteSet(T)
    BY FS_Subset DEF Finite
  <2>2. IsFiniteSet({d}) /\ Cardinality({d}) = 1
    BY FS_Singleton
  <2>3. IsFiniteSet(D) /\ Cardinality(D) = Cardinality(T)
    BY <2>1, <2>2, FS_Product, FS_CardinalityType
  <2>4. Named(E2, i) = Named(E, i) \ D
    <3>1. ASSUME NEW de, de \in Named(E2, i)
          PROVE  de \in Named(E, i) \ D
      <4>1. PICK c \in Inodes : \E f \in E2[c] : de = <<c, f>> /\ f.ino = i
        BY <3>1, NamedMember
      <4>2. PICK f \in E2[c] : de = <<c, f>> /\ f.ino = i
        BY <4>1
      <4>3. c # d
        BY <4>2
      <4>4. f \in E[c]
        BY <4>2, <4>3
      <4> QED BY <4>2, <4>3, <4>4, NamedMember
    <3>2. ASSUME NEW de, de \in Named(E, i), de \notin D
          PROVE  de \in Named(E2, i)
      <4>1. PICK c \in Inodes : \E f \in E[c] : de = <<c, f>> /\ f.ino = i
        BY <3>2, NamedMember
      <4>2. PICK f \in E[c] : de = <<c, f>> /\ f.ino = i
        BY <4>1
      <4>3. c # d
        BY <3>2, <4>2
      <4>4. f \in E2[c]
        BY <4>2, <4>3
      <4> QED BY <4>2, <4>4, NamedMember
    <3> QED BY <3>1, <3>2
  <2>5. D \subseteq Named(E, i)
    BY NamedMember
  <2>6. IsFiniteSet(Named(E, i))
    BY NamedFinite
  <2>7. Cardinality(Named(E, i) \ D) = Cardinality(Named(E, i)) - Cardinality(Named(E, i) \cap D)
    BY <2>6, FS_Difference
  <2>8. Named(E, i) \cap D = D
    BY <2>5
  <2> QED BY <2>1, <2>3, <2>4, <2>7, <2>8, FS_CardinalityType DEF Count, Share
<1> QED BY <1>1, <1>2

-----------------------------------------------------------------------------
(* The size of a drift: a cell for every unit that a count is off.          *)
LEMMA CellsFinite ==
  ASSUME NEW f \in [Inodes -> Nat]
  PROVE  IsFiniteSet(Cells(f)) /\ Cardinality(Cells(f)) \in Nat
<1> DEFINE F == {{i} \X (1 .. f[i]) : i \in Inodes}
<1>1. IsFiniteSet(F)
  <2> DEFINE g == [i \in Inodes |-> {i} \X (1 .. f[i])]
  <2>1. g \in Surjection(Inodes, F)
    BY Zenon DEF Surjection
  <2> QED BY <2>1, InodesFinite, FS_Surjection, Zenon
<1>2. \A T \in F : IsFiniteSet(T)
  <2> SUFFICES ASSUME NEW i \in Inodes
               PROVE  IsFiniteSet({i} \X (1 .. f[i]))
    OBVIOUS
  <2>1. f[i] \in Int /\ 1 \in Int
    OBVIOUS
  <2>2. IsFiniteSet({i}) /\ IsFiniteSet(1 .. f[i])
    BY <2>1, FS_Singleton, FS_Interval, Zenon
  <2> QED BY <2>2, FS_Product
<1> QED BY <1>1, <1>2, FS_UNION, FS_CardinalityType DEF Cells

LEMMA CellsAt ==
  ASSUME NEW f \in [Inodes -> Nat]
  PROVE  /\ \A i \in Inodes : \A k \in 1 .. f[i] : <<i, k>> \in Cells(f)
         /\ \A c \in Cells(f) : /\ c = <<c[1], c[2]>> /\ c[1] \in Inodes
                                /\ c[2] \in 1 .. f[c[1]]
<1>1. ASSUME NEW i \in Inodes, NEW k \in 1 .. f[i]
      PROVE  <<i, k>> \in Cells(f)
  <2>1. <<i, k>> \in {i} \X (1 .. f[i])
    OBVIOUS
  <2> QED BY <2>1 DEF Cells
<1>2. ASSUME NEW c \in Cells(f)
      PROVE  c = <<c[1], c[2]>> /\ c[1] \in Inodes /\ c[2] \in 1 .. f[c[1]]
  <2>1. PICK i \in Inodes : c \in {i} \X (1 .. f[i])
    BY DEF Cells
  <2>2. c[1] = i /\ c[2] \in 1 .. f[i] /\ c = <<c[1], c[2]>>
    BY <2>1
  <2> QED BY <2>2
<1> QED BY <1>1, <1>2

(* A function that grows by no more than the entries of S name each inode.  *)
LEMMA CellsGrow ==
  ASSUME NEW f \in [Inodes -> Nat], NEW g \in [Inodes -> Nat], NEW S, IsFiniteSet(S),
         \A i \in Inodes : g[i] <= f[i] + Share(S, i)
  PROVE  Cardinality(Cells(g)) <= Cardinality(Cells(f)) + Cardinality(S)
<1> DEFINE T(i) == {e \in S : e.ino = i}
           b(i) == CHOOSE m : m \in Bijection(1 .. Share(S, i), T(i))
           X    == Cells(g) \ Cells(f)
           h    == [c \in X |-> b(c[1])[c[2] - f[c[1]]]]
<1>1. ASSUME NEW i
      PROVE  Share(S, i) \in Nat /\ b(i) \in Bijection(1 .. Share(S, i), T(i))
  <2>1. IsFiniteSet(T(i))
    BY FS_Subset
  <2>2. Share(S, i) \in Nat /\ ExistsBijection(1 .. Share(S, i), T(i))
    BY <2>1, FS_CardinalityType DEF Share
  <2>3. \E m : m \in Bijection(1 .. Share(S, i), T(i))
    BY <2>2 DEF ExistsBijection
  <2> QED BY <2>2, <2>3
<1>2. ASSUME NEW i
      PROVE  /\ \A k \in 1 .. Share(S, i) : b(i)[k] \in S /\ b(i)[k].ino = i
             /\ \A k, l \in 1 .. Share(S, i) : b(i)[k] = b(i)[l] => k = l
  <2>1. b(i) \in Bijection(1 .. Share(S, i), T(i))
    BY <1>1
  <2> DEFINE m == b(i)
  <2> HIDE DEF b
  <2>2. m \in [1 .. Share(S, i) -> T(i)] /\ IsInjective(m)
    BY <2>1 DEF Bijection, Injection
  <2>3. \A k \in 1 .. Share(S, i) : m[k] \in T(i)
    BY <2>2
  <2>4. \A k, l \in 1 .. Share(S, i) : m[k] = m[l] => k = l
    BY <2>2 DEF IsInjective
  <2> QED BY <2>3, <2>4
<1> HIDE DEF T, b
<1>3. ASSUME NEW c \in X
      PROVE  /\ c = <<c[1], c[2]>> /\ c[1] \in Inodes /\ c[2] \in Nat /\ f[c[1]] \in Nat
             /\ c[2] - f[c[1]] \in 1 .. Share(S, c[1])
  <2>1. c = <<c[1], c[2]>> /\ c[1] \in Inodes /\ c[2] \in 1 .. g[c[1]]
    BY CellsAt
  <2>2. c[2] \notin 1 .. f[c[1]]
    BY <2>1, CellsAt
  <2>3. f[c[1]] \in Nat /\ g[c[1]] \in Nat /\ Share(S, c[1]) \in Nat
        /\ g[c[1]] <= f[c[1]] + Share(S, c[1])
    BY <1>1, <2>1
  <2>4. \A x, p, q, r \in Int : x \in 1 .. q /\ x \notin 1 .. p /\ q <= p + r /\ p >= 0
                             => x - p \in 1 .. r /\ x >= 0
    BY SMT
  <2>5. c[2] \in Int
    BY <2>1
  <2> QED BY <2>1, <2>2, <2>3, <2>4, <2>5
<1>4. \A c \in X : h[c] \in S /\ h[c].ino = c[1]
  BY <1>2, <1>3
<1>5. ASSUME NEW c \in X, NEW d \in X, h[c] = h[d]
      PROVE  c = d
  <2>1. c[1] = d[1]
    BY <1>4, <1>5
  <2>2. b(c[1])[c[2] - f[c[1]]] = b(c[1])[d[2] - f[c[1]]]
    BY <1>5, <2>1
  <2>3. c[2] - f[c[1]] \in 1 .. Share(S, c[1]) /\ d[2] - f[c[1]] \in 1 .. Share(S, c[1])
    BY <1>3, <2>1
  <2>4. c[2] - f[c[1]] = d[2] - f[c[1]]
    BY <1>2, <2>2, <2>3
  <2>5. \A x, y, z \in Nat : x - z = y - z => x = y
    BY SMT
  <2>6. c[2] = d[2]
    BY <1>3, <2>4, <2>5
  <2> QED BY <1>3, <2>1, <2>6
<1>6. h \in Injection(X, S)
  <2>1. h \in [X -> S]
    BY <1>4
  <2> HIDE DEF h, X
  <2> QED BY <1>5, <2>1 DEF Injection, IsInjective
<1>7. IsFiniteSet(X) /\ Cardinality(X) <= Cardinality(S)
  <2> HIDE DEF h, X
  <2> QED BY <1>6, FS_Injection
<1>8. IsFiniteSet(Cells(f)) /\ IsFiniteSet(Cells(g))
  BY CellsFinite
<1>9. Cells(g) \subseteq Cells(f) \cup X
  OBVIOUS
<1> HIDE DEF X
<1>10. IsFiniteSet(Cells(f) \cup X)
       /\ Cardinality(Cells(f) \cup X)
            = Cardinality(Cells(f)) + Cardinality(X) - Cardinality(Cells(f) \cap X)
  BY <1>7, <1>8, FS_Union
<1>11. Cardinality(Cells(f) \cap X) \in Nat
  BY <1>8, FS_Intersection, FS_CardinalityType
<1>12. Cardinality(Cells(g)) <= Cardinality(Cells(f) \cup X)
  BY <1>9, <1>10, FS_Subset
<1>13. /\ Cardinality(Cells(f)) \in Nat /\ Cardinality(Cells(g)) \in Nat /\ Cardinality(X) \in Nat
       /\ Cardinality(S) \in Nat
  BY <1>7, <1>8, FS_CardinalityType
<1> QED BY <1>7, <1>10, <1>11, <1>12, <1>13, SMT

LEMMA SizeGrow ==
  ASSUME NEW dr \in [Inodes -> Int], NEW dr2 \in [Inodes -> Int], NEW S, IsFiniteSet(S),
         \A i \in Inodes : Abs(dr2[i]) <= Abs(dr[i]) + Share(S, i)
  PROVE  Size(dr2) <= Size(dr) + Cardinality(S) /\ Size(dr) \in Nat /\ Size(dr2) \in Nat
<1> DEFINE f == [i \in Inodes |-> Abs(dr[i])]
           g == [i \in Inodes |-> Abs(dr2[i])]
<1>1. f \in [Inodes -> Nat] /\ g \in [Inodes -> Nat]
  BY SMT DEF Abs
<1>2. \A i \in Inodes : g[i] <= f[i] + Share(S, i)
  OBVIOUS
<1>3. Size(dr) = Cardinality(Cells(f)) /\ Size(dr2) = Cardinality(Cells(g))
  BY DEF Size
<1> HIDE DEF f, g
<1> QED BY <1>1, <1>2, <1>3, CellsGrow, CellsFinite

LEMMA SizeLess ==
  ASSUME NEW dr \in [Inodes -> Int], NEW dr2 \in [Inodes -> Int],
         \A i \in Inodes : Abs(dr2[i]) <= Abs(dr[i])
  PROVE  Size(dr2) <= Size(dr) /\ Size(dr) \in Nat /\ Size(dr2) \in Nat
<1>1. \A i : {e \in {} : e.ino = i} = {}
  OBVIOUS
<1>2. \A i : Share({}, i) = 0
  BY <1>1, FS_EmptySet DEF Share
<1>3. \A i \in Inodes : Abs(dr[i]) \in Nat
  BY SMT DEF Abs
<1>4. \A i \in Inodes : Abs(dr2[i]) <= Abs(dr[i]) + Share({}, i)
  BY <1>2, <1>3, SMT
<1>5. IsFiniteSet({}) /\ Cardinality({}) = 0
  BY FS_EmptySet
<1>6. Size(dr2) <= Size(dr) + Cardinality({}) /\ Size(dr) \in Nat /\ Size(dr2) \in Nat
  BY <1>4, <1>5, SizeGrow
<1> QED BY <1>5, <1>6, SMT

LEMMA SizeOne ==
  ASSUME NEW dr \in [Inodes -> Int], NEW dr2 \in [Inodes -> Int], NEW j,
         \A i \in Inodes : Abs(dr2[i]) <= Abs(dr[i]) + (IF i = j THEN 1 ELSE 0)
  PROVE  Size(dr2) <= Size(dr) + 1 /\ Size(dr) \in Nat /\ Size(dr2) \in Nat
<1> DEFINE e == Entry(NoName, j)
<1>1. e.ino = j
  BY DEF Entry
<1> HIDE DEF e
<1>2. \A i : {x \in {e} : x.ino = i} = IF i = j THEN {e} ELSE {}
  BY <1>1
<1>3. IsFiniteSet({e}) /\ Cardinality({e}) = 1 /\ Cardinality({}) = 0
  BY FS_Singleton, FS_EmptySet
<1>4. \A i : Share({e}, i) = IF i = j THEN 1 ELSE 0
  BY <1>2, <1>3 DEF Share
<1>5. \A i \in Inodes : Abs(dr2[i]) <= Abs(dr[i]) + Share({e}, i)
  BY <1>4
<1>6. Size(dr2) <= Size(dr) + Cardinality({e}) /\ Size(dr) \in Nat /\ Size(dr2) \in Nat
  BY <1>3, <1>5, SizeGrow
<1> QED BY <1>3, <1>6

-----------------------------------------------------------------------------
(* The steps of the commands, as they change the drift.                     *)

LEMMA DriftSame ==
  ASSUME NEW E, NEW E2, NEW L, NEW L2, NEW B, NEW B2, NEW k, Drifted(E, L, B, k),
         \A d \in Inodes : E2[d] = E[d] /\ L2[d] = L[d], B2 \subseteq B
  PROVE  Drifted(E2, L2, B2, k)
<1>1. \A i : Count(E2, i) = Count(E, i)
  BY CountSame
<1>2. PICK dr \in [Inodes -> Int] : DriftBy(dr, E, L, B) /\ Size(dr) <= k
  BY DEF Drifted
<1>3. DriftBy(dr, E2, L2, B2)
  BY <1>1, <1>2 DEF DriftBy
<1> QED BY <1>2, <1>3 DEF Drifted

LEMMA DriftLess ==
  ASSUME NEW E, NEW L, NEW B, NEW k \in Int, NEW m \in Int, Drifted(E, L, B, k), k <= m
  PROVE  Drifted(E, L, B, m)
<1>1. PICK dr \in [Inodes -> Int] : DriftBy(dr, E, L, B) /\ Size(dr) <= k
  BY DEF Drifted
<1>2. Size(dr) \in Nat
  <2>1. \A i \in Inodes : Abs(dr[i]) <= Abs(dr[i])
    BY SMT DEF Abs
  <2> QED BY <2>1, SizeLess
<1>3. Size(dr) <= m
  BY <1>1, <1>2, SMT
<1> QED BY <1>1, <1>3 DEF Drifted

(* A name is given and its link counted.                                    *)
LEMMA DriftCount ==
  ASSUME NEW E, NEW E2, NEW L, NEW L2, NEW B, NEW k, NEW d, NEW e,
         Finite(E), Drifted(E, L, B, k), Gains(E, E2, d, e), e.ino \notin B,
         \A i \in Inodes : L[i] \in Int /\ L2[i] = IF i = e.ino THEN Inc16(L[i]) ELSE L[i],
         B \subseteq Inodes
  PROVE  Drifted(E2, L2, B, k)
<1>1. PICK dr \in [Inodes -> Int] : DriftBy(dr, E, L, B) /\ Size(dr) <= k
  BY DEF Drifted
<1>2. \A i : Count(E2, i) = Count(E, i) + (IF i = e.ino THEN 1 ELSE 0)
  BY CountGain
<1>3. \A i : Count(E, i) \in Nat
  BY NamedFinite
<1>4. ASSUME NEW i \in Inodes
      PROVE  Same16(L2[i], Count(E2, i) + dr[i])
  <2>1. Same16(L[i], Count(E, i) + dr[i]) /\ dr[i] \in Int /\ L[i] \in Int /\ Count(E, i) \in Nat
    BY <1>1, <1>3 DEF DriftBy
  <2>2. CASE i # e.ino
    <3>1. L2[i] = L[i] /\ Count(E2, i) = Count(E, i)
      BY <1>2, <1>3, <2>2
    <3> QED BY <2>1, <3>1
  <2>3. CASE i = e.ino
    <3>1. L2[i] = (L[i] + 1) % U16 /\ Count(E2, i) = Count(E, i) + 1
      BY <1>2, <2>3 DEF Inc16
    <3>2. (L[i] + 1) - L2[i] \in Wraps /\ L2[i] \in Int
      <4>1. L[i] + 1 \in Int
        BY <2>1
      <4>2. (L[i] + 1) % U16 \in 0 .. U16 - 1 /\ (L[i] + 1) - ((L[i] + 1) % U16) \in Wraps
        BY <4>1, Remainder
      <4> QED BY <3>1, <4>2, Width
    <3>3. L[i] - (Count(E, i) + dr[i]) \in Wraps
      BY <2>1 DEF Same16
    <3>4. (L[i] - (Count(E, i) + dr[i])) - ((L[i] + 1) - L2[i]) \in Wraps
      BY <3>2, <3>3, WrapsClosed
    <3>5. (L[i] - (Count(E, i) + dr[i])) - ((L[i] + 1) - L2[i]) = L2[i] - (Count(E2, i) + dr[i])
      BY <2>1, <3>1, <3>2, SMT
    <3> QED BY <3>4, <3>5 DEF Same16
  <2> QED BY <2>2, <2>3
<1>5. \A i \in B : dr[i] <= 0 - Count(E2, i)
  <2>1. \A i \in B : Count(E2, i) = Count(E, i)
    BY <1>2, <1>3
  <2> QED BY <1>1, <2>1 DEF DriftBy
<1> QED BY <1>1, <1>4, <1>5 DEF Drifted, DriftBy

(* A name is taken away and its link dropped.                               *)
LEMMA DriftDrop ==
  ASSUME NEW E, NEW E2, NEW L, NEW L2, NEW B, NEW k, NEW d, NEW e,
         Finite(E), Drifted(E, L, B, k), Gains(E2, E, d, e),
         \A i \in Inodes : /\ L[i] \in Int
                           /\ L2[i] = IF i = e.ino THEN (L[i] + U16 - 1) % U16 ELSE L[i],
         B \subseteq Inodes
  PROVE  Drifted(E2, L2, B, k)
<1>1. PICK dr \in [Inodes -> Int] : DriftBy(dr, E, L, B) /\ Size(dr) <= k
  BY DEF Drifted
<1>2. \A i : Count(E2, i) = Count(E, i) - (IF i = e.ino THEN 1 ELSE 0)
  BY CountLose
<1>3. \A i : Count(E, i) \in Nat
  BY NamedFinite
<1>4. ASSUME NEW i \in Inodes
      PROVE  Same16(L2[i], Count(E2, i) + dr[i])
  <2>1. Same16(L[i], Count(E, i) + dr[i]) /\ dr[i] \in Int /\ L[i] \in Int /\ Count(E, i) \in Nat
    BY <1>1, <1>3 DEF DriftBy
  <2>2. CASE i # e.ino
    <3>1. L2[i] = L[i] /\ Count(E2, i) = Count(E, i)
      BY <1>2, <1>3, <2>2
    <3> QED BY <2>1, <3>1
  <2>3. CASE i = e.ino
    <3>1. L2[i] = (L[i] + U16 - 1) % U16 /\ Count(E2, i) = Count(E, i) - 1
      BY <1>2, <2>3
    <3>2. (L[i] + U16 - 1) - L2[i] \in Wraps /\ L2[i] \in Int
      <4>1. L[i] + U16 - 1 \in Int /\ U16 \in Int
        BY <2>1, Width, SMT
      <4>2. /\ (L[i] + U16 - 1) % U16 \in 0 .. U16 - 1
            /\ (L[i] + U16 - 1) - ((L[i] + U16 - 1) % U16) \in Wraps
        BY <4>1, Remainder
      <4> QED BY <3>1, <4>2, Width
    <3>3. L[i] - (Count(E, i) + dr[i]) \in Wraps
      BY <2>1 DEF Same16
    <3>4. ((L[i] - (Count(E, i) + dr[i])) - ((L[i] + U16 - 1) - L2[i])) + U16 \in Wraps
      BY <3>2, <3>3, WrapsClosed
    <3>5. ((L[i] - (Count(E, i) + dr[i])) - ((L[i] + U16 - 1) - L2[i])) + U16
            = L2[i] - (Count(E2, i) + dr[i])
      BY <2>1, <3>1, <3>2, Width, SMT
    <3> QED BY <3>4, <3>5 DEF Same16
  <2> QED BY <2>2, <2>3
<1>5. \A i \in B : dr[i] <= 0 - Count(E2, i)
  <2>1. \A i \in B : Count(E2, i) <= Count(E, i) /\ Count(E2, i) \in Int
    BY <1>2, <1>3, SMT
  <2>2. \A i \in B : dr[i] <= 0 - Count(E, i) /\ dr[i] \in Int
    BY <1>1 DEF DriftBy
  <2> QED BY <1>3, <2>1, <2>2, SMT
<1> QED BY <1>1, <1>4, <1>5 DEF Drifted, DriftBy

(* A crash between the two.                                                 *)
LEMMA DriftCrashGain ==
  ASSUME NEW E, NEW E2, NEW L, NEW B, NEW k \in Int, NEW d, NEW e,
         Finite(E), Drifted(E, L, B, k), Gains(E, E2, d, e),
         \A i \in Inodes : L[i] \in Int, B \subseteq Inodes
  PROVE  Drifted(E2, L, B, k + 1)
<1>1. PICK dr \in [Inodes -> Int] : DriftBy(dr, E, L, B) /\ Size(dr) <= k
  BY DEF Drifted
<1>2. \A i : Count(E2, i) = Count(E, i) + (IF i = e.ino THEN 1 ELSE 0)
  BY CountGain
<1>3. \A i : Count(E, i) \in Nat
  BY NamedFinite
<1> DEFINE dr2 == [i \in Inodes |-> IF i = e.ino THEN dr[i] - 1 ELSE dr[i]]
<1>4. dr2 \in [Inodes -> Int]
  OBVIOUS
<1>5. \A i \in Inodes : Count(E2, i) + dr2[i] = Count(E, i) + dr[i]
  BY <1>2, <1>3, SMT
<1>6. \A i \in B : dr2[i] <= 0 - Count(E2, i)
  <2>1. \A i \in B : dr[i] <= 0 - Count(E, i) /\ dr[i] \in Int /\ i \in Inodes
    BY <1>1 DEF DriftBy
  <2> QED BY <1>2, <1>3, <2>1, SMT
<1>7. DriftBy(dr2, E2, L, B)
  BY <1>1, <1>5, <1>6 DEF DriftBy
<1>8. \A i \in Inodes : Abs(dr2[i]) <= Abs(dr[i]) + (IF i = e.ino THEN 1 ELSE 0)
  BY SMT DEF Abs
<1> HIDE DEF dr2
<1>9. Size(dr2) <= Size(dr) + 1 /\ Size(dr) \in Nat /\ Size(dr2) \in Nat
  BY <1>4, <1>8, SizeOne
<1>10. Size(dr2) <= k + 1
  BY <1>1, <1>9, SMT
<1> QED BY <1>4, <1>7, <1>10 DEF Drifted

LEMMA DriftCrashLose ==
  ASSUME NEW E, NEW E2, NEW L, NEW B, NEW k \in Int, NEW d, NEW e,
         Finite(E), Drifted(E, L, B, k), Gains(E2, E, d, e),
         \A i \in Inodes : L[i] \in Int, B \subseteq Inodes
  PROVE  Drifted(E2, L, B, k + 1)
<1>1. PICK dr \in [Inodes -> Int] : DriftBy(dr, E, L, B) /\ Size(dr) <= k
  BY DEF Drifted
<1>2. \A i : Count(E2, i) = Count(E, i) - (IF i = e.ino THEN 1 ELSE 0)
  BY CountLose
<1>3. \A i : Count(E, i) \in Nat
  BY NamedFinite
<1> DEFINE dr2 == [i \in Inodes |-> IF i = e.ino THEN dr[i] + 1 ELSE dr[i]]
<1>4. dr2 \in [Inodes -> Int]
  OBVIOUS
<1>5. \A i \in Inodes : Count(E2, i) + dr2[i] = Count(E, i) + dr[i]
  BY <1>2, <1>3, SMT
<1>6. \A i \in B : dr2[i] <= 0 - Count(E2, i)
  <2>1. \A i \in B : dr[i] <= 0 - Count(E, i) /\ dr[i] \in Int /\ i \in Inodes
    BY <1>1 DEF DriftBy
  <2> QED BY <1>2, <1>3, <2>1, SMT
<1>7. DriftBy(dr2, E2, L, B)
  BY <1>1, <1>5, <1>6 DEF DriftBy
<1>8. \A i \in Inodes : Abs(dr2[i]) <= Abs(dr[i]) + (IF i = e.ino THEN 1 ELSE 0)
  BY SMT DEF Abs
<1> HIDE DEF dr2
<1>9. Size(dr2) <= Size(dr) + 1 /\ Size(dr) \in Nat /\ Size(dr2) \in Nat
  BY <1>4, <1>8, SizeOne
<1>10. Size(dr2) <= k + 1
  BY <1>1, <1>9, SMT
<1> QED BY <1>4, <1>7, <1>10 DEF Drifted

(* A name of an inode that is not there yet is taken for a new one.         *)
LEMMA DriftTaken ==
  ASSUME NEW E, NEW E2, NEW L, NEW B, NEW k \in Int, NEW d, NEW e,
         Finite(E), Drifted(E, L, B, k), Gains(E2, E, d, e), e.ino \in B,
         \A i \in Inodes : L[i] \in Int, B \subseteq Inodes
  PROVE  Drifted(E2, L, B, k)
<1>1. PICK dr \in [Inodes -> Int] : DriftBy(dr, E, L, B) /\ Size(dr) <= k
  BY DEF Drifted
<1>2. /\ \A i : Count(E2, i) = Count(E, i) - (IF i = e.ino THEN 1 ELSE 0)
      /\ Count(E, e.ino) >= 1
  BY CountLose
<1>3. \A i : Count(E, i) \in Nat
  BY NamedFinite
<1> DEFINE dr2 == [i \in Inodes |-> IF i = e.ino THEN dr[i] + 1 ELSE dr[i]]
<1>4. dr2 \in [Inodes -> Int]
  OBVIOUS
<1>5. \A i \in Inodes : Count(E2, i) + dr2[i] = Count(E, i) + dr[i]
  BY <1>2, <1>3, SMT
<1>6. \A i \in B : dr[i] <= 0 - Count(E, i) /\ dr[i] \in Int /\ i \in Inodes
  BY <1>1 DEF DriftBy
<1>7. \A i \in B : dr2[i] <= 0 - Count(E2, i)
  BY <1>2, <1>3, <1>6, SMT
<1>8. DriftBy(dr2, E2, L, B)
  BY <1>1, <1>5, <1>7 DEF DriftBy
<1>9. \A i \in Inodes : Abs(dr2[i]) <= Abs(dr[i])
  BY <1>2, <1>3, <1>6, SMT DEF Abs
<1> HIDE DEF dr2
<1>10. Size(dr2) <= Size(dr) /\ Size(dr) \in Nat /\ Size(dr2) \in Nat
  BY <1>4, <1>9, SizeLess
<1>11. Size(dr2) <= k
  BY <1>1, <1>10, SMT
<1> QED BY <1>4, <1>8, <1>11 DEF Drifted

(* The count of such an inode is set to 0.                                  *)
LEMMA DriftReset ==
  ASSUME NEW E, NEW L, NEW L2, NEW B, NEW k \in Int, NEW n \in B,
         Finite(E), Drifted(E, L, B, k),
         \A i \in Inodes : L[i] \in Int /\ L2[i] = IF i = n THEN 0 ELSE L[i],
         B \subseteq Inodes
  PROVE  Drifted(E, L2, B, k)
<1>1. PICK dr \in [Inodes -> Int] : DriftBy(dr, E, L, B) /\ Size(dr) <= k
  BY DEF Drifted
<1>2. \A i : Count(E, i) \in Nat
  BY NamedFinite
<1> DEFINE dr2 == [i \in Inodes |-> IF i = n THEN 0 - Count(E, i) ELSE dr[i]]
<1>3. dr2 \in [Inodes -> Int]
  BY <1>2
<1>4. \A i \in B : dr[i] <= 0 - Count(E, i) /\ dr[i] \in Int /\ i \in Inodes
  BY <1>1 DEF DriftBy
<1>5. ASSUME NEW i \in Inodes
      PROVE  Same16(L2[i], Count(E, i) + dr2[i])
  <2>1. CASE i = n
    <3>1. L2[i] = 0 /\ Count(E, i) + dr2[i] = 0
      BY <1>2, <2>1, SMT
    <3>2. 0 - 0 = 0
      OBVIOUS
    <3> QED BY <3>1, <3>2, WrapsClosed DEF Same16
  <2>2. CASE i # n
    <3>1. L2[i] = L[i] /\ dr2[i] = dr[i]
      BY <2>2
    <3> QED BY <1>1, <3>1 DEF DriftBy
  <2> QED BY <2>1, <2>2
<1>6. \A i \in B : dr2[i] <= 0 - Count(E, i)
  BY <1>2, <1>4, SMT
<1>7. DriftBy(dr2, E, L2, B)
  BY <1>5, <1>6 DEF DriftBy
<1>8. \A i \in Inodes : Abs(dr2[i]) <= Abs(dr[i])
  BY <1>2, <1>4, SMT DEF Abs
<1> HIDE DEF dr2
<1>9. Size(dr2) <= Size(dr) /\ Size(dr) \in Nat /\ Size(dr2) \in Nat
  BY <1>3, <1>8, SizeLess
<1>10. Size(dr2) <= k
  BY <1>1, <1>9, SMT
<1> QED BY <1>3, <1>7, <1>10 DEF Drifted

(* An inode whose count has come to 0 is freed, with the entries in it.     *)
LEMMA DriftFree ==
  ASSUME NEW E, NEW E2, NEW L, NEW B, NEW k \in Int, NEW j \in Inodes,
         Finite(E), Drifted(E, L, B, k), L[j] = 0,
         E2[j] = {}, \A c \in Inodes \ {j} : E2[c] = E[c],
         2 * Count(E2, j) < U16,
         \A i \in Inodes : L[i] \in Int, B \subseteq Inodes
  PROVE  Drifted(E2, L, B \cup {j}, k + Cardinality(E[j]))
<1>1. PICK dr \in [Inodes -> Int] : DriftBy(dr, E, L, B) /\ Size(dr) <= k
  BY DEF Drifted
<1>2. /\ Finite(E2)
      /\ \A i : Share(E[j], i) \in Nat /\ Count(E2, i) = Count(E, i) - Share(E[j], i)
  BY CountFree
<1>3. \A i : Count(E, i) \in Nat /\ Count(E2, i) \in Nat
  BY <1>2, NamedFinite
<1> DEFINE dr2 == [i \in Inodes |-> IF i = j THEN 0 - Count(E2, i) ELSE dr[i] + Share(E[j], i)]
<1>4. dr2 \in [Inodes -> Int]
  BY <1>2, <1>3
<1>5. ASSUME NEW i \in Inodes
      PROVE  Same16(L[i], Count(E2, i) + dr2[i])
  <2>1. CASE i = j
    <3>1. L[i] = 0 /\ Count(E2, i) + dr2[i] = 0
      BY <1>3, <2>1, SMT
    <3>2. 0 - 0 = 0
      OBVIOUS
    <3> QED BY <3>1, <3>2, WrapsClosed DEF Same16
  <2>2. CASE i # j
    <3>1. Count(E2, i) + dr2[i] = Count(E, i) + dr[i]
      BY <1>2, <1>3, <2>2, SMT
    <3> QED BY <1>1, <3>1 DEF DriftBy
  <2> QED BY <2>1, <2>2
<1>6. \A i \in B : dr[i] <= 0 - Count(E, i) /\ dr[i] \in Int /\ i \in Inodes
  BY <1>1 DEF DriftBy
<1>7. \A i \in B \cup {j} : dr2[i] <= 0 - Count(E2, i)
  BY <1>2, <1>3, <1>6, SMT
<1>8. DriftBy(dr2, E2, L, B \cup {j})
  BY <1>5, <1>7 DEF DriftBy
<1>9. Abs(dr2[j]) <= Abs(dr[j]) + Share(E[j], j)
  <2> DEFINE D == dr[j] + Share(E[j], j)
             n == Count(E2, j)
  <2>1. D \in Int /\ n \in Nat /\ Share(E[j], j) \in Nat /\ dr[j] \in Int
    BY <1>2, <1>3
  <2>2. Count(E, j) + dr[j] = n + D
    BY <1>2, <1>3, SMT
  <2>3. Same16(0, n + D)
    BY <1>1, <2>2 DEF DriftBy
  <2>4. 0 - (n + D) \in Wraps
    BY <2>3 DEF Same16
  <2>5. n + D = 0 \/ n + D >= U16 \/ n + D <= 0 - U16
    <3>1. 0 - (n + D) = 0 \/ 0 - (n + D) >= U16 \/ 0 - (n + D) <= 0 - U16
      BY <2>4, WrapsApart
    <3> HIDE DEF n, D
    <3> QED BY <2>1, <3>1, Width, SMT
  <2>6. dr2[j] = 0 - n /\ 2 * n < U16
    OBVIOUS
  <2>7. Abs(dr2[j]) = n
    <3> HIDE DEF n, dr2
    <3> QED BY <2>1, <2>6, SMT DEF Abs
  <2>8. n <= Abs(D)
    <3> HIDE DEF n, D, dr2
    <3> QED BY <2>1, <2>5, <2>6, Width, SMT DEF Abs
  <2>9. Abs(D) <= Abs(dr[j]) + Share(E[j], j)
    BY <2>1, SMT DEF Abs
  <2>10. Abs(D) \in Nat /\ Abs(dr[j]) \in Nat
    BY <2>1, SMT DEF Abs
  <2> HIDE DEF n, D, dr2
  <2> QED BY <2>1, <2>7, <2>8, <2>9, <2>10, SMT
<1>10. \A i \in Inodes : Abs(dr2[i]) <= Abs(dr[i]) + Share(E[j], i)
  <2> SUFFICES ASSUME NEW i \in Inodes, i # j
               PROVE  Abs(dr2[i]) <= Abs(dr[i]) + Share(E[j], i)
    BY <1>9
  <2>1. dr2[i] = dr[i] + Share(E[j], i) /\ dr[i] \in Int /\ Share(E[j], i) \in Nat
    BY <1>2
  <2> HIDE DEF dr2
  <2> QED BY <2>1, SMT DEF Abs
<1> HIDE DEF dr2
<1>11. IsFiniteSet(E[j]) /\ Cardinality(E[j]) \in Nat
  BY FS_CardinalityType DEF Finite
<1>12. Size(dr2) <= Size(dr) + Cardinality(E[j]) /\ Size(dr) \in Nat /\ Size(dr2) \in Nat
  BY <1>4, <1>10, <1>11, SizeGrow
<1>13. Size(dr2) <= k + Cardinality(E[j])
  BY <1>1, <1>11, <1>12, SMT
<1> QED BY <1>4, <1>8, <1>13 DEF Drifted

-----------------------------------------------------------------------------
(* What is left of a command, from each part on.                            *)
Mkdir2    == <<Link("child", Dot, "child"), Link("child", DotDot, "parent")>>
Mkdir3    == <<Link("child", DotDot, "parent")>>
CpTodo(n) == <<Link("parent", n, "child")>>
RmTodo(n) == <<Unlink("parent", n)>>
Rmdir2(n) == <<Unlink("child", Dot), Reread("parent"), Unlink("parent", n)>>
Rmdir3(n) == <<Reread("parent"), Unlink("parent", n)>>

Todos ==
  {<<>>, Mkdir2, Mkdir3}
    \cup UNION {{MkdirTodo(n), CpTodo(n), RmTodo(n), RmdirTodo(n), Rmdir2(n), Rmdir3(n)} :
                n \in Names}

DirEntry == [name : Names \cup Dots \cup {NoName}, ino : Inodes]
Handle   == [ino : Inodes \cup {0}, links : 0 .. U16 - 1]

TypeInv ==
  /\ marked \subseteq Inodes
  /\ kind \in [Inodes -> {"none", "dir", "file"}]
  /\ links \in [Inodes -> 0 .. U16 - 1]
  /\ ents \in [Inodes -> SUBSET DirEntry] /\ Finite(ents)
  /\ pwd \in Inodes
  /\ hdl \in [parent : Handle, child : Handle]
  /\ pc \in {"rest", "mark", "inode", "next", "count", "drop", "clear", "wipe", "halted",
             "lost"}
  /\ op \in [cmd : {"none", "mkdir", "cp", "rm", "rmdir"}, todo : Todos,
             e : DirEntry \cup {NoEntry}, late : BOOLEAN, first : DirEntry \cup {NoEntry}]
  /\ torn \subseteq Inodes /\ leaked \subseteq Inodes /\ dropped \subseteq Inodes
  /\ spilt \in Nat /\ crashes \in Nat

LEMMA Heads ==
  ASSUME NEW n
  PROVE  /\ Head(MkdirTodo(n)) = Link("parent", n, "child")
         /\ Head(CpTodo(n)) = Link("parent", n, "child")
         /\ Head(Mkdir2) = Link("child", Dot, "child")
         /\ Head(Mkdir3) = Link("child", DotDot, "parent")
         /\ Head(RmTodo(n)) = Unlink("parent", n)
         /\ Head(RmdirTodo(n)) = Unlink("child", DotDot)
         /\ Head(Rmdir2(n)) = Unlink("child", Dot)
         /\ Head(Rmdir3(n)) = Reread("parent")
BY DEF MkdirTodo, CpTodo, Mkdir2, Mkdir3, RmTodo, RmdirTodo, Rmdir2, Rmdir3

LEMMA Tails ==
  ASSUME NEW n
  PROVE  /\ Tail(MkdirTodo(n)) = Mkdir2 /\ Tail(Mkdir2) = Mkdir3 /\ Tail(Mkdir3) = <<>>
         /\ Tail(CpTodo(n)) = <<>> /\ Tail(RmTodo(n)) = <<>>
         /\ Tail(RmdirTodo(n)) = Rmdir2(n) /\ Tail(Rmdir2(n)) = Rmdir3(n)
         /\ Tail(Rmdir3(n)) = RmTodo(n)
<1>1. \A a, b, c, d : /\ Tail(<<a>>) = <<>> /\ Tail(<<a, b>>) = <<b>>
                      /\ Tail(<<a, b, c>>) = <<b, c>> /\ Tail(<<a, b, c, d>>) = <<b, c, d>>
  OBVIOUS
<1>2. /\ Tail(MkdirTodo(n)) = Mkdir2 /\ Tail(Mkdir2) = Mkdir3 /\ Tail(Mkdir3) = <<>>
      /\ Tail(CpTodo(n)) = <<>> /\ Tail(RmTodo(n)) = <<>>
  BY <1>1 DEF MkdirTodo, CpTodo, Mkdir2, Mkdir3, RmTodo
<1>3. /\ Tail(RmdirTodo(n)) = Rmdir2(n) /\ Tail(Rmdir2(n)) = Rmdir3(n)
      /\ Tail(Rmdir3(n)) = RmTodo(n)
  BY <1>1 DEF RmTodo, RmdirTodo, Rmdir2, Rmdir3
<1> QED BY <1>2, <1>3

LEMMA NotEmpty ==
  ASSUME NEW n
  PROVE  /\ MkdirTodo(n) # <<>> /\ Mkdir2 # <<>> /\ Mkdir3 # <<>> /\ CpTodo(n) # <<>>
         /\ RmTodo(n) # <<>> /\ RmdirTodo(n) # <<>> /\ Rmdir2(n) # <<>> /\ Rmdir3(n) # <<>>
<1>1. \A a, b, c, d : /\ <<a>> # <<>> /\ <<a, b>> # <<>>
                      /\ <<a, b, c>> # <<>> /\ <<a, b, c, d>> # <<>>
  OBVIOUS
<1> QED BY <1>1, Zenon DEF MkdirTodo, CpTodo, Mkdir2, Mkdir3, RmTodo, RmdirTodo, Rmdir2, Rmdir3

LEMMA TodosClosed ==
  /\ <<>> \in Todos /\ Mkdir2 \in Todos /\ Mkdir3 \in Todos
  /\ \A n \in Names : /\ MkdirTodo(n) \in Todos /\ CpTodo(n) \in Todos /\ RmTodo(n) \in Todos
                      /\ RmdirTodo(n) \in Todos /\ Rmdir2(n) \in Todos /\ Rmdir3(n) \in Todos
  /\ \A t \in Todos : \/ t \in {<<>>, Mkdir2, Mkdir3}
                      \/ \E n \in Names : t \in {MkdirTodo(n), CpTodo(n), RmTodo(n), RmdirTodo(n),
                                                 Rmdir2(n), Rmdir3(n)}
  /\ \A t \in Todos : t # <<>> => Tail(t) \in Todos
<1>1. /\ <<>> \in Todos /\ Mkdir2 \in Todos /\ Mkdir3 \in Todos
      /\ \A n \in Names : /\ MkdirTodo(n) \in Todos /\ CpTodo(n) \in Todos /\ RmTodo(n) \in Todos
                          /\ RmdirTodo(n) \in Todos /\ Rmdir2(n) \in Todos /\ Rmdir3(n) \in Todos
  BY Zenon DEF Todos
<1>2. ASSUME NEW t \in Todos
      PROVE  \/ t \in {<<>>, Mkdir2, Mkdir3}
             \/ \E n \in Names : t \in {MkdirTodo(n), CpTodo(n), RmTodo(n), RmdirTodo(n),
                                        Rmdir2(n), Rmdir3(n)}
  BY Zenon DEF Todos
<1>3. ASSUME NEW t \in Todos, t # <<>>
      PROVE  Tail(t) \in Todos
  <2>1. CASE t = Mkdir2 \/ t = Mkdir3
    BY <1>1, <2>1, Tails
  <2>2. ASSUME NEW n \in Names,
               t \in {MkdirTodo(n), CpTodo(n), RmTodo(n), RmdirTodo(n), Rmdir2(n), Rmdir3(n)}
        PROVE  Tail(t) \in Todos
    BY <1>1, <2>2, Tails
  <2> QED BY <1>2, <1>3, <2>1, <2>2
<1> QED BY <1>1, <1>2, <1>3

(* What a part is, told from its kind.                                      *)
LEMMA TaskIs ==
  ASSUME NEW at \in {"parent", "child"}, NEW to \in {"parent", "child"}, NEW n
  PROVE  /\ Link(at, n, to).do = "link" /\ Link(at, n, to).at = at
         /\ Link(at, n, to).name = n /\ Link(at, n, to).to = to
         /\ Unlink(at, n).do = "unlink" /\ Unlink(at, n).at = at /\ Unlink(at, n).name = n
         /\ Reread(at).do = "reread" /\ Reread(at).at = at
BY DEF Link, Unlink, Reread

Par == hdl.parent.ino
Chd == hdl.child.ino

(* A free inode is zeroed, and only directories have entries.               *)
DiskOK ==
  /\ \A i \in Inodes \ marked : kind[i] = "none"
  /\ \A i \in Inodes : kind[i] # "dir" => ents[i] = {}

(* The handle of the directory a name goes to has its count.                *)
ParentOK == Par \in Inodes /\ kind[Par] = "dir" /\ hdl.parent.links = links[Par]

StartOK ==
  /\ pc \in {"mark", "inode"} =>
       \/ op.cmd = "mkdir" /\ op.todo = <<>> /\ hdl.parent = NoHandle
       \/ /\ ParentOK
          /\ \E n \in Names : \/ op.cmd = "mkdir" /\ op.todo = MkdirTodo(n)
                              \/ op.cmd = "cp" /\ op.todo = CpTodo(n)
  /\ pc = "inode" => Chd \in marked /\ kind[Chd] = "none" /\ hdl.child.links = 0

Unlinking == {"drop", "clear", "wipe", "halted"}

PartOK ==
  /\ pc = "count" => op.todo # <<>> /\ Task.do = "link"
  /\ pc \in Unlinking => op.todo # <<>> /\ Task.do = "unlink"

(* A new inode is given its names: the first, ".", "..".                    *)
LinkOK ==
  pc \in {"next", "count"} /\ op.todo # <<>> /\ Task.do = "link" =>
    /\ ParentOK /\ Chd \in marked /\ Chd # Par /\ hdl.child.links = links[Chd]
    /\ \/ \E n \in Names : /\ \/ op.cmd = "mkdir" /\ op.todo = MkdirTodo(n) /\ kind[Chd] = "dir"
                              \/ op.cmd = "cp" /\ op.todo = CpTodo(n) /\ kind[Chd] = "file"
                           /\ ents[Chd] = {}
                           /\ pc = "count" => Entry(n, Chd) \in ents[Par]
       \/ /\ op.cmd = "mkdir" /\ op.todo = Mkdir2 /\ kind[Chd] = "dir"
          /\ ents[Chd] = IF pc = "count" THEN {Entry(Dot, Chd)} ELSE {}
       \/ /\ op.cmd = "mkdir" /\ op.todo = Mkdir3 /\ kind[Chd] = "dir"
          /\ ents[Chd] = {Entry(Dot, Chd)}
                           \cup (IF pc = "count" THEN {Entry(DotDot, Par)} ELSE {})

(* Names are taken away: by rm one, by rmdir "..", "." and the name.        *)
RemoveOK ==
  pc \in {"next"} \cup Unlinking /\ op.todo # <<>> /\ Task.do # "link" =>
    /\ Par \in Inodes
    /\ \E n \in Names :
         \/ op.cmd = "rm" /\ op.todo = RmTodo(n)
         \/ /\ op.cmd = "rmdir" /\ Chd \in Inodes
            /\ op.todo \in {RmdirTodo(n), Rmdir2(n), Rmdir3(n), RmTodo(n)}
    /\ pc = "next" /\ Task.do = "unlink" => At.links = links[At.ino]

UnlinkOK ==
  /\ pc \in Unlinking => op.e \in DirEntry /\ op.e.name = Task.name
  /\ pc = "drop" => kind[At.ino] = "dir" /\ (op.late <=> op.e \in ents[At.ino])
  /\ pc = "clear" => kind[op.e.ino] = "none"

Control == TypeInv /\ DiskOK /\ StartOK /\ PartOK /\ LinkOK /\ RemoveOK /\ UnlinkOK

(* The steps that leave no name to a free inode.  What the handles of mkdir *)
(* and cp hold of the inodes is then what is on the disk (CopyOK), and they *)
(* come to this:                                                            *)
PlainNewInode ==
  /\ pc = "inode"
  /\ LET n == hdl.child.ino
     IN  /\ kind' = [kind EXCEPT ![n] = IF op.cmd = "cp" THEN "file" ELSE "dir"]
         /\ links' = [links EXCEPT ![n] = 0]
         /\ ents' = [ents EXCEPT ![n] = {}]
         /\ torn' = torn \ {n} /\ dropped' = dropped \ {n}
         /\ leaked' = IF op.todo = <<>> THEN leaked \cup {n} ELSE leaked \ {n}
  /\ pc' = "next"
  /\ UNCHANGED <<marked, pwd, hdl, op, spilt, crashes>>

PlainWriteEntry ==
  /\ Doing("next", "link")
  /\ ents' = [ents EXCEPT ![At.ino] = @ \cup {Entry(Task.name, hdl[Task.to].ino)}]
  /\ links' = [links EXCEPT ![At.ino] = At.links]
  /\ pc' = "count"
  /\ UNCHANGED <<marked, kind, pwd, hdl, op, ghost, crashes>>

PlainCountLink ==
  /\ Doing("count", "link")
  /\ LET to == hdl[Task.to]
     IN  /\ hdl' = [hdl EXCEPT ![Task.to].links = Inc16(@)]
         /\ links' = [links EXCEPT ![to.ino] = Inc16(to.links)]
  /\ Proceed
  /\ UNCHANGED <<marked, kind, ents, pwd, ghost, crashes>>

PlainCrash ==
  /\ pc \notin {"rest", "lost"} /\ crashes' = crashes + 1
  /\ \/ UNCHANGED <<ents, torn>>
     \/ /\ Doing("next", "link")
        /\ torn' = torn \cup {At.ino}
        /\ \/ UNCHANGED ents
           \/ ents' = [ents EXCEPT ![At.ino] = @ \cup {Entry(NoName, hdl[Task.to].ino)}]
  /\ pwd' = Root /\ hdl' = NoHandles /\ pc' = "rest" /\ op' = NoOp
  /\ UNCHANGED <<marked, kind, links, leaked, spilt, dropped>>

PlainVars == <<disk, pwd, hdl, pc, op, ghost, crashes>>

PlainNext == \/ Cd \/ MkdirNowhere \/ Restart
             \/ \E p \in Inodes, n \in Names : \/ Mkdir(p, n) /\ p \in Dirs
                                               \/ Rm(p, n) \/ Rmdir(p, n)
             \/ \E n \in Names : Cp(n) /\ pwd \in Dirs
             \/ Mark \/ MarkFails \/ PlainNewInode \/ Done \/ PlainWriteEntry \/ PlainCountLink
             \/ ReadAgain \/ NoSuchName \/ Hide \/ DropLink \/ ClearBit \/ WipeEntry
             \/ PlainCrash

(* Between commands, and before the parts of one, most of it says nothing.  *)
LEMMA ControlStart ==
  ASSUME TypeInv', DiskOK', StartOK', pc' \in {"rest", "mark", "inode"}
  PROVE  Control'
BY DEF Control, PartOK, LinkOK, RemoveOK, UnlinkOK, Unlinking

LEMMA ControlInit == Init => Control
<1> SUFFICES ASSUME Init PROVE Control
  OBVIOUS
<1> USE DEF Init
<1>1. \A n \in Dots : Entry(n, Root) \in DirEntry
  BY Width DEF DirEntry, Entry, Dots
<1>2. IsFiniteSet({Entry(n, Root) : n \in Dots})
  <2>1. {Entry(n, Root) : n \in Dots} = {Entry(Dot, Root), Entry(DotDot, Root)}
    BY DEF Dots
  <2>2. IsFiniteSet({Entry(Dot, Root)})
    BY FS_Singleton
  <2>3. IsFiniteSet({Entry(Dot, Root)} \cup {Entry(DotDot, Root)})
    BY <2>2, FS_AddElement
  <2>4. {Entry(Dot, Root)} \cup {Entry(DotDot, Root)} = {Entry(Dot, Root), Entry(DotDot, Root)}
    OBVIOUS
  <2> QED BY <2>1, <2>3, <2>4
<1>3. TypeInv
  <2>1. ents \in [Inodes -> SUBSET DirEntry]
    BY <1>1
  <2>2. Finite(ents)
    BY <1>2, FS_EmptySet DEF Finite
  <2>3. links \in [Inodes -> 0 .. U16 - 1]
    <3>1. 2 \in 0 .. U16 - 1
      BY NamespaceAssumption
    <3> QED BY <3>1, Width
  <2>4. hdl \in [parent : Handle, child : Handle]
    BY Width DEF NoHandles, NoHandle, Handle
  <2>5. op \in [cmd : {"none", "mkdir", "cp", "rm", "rmdir"}, todo : Todos,
                e : DirEntry \cup {NoEntry}, late : BOOLEAN, first : DirEntry \cup {NoEntry}]
    BY TodosClosed DEF NoOp
  <2> QED BY <2>1, <2>2, <2>3, <2>4, <2>5, NamespaceAssumption DEF TypeInv
<1> QED BY <1>3 DEF Control, DiskOK, StartOK, PartOK, LinkOK, RemoveOK, UnlinkOK, Unlinking

(* The part at the head of what is left.                                    *)
LEMMA Shapes ==
  ASSUME NEW n
  PROVE  /\ op.todo = MkdirTodo(n) =>
              /\ op.todo # <<>> /\ Task.do = "link" /\ Task.at = "parent" /\ Task.to = "child"
              /\ Task.name = n /\ Tail(op.todo) = Mkdir2
         /\ op.todo = CpTodo(n) =>
              /\ op.todo # <<>> /\ Task.do = "link" /\ Task.at = "parent" /\ Task.to = "child"
              /\ Task.name = n /\ Tail(op.todo) = <<>>
         /\ op.todo = Mkdir2 =>
              /\ op.todo # <<>> /\ Task.do = "link" /\ Task.at = "child" /\ Task.to = "child"
              /\ Task.name = Dot /\ Tail(op.todo) = Mkdir3
         /\ op.todo = Mkdir3 =>
              /\ op.todo # <<>> /\ Task.do = "link" /\ Task.at = "child" /\ Task.to = "parent"
              /\ Task.name = DotDot /\ Tail(op.todo) = <<>>
         /\ op.todo = RmTodo(n) =>
              /\ op.todo # <<>> /\ Task.do = "unlink" /\ Task.at = "parent"
              /\ Task.name = n /\ Tail(op.todo) = <<>>
         /\ op.todo = RmdirTodo(n) =>
              /\ op.todo # <<>> /\ Task.do = "unlink" /\ Task.at = "child"
              /\ Task.name = DotDot /\ Tail(op.todo) = Rmdir2(n)
         /\ op.todo = Rmdir2(n) =>
              /\ op.todo # <<>> /\ Task.do = "unlink" /\ Task.at = "child"
              /\ Task.name = Dot /\ Tail(op.todo) = Rmdir3(n)
         /\ op.todo = Rmdir3(n) =>
              /\ op.todo # <<>> /\ Task.do = "reread" /\ Task.at = "parent"
              /\ Tail(op.todo) = RmTodo(n)
<1>1. ASSUME op.todo \in {MkdirTodo(n), CpTodo(n), Mkdir2, Mkdir3}
      PROVE  /\ op.todo # <<>> /\ Task.do = "link"
             /\ op.todo = MkdirTodo(n) => Task = Link("parent", n, "child") /\ Tail(op.todo) = Mkdir2
             /\ op.todo = CpTodo(n) => Task = Link("parent", n, "child") /\ Tail(op.todo) = <<>>
             /\ op.todo = Mkdir2 => Task = Link("child", Dot, "child") /\ Tail(op.todo) = Mkdir3
             /\ op.todo = Mkdir3 => Task = Link("child", DotDot, "parent") /\ Tail(op.todo) = <<>>
  <2>1. op.todo # <<>>
    BY <1>1, NotEmpty
  <2>2. /\ op.todo = MkdirTodo(n) => Task = Link("parent", n, "child") /\ Tail(op.todo) = Mkdir2
        /\ op.todo = CpTodo(n) => Task = Link("parent", n, "child") /\ Tail(op.todo) = <<>>
        /\ op.todo = Mkdir2 => Task = Link("child", Dot, "child") /\ Tail(op.todo) = Mkdir3
        /\ op.todo = Mkdir3 => Task = Link("child", DotDot, "parent") /\ Tail(op.todo) = <<>>
    BY Heads, Tails DEF Task
  <2>3. Task.do = "link"
    BY <1>1, <2>2, TaskIs
  <2> QED BY <2>1, <2>2, <2>3
<1>2. ASSUME op.todo \in {RmTodo(n), RmdirTodo(n), Rmdir2(n), Rmdir3(n)}
      PROVE  /\ op.todo # <<>>
             /\ op.todo = RmTodo(n) => Task = Unlink("parent", n) /\ Tail(op.todo) = <<>>
             /\ op.todo = RmdirTodo(n) => Task = Unlink("child", DotDot) /\ Tail(op.todo) = Rmdir2(n)
             /\ op.todo = Rmdir2(n) => Task = Unlink("child", Dot) /\ Tail(op.todo) = Rmdir3(n)
             /\ op.todo = Rmdir3(n) => Task = Reread("parent") /\ Tail(op.todo) = RmTodo(n)
  BY <1>2, Heads, Tails, NotEmpty DEF Task
<1>3. op.todo \in {MkdirTodo(n), CpTodo(n)} =>
        Task.at = "parent" /\ Task.to = "child" /\ Task.name = n
  BY <1>1, TaskIs
<1>4. op.todo = Mkdir2 => Task.at = "child" /\ Task.to = "child" /\ Task.name = Dot
  BY <1>1, TaskIs
<1>5. op.todo = Mkdir3 => Task.at = "child" /\ Task.to = "parent" /\ Task.name = DotDot
  BY <1>1, TaskIs
<1>6. op.todo = RmTodo(n) => Task.do = "unlink" /\ Task.at = "parent" /\ Task.name = n
  BY <1>2, TaskIs
<1>7. op.todo = RmdirTodo(n) => Task.do = "unlink" /\ Task.at = "child" /\ Task.name = DotDot
  BY <1>2, TaskIs
<1>8. op.todo = Rmdir2(n) => Task.do = "unlink" /\ Task.at = "child" /\ Task.name = Dot
  BY <1>2, TaskIs
<1>9. op.todo = Rmdir3(n) => Task.do = "reread" /\ Task.at = "parent"
  BY <1>2, TaskIs
<1> QED BY <1>1, <1>2, <1>3, <1>4, <1>5, <1>6, <1>7, <1>8, <1>9

LEMMA DotShapes ==
  /\ op.todo = Mkdir2 =>
       /\ op.todo # <<>> /\ Task.do = "link" /\ Task.at = "child" /\ Task.to = "child"
       /\ Task.name = Dot /\ Tail(op.todo) = Mkdir3
  /\ op.todo = Mkdir3 =>
       /\ op.todo # <<>> /\ Task.do = "link" /\ Task.at = "child" /\ Task.to = "parent"
       /\ Task.name = DotDot /\ Tail(op.todo) = <<>>
  /\ Head(Mkdir2).do = "link" /\ Head(Mkdir3).do = "link"
  /\ Head(Mkdir2).at = "child" /\ Head(Mkdir3).at = "child"
  /\ Mkdir2 # <<>> /\ Mkdir3 # <<>>
<1>1. /\ Head(Mkdir2) = Link("child", Dot, "child")
      /\ Head(Mkdir3) = Link("child", DotDot, "parent")
  BY DEF Mkdir2, Mkdir3
<1>2. /\ Head(Mkdir2).do = "link" /\ Head(Mkdir3).do = "link"
      /\ Head(Mkdir2).at = "child" /\ Head(Mkdir3).at = "child"
  BY <1>1, TaskIs
<1>3. Mkdir2 # <<>> /\ Mkdir3 # <<>>
  BY DEF Mkdir2, Mkdir3
<1> HIDE DEF Task
<1> DEFINE n == Dot
<1>4. /\ op.todo = Mkdir2 =>
           /\ op.todo # <<>> /\ Task.do = "link" /\ Task.at = "child" /\ Task.to = "child"
           /\ Task.name = Dot /\ Tail(op.todo) = Mkdir3
      /\ op.todo = Mkdir3 =>
           /\ op.todo # <<>> /\ Task.do = "link" /\ Task.at = "child" /\ Task.to = "parent"
           /\ Task.name = DotDot /\ Tail(op.todo) = <<>>
  BY Shapes, Zenon
<1> QED BY <1>2, <1>3, <1>4

LEMMA ControlRest ==
  ASSUME Control, UNCHANGED <<disk, hdl, op>>, pc' = "rest", pwd' \in Inodes,
         crashes' = crashes, UNCHANGED ghost
  PROVE  Control'
<1>1. TypeInv' /\ DiskOK'
  BY DEF Control, TypeInv, DiskOK, disk, ghost
<1> QED BY <1>1, ControlStart DEF StartOK

LEMMA ParentsDir ==
  ASSUME TypeInv, NEW p \in Parents
  PROVE  p \in Inodes /\ ents[p] \subseteq DirEntry
BY DEF Parents, TypeInv, DirEntry

LEMMA BeginTyped ==
  ASSUME TypeInv, NEW cmd \in {"mkdir", "cp", "rm", "rmdir"}, NEW todo \in Todos,
         NEW handles \in [parent : Handle, child : Handle], NEW first \in DirEntry \cup {NoEntry},
         Begin(cmd, todo, handles, first), pc' \in {"mark", "next"}
  PROVE  /\ TypeInv' /\ PartOK' /\ hdl' = handles
         /\ op'.cmd = cmd /\ op'.todo = todo /\ op'.first = first
<1> USE DEF Begin
<1>1. op' \in [cmd : {"none", "mkdir", "cp", "rm", "rmdir"}, todo : Todos,
               e : DirEntry \cup {NoEntry}, late : BOOLEAN, first : DirEntry \cup {NoEntry}]
      /\ op'.cmd = cmd /\ op'.todo = todo /\ op'.first = first
  BY DEF NoOp
<1>2. TypeInv'
  BY <1>1 DEF TypeInv, disk, ghost
<1> QED BY <1>1, <1>2 DEF PartOK, Unlinking

LEMMA ControlBegin ==
  ASSUME Control, NEW cmd \in {"mkdir", "cp", "rm", "rmdir"}, NEW todo \in Todos,
         NEW handles \in [parent : Handle, child : Handle], NEW first \in DirEntry \cup {NoEntry},
         Begin(cmd, todo, handles, first), pc' \in {"mark", "next"}
  PROVE  /\ TypeInv' /\ DiskOK' /\ PartOK' /\ UnlinkOK' /\ hdl' = handles
         /\ op'.cmd = cmd /\ op'.todo = todo /\ op'.first = first
<1>1. /\ TypeInv' /\ PartOK' /\ hdl' = handles
      /\ op'.cmd = cmd /\ op'.todo = todo /\ op'.first = first
  BY BeginTyped DEF Control
<1>2. DiskOK'
  BY DEF Begin, Control, DiskOK, disk
<1> QED BY <1>1, <1>2 DEF UnlinkOK, Unlinking

LEMMA Handles ==
  ASSUME TypeInv, NEW p \in Inodes, NEW c \in Inodes
  PROVE  /\ [NoHandles EXCEPT !.parent = Read(p)] \in [parent : Handle, child : Handle]
         /\ [NoHandles EXCEPT !.parent = Read(p)].parent = Read(p)
         /\ [parent |-> Read(p), child |-> Read(c)] \in [parent : Handle, child : Handle]
         /\ Read(p).ino = p /\ Read(p).links = links[p]
         /\ NoHandles \in [parent : Handle, child : Handle] /\ NoHandles.parent = NoHandle
         /\ Read(p) \in Handle /\ NoHandle \in Handle
<1>1. Read(p) \in Handle /\ Read(c) \in Handle /\ NoHandle \in Handle
  BY Width DEF Read, Handle, NoHandle, TypeInv
<1> QED BY <1>1 DEF NoHandles, Read

LEMMA ControlMkdir ==
  ASSUME Control, NEW p \in Dirs, NEW n \in Names, Mkdir(p, n)
  PROVE  Control'
<1>1. p \in Inodes /\ kind[p] = "dir"
  BY DEF Dirs
<1>2. MkdirTodo(n) \in Todos
  BY TodosClosed
<1>3. /\ TypeInv' /\ DiskOK' /\ hdl' = [NoHandles EXCEPT !.parent = Read(p)]
      /\ op'.cmd = "mkdir" /\ op'.todo = MkdirTodo(n)
  BY <1>1, <1>2, Handles, ControlBegin DEF Mkdir, Control
<1>4. kind' = kind /\ links' = links /\ pc' = "mark"
  BY DEF Mkdir, Begin, disk
<1>5. ParentOK'
  BY <1>1, <1>3, <1>4, Handles DEF ParentOK, Par, Control
<1> QED BY <1>3, <1>4, <1>5, ControlStart DEF StartOK

LEMMA ControlCp ==
  ASSUME Control, NEW n \in Names, Cp(n), pwd \in Dirs
  PROVE  Control'
<1>1. pwd \in Inodes /\ kind[pwd] = "dir"
  BY DEF Dirs
<1>2. CpTodo(n) \in Todos
  BY TodosClosed
<1>3. /\ TypeInv' /\ DiskOK' /\ hdl' = [NoHandles EXCEPT !.parent = Read(pwd)]
      /\ op'.cmd = "cp" /\ op'.todo = CpTodo(n)
  BY <1>1, <1>2, Handles, ControlBegin DEF Cp, CpTodo, Control
<1>4. kind' = kind /\ links' = links /\ pc' = "mark"
  BY DEF Cp, Begin, disk
<1>5. ParentOK'
  BY <1>1, <1>3, <1>4, Handles DEF ParentOK, Par, Control
<1> QED BY <1>3, <1>4, <1>5, ControlStart DEF StartOK

LEMMA ControlMkdirNowhere ==
  ASSUME Control, MkdirNowhere
  PROVE  Control'
<1>1. <<>> \in Todos
  BY TodosClosed
<1>2. NoHandles \in [parent : Handle, child : Handle] /\ NoHandles.parent = NoHandle
  BY Width, Handles DEF Control
<1>3. /\ TypeInv' /\ DiskOK' /\ hdl' = NoHandles
      /\ op'.cmd = "mkdir" /\ op'.todo = <<>>
  BY <1>1, <1>2, ControlBegin DEF MkdirNowhere, Control
<1>4. pc' = "mark"
  BY DEF MkdirNowhere
<1> QED BY <1>2, <1>3, <1>4, ControlStart DEF StartOK

LEMMA ControlRm ==
  ASSUME Control, NEW p, NEW n \in Names, Rm(p, n)
  PROVE  Control'
<1>1. p \in Inodes
  BY ParentsDir DEF Rm, Control
<1>2. RmTodo(n) \in Todos
  BY TodosClosed
<1>3. /\ TypeInv' /\ DiskOK' /\ PartOK' /\ UnlinkOK'
      /\ hdl' = [NoHandles EXCEPT !.parent = Read(p)]
      /\ op'.cmd = "rm" /\ op'.todo = RmTodo(n)
  BY <1>1, <1>2, Handles, ControlBegin DEF Rm, RmTodo, Control
<1>4. links' = links /\ pc' = "next"
  BY DEF Rm, Begin, disk
<1>5. hdl'.parent.ino = p /\ hdl'.parent.links = links[p]
  BY <1>1, <1>3, Handles DEF Control
<1>6. Head(op'.todo).do = "unlink" /\ Head(op'.todo).at = "parent"
  BY <1>3, Heads, TaskIs
<1>7. RemoveOK' /\ LinkOK'
  BY <1>1, <1>3, <1>4, <1>5, <1>6 DEF RemoveOK, LinkOK, Par, Task, At
<1> QED BY <1>3, <1>4, <1>7 DEF Control, StartOK

LEMMA ControlRmdir ==
  ASSUME Control, NEW p, NEW n \in Names, Rmdir(p, n)
  PROVE  Control'
<1>1. p \in Inodes /\ ents[p] \subseteq DirEntry
  BY ParentsDir DEF Rmdir, Control
<1>2. RmdirTodo(n) \in Todos
  BY TodosClosed
<1>3. PICK e \in ents[p] :
        Begin("rmdir", RmdirTodo(n), [parent |-> Read(p), child |-> Read(e.ino)], e)
  BY DEF Rmdir
<1>4. e \in DirEntry /\ e.ino \in Inodes
  BY <1>1 DEF DirEntry
<1>5. [parent |-> Read(p), child |-> Read(e.ino)] \in [parent : Handle, child : Handle]
  BY <1>1, <1>4, Handles DEF Control
<1>6. pc' = "next"
  BY DEF Rmdir
<1>7. /\ TypeInv' /\ DiskOK' /\ PartOK' /\ UnlinkOK'
      /\ hdl' = [parent |-> Read(p), child |-> Read(e.ino)]
      /\ op'.cmd = "rmdir" /\ op'.todo = RmdirTodo(n)
  BY <1>2, <1>3, <1>4, <1>5, <1>6, ControlBegin
<1>8. links' = links /\ pc' = "next"
  BY DEF Rmdir, Begin, disk
<1>9. hdl'.parent.ino = p /\ hdl'.child.ino = e.ino /\ hdl'.child.links = links[e.ino]
  BY <1>1, <1>4, <1>7, Handles DEF Control
<1>10. Head(op'.todo).do = "unlink" /\ Head(op'.todo).at = "child"
  BY <1>7, Heads, TaskIs
<1>11. RemoveOK' /\ LinkOK'
  BY <1>1, <1>4, <1>7, <1>8, <1>9, <1>10 DEF RemoveOK, LinkOK, Par, Chd, Task, At
<1> QED BY <1>7, <1>8, <1>11 DEF Control, StartOK

LEMMA ControlCd == Control /\ Cd => Control'
<1> SUFFICES ASSUME Control, Cd PROVE Control'
  OBVIOUS
<1>1. pwd' \in Inodes
  BY ParentsDir DEF Cd, Control
<1>2. pc' = "rest"
  BY DEF Cd, AtRest
<1> QED BY <1>1, <1>2, ControlRest DEF Cd

LEMMA ControlRestart == Control /\ Restart => Control'
BY Width, ControlRest DEF Restart

LEMMA NoOpType ==
  /\ NoOp \in [cmd : {"none", "mkdir", "cp", "rm", "rmdir"}, todo : Todos,
               e : DirEntry \cup {NoEntry}, late : BOOLEAN, first : DirEntry \cup {NoEntry}]
  /\ NoHandles \in [parent : Handle, child : Handle]
BY TodosClosed, Width DEF NoOp, NoHandles, NoHandle, Handle

LEMMA ControlMarkFails == Control /\ MarkFails => Control'
<1> SUFFICES ASSUME Control, MarkFails PROVE Control'
  OBVIOUS
<1>1. pwd' \in Inodes
  BY Width DEF MarkFails, Control, TypeInv
<1>2. TypeInv'
  BY <1>1, NoOpType DEF Control, TypeInv, MarkFails, disk, ghost
<1>3. DiskOK' /\ StartOK'
  BY DEF Control, DiskOK, StartOK, MarkFails, disk
<1> QED BY <1>2, <1>3, ControlStart DEF MarkFails

LEMMA ControlDone == Control /\ Done => Control'
<1> SUFFICES ASSUME Control, Done PROVE Control'
  OBVIOUS
<1>1. pwd' \in Inodes
  BY Width DEF Done, Control, TypeInv
<1>2. TypeInv'
  BY <1>1, NoOpType DEF Control, TypeInv, Done, disk, ghost
<1>3. DiskOK' /\ StartOK'
  BY DEF Control, DiskOK, StartOK, Done, disk
<1> QED BY <1>2, <1>3, ControlStart DEF Done

(* The entries of a directory with one more or one less.                    *)
LEMMA EntsType ==
  ASSUME TypeInv, NEW d \in Inodes, NEW e
  PROVE  /\ [ents EXCEPT ![d] = @ \ {e}] \in [Inodes -> SUBSET DirEntry]
         /\ Finite([ents EXCEPT ![d] = @ \ {e}])
         /\ [ents EXCEPT ![d] = {}] \in [Inodes -> SUBSET DirEntry]
         /\ Finite([ents EXCEPT ![d] = {}])
         /\ e \in DirEntry => /\ [ents EXCEPT ![d] = @ \cup {e}] \in [Inodes -> SUBSET DirEntry]
                              /\ Finite([ents EXCEPT ![d] = @ \cup {e}])
<1>1. ents \in [Inodes -> SUBSET DirEntry] /\ Finite(ents)
  BY DEF TypeInv
<1>2. IsFiniteSet(ents[d] \ {e}) /\ IsFiniteSet(ents[d] \cup {e}) /\ IsFiniteSet({})
  <2>1. IsFiniteSet(ents[d])
    BY <1>1 DEF Finite
  <2>2. ents[d] \ {e} \subseteq ents[d]
    OBVIOUS
  <2> QED BY <2>1, <2>2, FS_Subset, FS_AddElement, FS_EmptySet
<1>3. Finite([ents EXCEPT ![d] = @ \ {e}])
  BY <1>1, <1>2 DEF Finite
<1>4. Finite([ents EXCEPT ![d] = {}])
  BY <1>1, <1>2 DEF Finite
<1>5. Finite([ents EXCEPT ![d] = @ \cup {e}])
  BY <1>1, <1>2 DEF Finite
<1> QED BY <1>1, <1>3, <1>4, <1>5

LEMMA ControlMark == Control /\ Mark => Control'
<1> SUFFICES ASSUME Control, Mark PROVE Control'
  OBVIOUS
<1>1. PICK n \in Inodes \ marked : /\ marked' = marked \cup {n}
                                   /\ hdl' = [hdl EXCEPT !.child = [ino |-> n, links |-> 0]]
  BY DEF Mark
<1>2. [ino |-> n, links |-> 0] \in Handle
  BY <1>1, Width DEF Handle
<1>3. /\ hdl' \in [parent : Handle, child : Handle] /\ hdl'.parent = hdl.parent
      /\ hdl'.child = [ino |-> n, links |-> 0]
  BY <1>1, <1>2 DEF Control, TypeInv
<1>4. TypeInv'
  BY <1>1, <1>3 DEF Control, TypeInv, Mark, ghost
<1>5. DiskOK' /\ kind[n] = "none"
  BY <1>1 DEF Control, DiskOK, Mark
<1>6. hdl'.child.ino = n /\ hdl'.child.links = 0
  BY <1>3
<1>7. StartOK'
  BY <1>1, <1>3, <1>5, <1>6 DEF Control, StartOK, ParentOK, Par, Chd, Mark
<1> QED BY <1>4, <1>5, <1>7, ControlStart DEF Mark

LEMMA ControlNewInode == Control /\ PlainNewInode => Control'
<1> SUFFICES ASSUME Control, PlainNewInode PROVE Control'
  OBVIOUS
<1> DEFINE n == hdl.child.ino
<1>1. n \in marked /\ kind[n] = "none" /\ hdl.child.links = 0 /\ n \in Inodes
  BY DEF PlainNewInode, Control, StartOK, TypeInv, Chd
<1>2. /\ kind' = [kind EXCEPT ![n] = IF op.cmd = "cp" THEN "file" ELSE "dir"]
      /\ links' = [links EXCEPT ![n] = 0]
      /\ ents' = [ents EXCEPT ![n] = {}]
      /\ torn' = torn \ {n} /\ dropped' = dropped \ {n}
      /\ leaked' = IF op.todo = <<>> THEN leaked \cup {n} ELSE leaked \ {n}
      /\ pc = "inode" /\ pc' = "next" /\ UNCHANGED <<marked, pwd, hdl, op, spilt, crashes>>
  BY DEF PlainNewInode
<1>3. kind' \in [Inodes -> {"none", "dir", "file"}] /\ links' \in [Inodes -> 0 .. U16 - 1]
  BY <1>1, <1>2, Width DEF Control, TypeInv
<1>4. TypeInv'
  BY <1>1, <1>2, <1>3, EntsType DEF Control, TypeInv
<1>5. DiskOK'
  BY <1>1, <1>2 DEF Control, DiskOK, TypeInv
<1>6. op.todo # <<>> => \E m \in Names : \/ op.cmd = "mkdir" /\ op.todo = MkdirTodo(m)
                                         \/ op.cmd = "cp" /\ op.todo = CpTodo(m)
  BY <1>2 DEF Control, StartOK
<1>7. op.todo # <<>> => ParentOK
  BY <1>2 DEF Control, StartOK
<1>8. op.todo # <<>> => Task.do = "link"
  BY <1>6, Shapes
<1>9. ASSUME op.todo # <<>>
      PROVE  /\ ParentOK' /\ Chd' = n /\ Par' = Par /\ n # Par /\ links'[n] = 0 /\ ents'[n] = {}
             /\ op.cmd = "cp" => kind'[n] = "file"
             /\ op.cmd = "mkdir" => kind'[n] = "dir"
  BY <1>1, <1>2, <1>7, <1>9 DEF ParentOK, Control, TypeInv, Par, Chd
<1>10. LinkOK'
  BY <1>1, <1>2, <1>6, <1>8, <1>9 DEF LinkOK
<1>11. RemoveOK'
  BY <1>2, <1>8 DEF RemoveOK, Unlinking, Task
<1> QED BY <1>2, <1>4, <1>5, <1>10, <1>11 DEF Control, StartOK, PartOK, UnlinkOK, Unlinking

Removing(n) ==
  \/ op.cmd = "rm" /\ op.todo = RmTodo(n)
  \/ /\ op.cmd = "rmdir" /\ Chd \in Inodes
     /\ op.todo \in {RmdirTodo(n), Rmdir2(n), Rmdir3(n), RmTodo(n)}

LEMMA Proceeds ==
  ASSUME TypeInv, op.todo # <<>>, Proceed
  PROVE  /\ op' \in [cmd : {"none", "mkdir", "cp", "rm", "rmdir"}, todo : Todos,
                     e : DirEntry \cup {NoEntry}, late : BOOLEAN, first : DirEntry \cup {NoEntry}]
         /\ op'.cmd = op.cmd /\ op'.todo = Tail(op.todo) /\ op'.first = op.first /\ pc' = "next"
BY TodosClosed DEF TypeInv, Proceed

(* The handle that an unlinking or rereading part works on.                 *)
LEMMA RemoveAt ==
  ASSUME Control, pc \in {"next"} \cup Unlinking, op.todo # <<>>, Task.do # "link"
  PROVE  /\ Par \in Inodes /\ At.ino \in Inodes /\ Task.at \in {"parent", "child"}
         /\ \E n \in Names : Removing(n)
         /\ Task.at = "child" => Chd \in Inodes
         /\ At \in Handle
<1>1. Par \in Inodes /\ \E n \in Names : Removing(n)
  BY DEF Control, RemoveOK, Removing
<1>2. PICK n \in Names : Removing(n)
  BY <1>1
<1>3. /\ Task.at \in {"parent", "child"}
      /\ Task.at = "child" => Chd \in Inodes
  BY <1>2, Shapes DEF Removing
<1>4. At.ino \in Inodes
  BY <1>1, <1>3 DEF At, Par, Chd
<1>5. At \in Handle
  BY <1>3 DEF At, Control, TypeInv
<1> QED BY <1>1, <1>3, <1>4, <1>5

LEMMA LinkAt ==
  ASSUME Control, pc \in {"next", "count"}, op.todo # <<>>, Task.do = "link"
  PROVE  /\ Par \in Inodes /\ Chd \in Inodes /\ kind[Par] = "dir" /\ kind[Chd] # "none"
         /\ Chd # Par /\ hdl.parent.links = links[Par] /\ hdl.child.links = links[Chd]
         /\ Task.at \in {"parent", "child"} /\ Task.to \in {"parent", "child"}
         /\ Task.name \in Names \cup Dots
         /\ kind[At.ino] = "dir" /\ At.ino \in Inodes /\ At.links = links[At.ino]
         /\ hdl[Task.to].ino \in Inodes /\ kind[hdl[Task.to].ino] # "none"
         /\ hdl[Task.to].links = links[hdl[Task.to].ino]
         /\ At \in Handle /\ hdl[Task.to] \in Handle
<1>1. /\ ParentOK /\ Chd \in marked /\ Chd # Par /\ hdl.child.links = links[Chd]
      /\ \/ \E n \in Names : op.todo \in {MkdirTodo(n), CpTodo(n)} /\ kind[Chd] # "none"
         \/ op.todo \in {Mkdir2, Mkdir3} /\ kind[Chd] = "dir"
  BY DEF Control, LinkOK
<1>2. Chd \in Inodes
  BY <1>1 DEF Control, TypeInv
<1>3. /\ Task.at \in {"parent", "child"} /\ Task.to \in {"parent", "child"}
      /\ Task.name \in Names \cup Dots
      /\ Task.at = "child" => kind[Chd] = "dir"
      /\ kind[Chd] # "none"
  BY <1>1, Shapes, DotShapes DEF Dots
<1>4. At = hdl.parent \/ (At = hdl.child /\ kind[Chd] = "dir")
  <2>1. Task.at = "parent" => At = hdl.parent
    BY DEF At
  <2>2. Task.at = "child" => At = hdl.child
    BY DEF At
  <2> QED BY <1>3, <2>1, <2>2
<1>5. hdl[Task.to] = hdl.parent \/ hdl[Task.to] = hdl.child
  BY <1>3
<1>6. hdl.parent \in Handle /\ hdl.child \in Handle
  BY DEF Control, TypeInv
<1> QED BY <1>1, <1>2, <1>3, <1>4, <1>5, <1>6 DEF ParentOK, Par, Chd

LEMMA ControlWriteEntry == Control /\ PlainWriteEntry => Control'
<1> SUFFICES ASSUME Control, PlainWriteEntry PROVE Control'
  OBVIOUS
<1> DEFINE e == Entry(Task.name, hdl[Task.to].ino)
           d == At.ino
<1>1. /\ pc = "next" /\ op.todo # <<>> /\ Task.do = "link" /\ pc' = "count"
      /\ ents' = [ents EXCEPT ![d] = @ \cup {e}] /\ links' = [links EXCEPT ![d] = At.links]
      /\ UNCHANGED <<marked, kind, pwd, hdl, op, ghost, crashes>>
  BY DEF PlainWriteEntry, Doing
<1>2. /\ d \in Inodes /\ kind[d] = "dir" /\ At.links = links[d]
      /\ hdl[Task.to].ino \in Inodes /\ Task.name \in Names \cup Dots
      /\ Par \in Inodes /\ Chd \in Inodes /\ Chd # Par
  BY <1>1, LinkAt
<1>3. links' = links
  BY <1>1, <1>2 DEF Control, TypeInv
<1>4. e \in DirEntry
  BY <1>2 DEF DirEntry, Entry
<1>5. ents' \in [Inodes -> SUBSET DirEntry] /\ Finite(ents')
  BY <1>1, <1>2, <1>4, EntsType DEF Control
<1>6. TypeInv'
  BY <1>1, <1>3, <1>5 DEF Control, TypeInv, ghost
<1>7. DiskOK'
  BY <1>1, <1>2 DEF Control, DiskOK, TypeInv
<1>8. Task' = Task /\ Par' = Par /\ Chd' = Chd /\ ParentOK' = ParentOK
  BY <1>1, <1>3 DEF Task, Par, Chd, ParentOK
<1>9. ents'[d] = ents[d] \cup {e} /\ \A c \in Inodes \ {d} : ents'[c] = ents[c]
  BY <1>1, <1>2 DEF Control, TypeInv
<1>10. LinkOK'
  <2>1. /\ ParentOK /\ Chd \in marked /\ Chd # Par /\ hdl.child.links = links[Chd]
    BY <1>1 DEF Control, LinkOK
  <2>2. CASE \E n \in Names :
               /\ \/ op.cmd = "mkdir" /\ op.todo = MkdirTodo(n) /\ kind[Chd] = "dir"
                  \/ op.cmd = "cp" /\ op.todo = CpTodo(n) /\ kind[Chd] = "file"
               /\ ents[Chd] = {}
    <3>1. PICK n \in Names :
               /\ \/ op.cmd = "mkdir" /\ op.todo = MkdirTodo(n) /\ kind[Chd] = "dir"
                  \/ op.cmd = "cp" /\ op.todo = CpTodo(n) /\ kind[Chd] = "file"
               /\ ents[Chd] = {}
      BY <2>2
    <3>2. Task.at = "parent" /\ Task.to = "child" /\ Task.name = n
      BY <3>1, Shapes
    <3>3. d = Par /\ e = Entry(n, Chd)
      BY <3>2 DEF At, Par, Chd
    <3>4. ents'[Chd] = {} /\ Entry(n, Chd) \in ents'[Par]
      BY <1>2, <1>9, <3>1, <3>3
    <3> QED BY <1>1, <1>3, <1>8, <2>1, <3>1, <3>4 DEF LinkOK
  <2>3. CASE op.cmd = "mkdir" /\ op.todo = Mkdir2 /\ kind[Chd] = "dir" /\ ents[Chd] = {}
    <3>1. Task.at = "child" /\ Task.to = "child" /\ Task.name = Dot
      BY <2>3, DotShapes
    <3>2. d = Chd /\ e = Entry(Dot, Chd)
      BY <3>1 DEF At, Par, Chd
    <3>3. ents'[Chd] = {Entry(Dot, Chd)}
      BY <1>9, <2>3, <3>2
    <3> QED BY <1>1, <1>3, <1>8, <2>1, <2>3, <3>3 DEF LinkOK
  <2>4. CASE /\ op.cmd = "mkdir" /\ op.todo = Mkdir3 /\ kind[Chd] = "dir"
             /\ ents[Chd] = {Entry(Dot, Chd)}
    <3>1. Task.at = "child" /\ Task.to = "parent" /\ Task.name = DotDot
      BY <2>4, DotShapes
    <3>2. d = Chd /\ e = Entry(DotDot, Par)
      BY <3>1 DEF At, Par, Chd
    <3>3. ents'[Chd] = {Entry(Dot, Chd)} \cup {Entry(DotDot, Par)}
      BY <1>9, <2>4, <3>2
    <3> QED BY <1>1, <1>3, <1>8, <2>1, <2>4, <3>3 DEF LinkOK
  <2> QED BY <1>1, <2>2, <2>3, <2>4 DEF Control, LinkOK
<1> QED BY <1>1, <1>6, <1>7, <1>8, <1>10
        DEF Control, StartOK, PartOK, RemoveOK, UnlinkOK, Unlinking

LEMMA IncType == \A n \in 0 .. U16 - 1 : Inc16(n) \in 0 .. U16 - 1
<1> SUFFICES ASSUME NEW n \in 0 .. U16 - 1 PROVE Inc16(n) \in 0 .. U16 - 1
  OBVIOUS
<1>1. n + 1 \in Int
  BY Width
<1> QED BY <1>1, Remainder DEF Inc16

LEMMA ControlCountLink == Control /\ PlainCountLink => Control'
<1> SUFFICES ASSUME Control, PlainCountLink PROVE Control'
  OBVIOUS
<1> DEFINE to == hdl[Task.to]
<1>1. /\ pc = "count" /\ op.todo # <<>> /\ Task.do = "link" /\ Proceed
      /\ hdl' = [hdl EXCEPT ![Task.to].links = Inc16(@)]
      /\ links' = [links EXCEPT ![to.ino] = Inc16(to.links)]
      /\ UNCHANGED <<marked, kind, ents, pwd, ghost, crashes>>
  BY DEF PlainCountLink, Doing
<1>2. /\ op' \in [cmd : {"none", "mkdir", "cp", "rm", "rmdir"}, todo : Todos,
                  e : DirEntry \cup {NoEntry}, late : BOOLEAN, first : DirEntry \cup {NoEntry}]
      /\ op'.cmd = op.cmd /\ op'.todo = Tail(op.todo) /\ pc' = "next"
  BY <1>1, Proceeds DEF Control
<1>3. /\ to.ino \in Inodes /\ to.links = links[to.ino] /\ to \in Handle
      /\ Task.to \in {"parent", "child"}
      /\ Par \in Inodes /\ Chd \in Inodes /\ Chd # Par /\ kind[Par] = "dir"
      /\ hdl.parent.links = links[Par] /\ hdl.child.links = links[Chd]
  BY <1>1, LinkAt
<1>4. Inc16(to.links) \in 0 .. U16 - 1
  BY <1>3, IncType DEF Handle
<1>5. links' \in [Inodes -> 0 .. U16 - 1] /\ links'[to.ino] = Inc16(to.links)
      /\ \A i \in Inodes \ {to.ino} : links'[i] = links[i]
  BY <1>1, <1>3, <1>4 DEF Control, TypeInv
<1>6. /\ hdl' \in [parent : Handle, child : Handle]
      /\ hdl'.parent.ino = Par /\ hdl'.child.ino = Chd
      /\ hdl'.parent.links = links'[Par] /\ hdl'.child.links = links'[Chd]
  <2>1. hdl \in [parent : Handle, child : Handle]
    BY DEF Control, TypeInv
  <2>2. CASE Task.to = "parent"
    <3>1. hdl' = [hdl EXCEPT !["parent"].links = Inc16(@)]
      BY <1>1, <2>2
    <3>2. /\ hdl'.parent = [hdl.parent EXCEPT !.links = Inc16(hdl.parent.links)]
          /\ hdl'.child = hdl.child /\ to = hdl.parent
      BY <2>1, <2>2, <3>1
    <3>3. hdl'.parent \in Handle /\ hdl'.parent.ino = Par /\ hdl'.parent.links = Inc16(to.links)
      BY <1>4, <2>1, <3>2 DEF Handle, Par
    <3>4. hdl' \in [parent : Handle, child : Handle]
      BY <2>1, <3>1, <3>2, <3>3
    <3> QED BY <1>3, <1>5, <3>2, <3>3, <3>4 DEF Par, Chd
  <2>3. CASE Task.to = "child"
    <3>1. hdl' = [hdl EXCEPT !["child"].links = Inc16(@)]
      BY <1>1, <2>3
    <3>2. /\ hdl'.child = [hdl.child EXCEPT !.links = Inc16(hdl.child.links)]
          /\ hdl'.parent = hdl.parent /\ to = hdl.child
      BY <2>1, <2>3, <3>1
    <3>3. hdl'.child \in Handle /\ hdl'.child.ino = Chd /\ hdl'.child.links = Inc16(to.links)
      BY <1>4, <2>1, <3>2 DEF Handle, Chd
    <3>4. hdl' \in [parent : Handle, child : Handle]
      BY <2>1, <3>1, <3>2, <3>3
    <3> QED BY <1>3, <1>5, <3>2, <3>3, <3>4 DEF Par, Chd
  <2> QED BY <1>3, <2>2, <2>3
<1>7. TypeInv'
  BY <1>1, <1>2, <1>5, <1>6 DEF Control, TypeInv, ghost
<1>8. DiskOK'
  BY <1>1 DEF Control, DiskOK
<1>9. Par' = Par /\ Chd' = Chd /\ ParentOK'
  BY <1>1, <1>3, <1>6 DEF ParentOK, Par, Chd
<1>10. Task' = Head(op'.todo)
  BY DEF Task
<1>11. CASE \E n \in Names : /\ \/ op.cmd = "mkdir" /\ op.todo = MkdirTodo(n) /\ kind[Chd] = "dir"
                                \/ op.cmd = "cp" /\ op.todo = CpTodo(n) /\ kind[Chd] = "file"
                             /\ ents[Chd] = {} /\ Chd \in marked
  <2>1. PICK n \in Names : /\ \/ op.cmd = "mkdir" /\ op.todo = MkdirTodo(n) /\ kind[Chd] = "dir"
                              \/ op.cmd = "cp" /\ op.todo = CpTodo(n) /\ kind[Chd] = "file"
                           /\ ents[Chd] = {} /\ Chd \in marked
    BY <1>11
  <2>2. \/ op'.todo = <<>> 
        \/ op'.todo = Mkdir2 /\ Task'.do = "link" /\ op.cmd = "mkdir" /\ kind[Chd] = "dir"
    BY <1>2, <1>10, <2>1, Shapes, DotShapes
  <2>3. LinkOK' /\ RemoveOK'
    BY <1>1, <1>2, <1>3, <1>6, <1>9, <2>1, <2>2 DEF LinkOK, RemoveOK
  <2> QED BY <1>2, <1>7, <1>8, <2>3 DEF Control, StartOK, PartOK, UnlinkOK, Unlinking
<1>12. CASE /\ op.cmd = "mkdir" /\ op.todo = Mkdir2 /\ kind[Chd] = "dir"
            /\ ents[Chd] = {Entry(Dot, Chd)} /\ Chd \in marked
  <2>1. op'.todo = Mkdir3 /\ Task'.do = "link"
    BY <1>2, <1>10, <1>12, DotShapes
  <2>2. LinkOK' /\ RemoveOK'
    BY <1>1, <1>2, <1>3, <1>6, <1>9, <1>12, <2>1 DEF LinkOK, RemoveOK
  <2> QED BY <1>2, <1>7, <1>8, <2>2 DEF Control, StartOK, PartOK, UnlinkOK, Unlinking
<1>13. CASE op.todo = Mkdir3
  <2>1. op'.todo = <<>>
    BY <1>2, <1>13, DotShapes
  <2>2. LinkOK' /\ RemoveOK'
    BY <2>1 DEF LinkOK, RemoveOK
  <2> QED BY <1>2, <1>7, <1>8, <2>2 DEF Control, StartOK, PartOK, UnlinkOK, Unlinking
<1> QED BY <1>1, <1>11, <1>12, <1>13 DEF Control, LinkOK

(* The handle of the part just done has the count for the next one.         *)
LEMMA RemoveProceeds ==
  ASSUME Control, pc \in {"next", "wipe"}, op.todo # <<>>, Task.do # "link", Proceed,
         Par' = Par, Chd' = Chd,
         Task.at = "parent" => hdl'.parent.links = links'[Par],
         Task.at = "child" => hdl'.child.links = links'[Chd]
  PROVE  StartOK' /\ PartOK' /\ LinkOK' /\ RemoveOK' /\ UnlinkOK'
<1>1. op'.cmd = op.cmd /\ op'.todo = Tail(op.todo) /\ pc' = "next"
  BY Proceeds DEF Control
<1>2. Par \in Inodes
  BY RemoveAt DEF Unlinking
<1>3. PICK n \in Names : Removing(n)
  BY RemoveAt DEF Unlinking
<1>4. Task' = Head(op'.todo)
  BY DEF Task
<1>5. CASE op.todo = RmTodo(n)
  <2>1. op'.todo = <<>>
    BY <1>1, <1>5, Shapes
  <2>2. LinkOK' /\ RemoveOK'
    BY <2>1 DEF LinkOK, RemoveOK
  <2> QED BY <1>1, <2>2 DEF StartOK, PartOK, UnlinkOK, Unlinking
<1>6. CASE op.todo = RmdirTodo(n) /\ op.cmd = "rmdir" /\ Chd \in Inodes
  <2>1. op'.todo = Rmdir2(n) /\ Task.at = "child"
    BY <1>1, <1>6, Shapes
  <2>2. Task' = Unlink("child", Dot) /\ Task'.do = "unlink" /\ Task'.at = "child"
    BY <1>4, <2>1, Heads, TaskIs
  <2>3. At' = hdl'.child
    BY <2>2 DEF At
  <2>4. LinkOK' /\ RemoveOK'
    BY <1>1, <1>2, <1>6, <2>1, <2>2, <2>3 DEF LinkOK, RemoveOK, Chd
  <2> QED BY <1>1, <2>4 DEF StartOK, PartOK, UnlinkOK, Unlinking
<1>7. CASE op.todo = Rmdir2(n) /\ op.cmd = "rmdir" /\ Chd \in Inodes
  <2>1. op'.todo = Rmdir3(n)
    BY <1>1, <1>7, Shapes
  <2>2. Task'.do = "reread"
    BY <1>4, <2>1, Heads, TaskIs
  <2>3. LinkOK' /\ RemoveOK'
    BY <1>1, <1>2, <1>7, <2>1, <2>2 DEF LinkOK, RemoveOK
  <2> QED BY <1>1, <2>3 DEF StartOK, PartOK, UnlinkOK, Unlinking
<1>8. CASE op.todo = Rmdir3(n) /\ op.cmd = "rmdir" /\ Chd \in Inodes
  <2>1. op'.todo = RmTodo(n) /\ Task.at = "parent"
    BY <1>1, <1>8, Shapes
  <2>2. Task'.do = "unlink" /\ Task'.at = "parent"
    BY <1>4, <2>1, Heads, TaskIs
  <2>3. At' = hdl'.parent
    BY <2>2 DEF At
  <2>4. LinkOK' /\ RemoveOK'
    BY <1>1, <1>2, <1>8, <2>1, <2>2, <2>3 DEF LinkOK, RemoveOK, Par
  <2> QED BY <1>1, <2>4 DEF StartOK, PartOK, UnlinkOK, Unlinking
<1> QED BY <1>3, <1>5, <1>6, <1>7, <1>8 DEF Removing

LEMMA ReadType ==
  TypeInv => \A i \in Inodes : /\ Read(i) \in Handle
                               /\ Read(i).ino = i /\ Read(i).links = links[i]
BY DEF TypeInv, Read, Handle

(* One of the two handles is read again.                                    *)
LEMMA HandleRead ==
  ASSUME TypeInv, Task.at \in {"parent", "child"}, At.ino \in Inodes,
         hdl' = [hdl EXCEPT ![Task.at] = Read(At.ino)]
  PROVE  /\ hdl' \in [parent : Handle, child : Handle] /\ Par' = Par /\ Chd' = Chd
         /\ Task.at = "parent" => hdl'.parent.links = links[Par]
         /\ Task.at = "child" => hdl'.child.links = links[Chd]
<1>1. hdl \in [parent : Handle, child : Handle]
  BY DEF TypeInv
<1>2. Read(At.ino) \in Handle /\ Read(At.ino).ino = At.ino /\ Read(At.ino).links = links[At.ino]
  BY ReadType
<1>3. CASE Task.at = "parent"
  <2>1. hdl' = [hdl EXCEPT !["parent"] = Read(At.ino)] /\ At = hdl.parent
    BY <1>3 DEF At
  <2>2. hdl'.parent = Read(At.ino) /\ hdl'.child = hdl.child
    BY <1>1, <2>1
  <2> QED BY <1>1, <1>2, <1>3, <2>1, <2>2 DEF Par, Chd
<1>4. CASE Task.at = "child"
  <2>1. hdl' = [hdl EXCEPT !["child"] = Read(At.ino)] /\ At = hdl.child
    BY <1>4 DEF At
  <2>2. hdl'.child = Read(At.ino) /\ hdl'.parent = hdl.parent
    BY <1>1, <2>1
  <2> QED BY <1>1, <1>2, <1>4, <2>1, <2>2 DEF Par, Chd
<1> QED BY <1>3, <1>4

LEMMA ControlReadAgain == Control /\ ReadAgain => Control'
<1> SUFFICES ASSUME Control, ReadAgain PROVE Control'
  OBVIOUS
<1>1. /\ pc = "next" /\ op.todo # <<>> /\ Task.do = "reread" /\ Proceed
      /\ hdl' = [hdl EXCEPT ![Task.at] = Read(At.ino)]
      /\ UNCHANGED <<disk, pwd, ghost, crashes>>
  BY DEF ReadAgain, Doing
<1>2. Task.at \in {"parent", "child"} /\ At.ino \in Inodes
  BY <1>1, RemoveAt
<1>3. /\ hdl' \in [parent : Handle, child : Handle] /\ Par' = Par /\ Chd' = Chd
      /\ Task.at = "parent" => hdl'.parent.links = links[Par]
      /\ Task.at = "child" => hdl'.child.links = links[Chd]
  BY <1>1, <1>2, HandleRead DEF Control
<1>4. TypeInv'
  BY <1>1, <1>3, Proceeds DEF Control, TypeInv, disk, ghost
<1>5. links' = links
  BY <1>1 DEF disk
<1>6. StartOK' /\ PartOK' /\ LinkOK' /\ RemoveOK' /\ UnlinkOK'
  BY <1>1, <1>3, <1>5, RemoveProceeds
<1>7. DiskOK'
  BY <1>1 DEF Control, DiskOK, disk
<1> QED BY <1>4, <1>6, <1>7 DEF Control

LEMMA ControlNoSuchName == Control /\ NoSuchName => Control'
<1> SUFFICES ASSUME Control, NoSuchName PROVE Control'
  OBVIOUS
<1>1. /\ pc = "next" /\ op.todo # <<>> /\ Task.do = "unlink" /\ Proceed
      /\ UNCHANGED <<disk, pwd, hdl, ghost, crashes>>
  BY DEF NoSuchName, Doing
<1>2. At.links = links[At.ino]
  BY <1>1 DEF Control, RemoveOK
<1>3. TypeInv' /\ links' = links /\ DiskOK'
  BY <1>1, Proceeds DEF Control, TypeInv, DiskOK, disk, ghost
<1>4. /\ Task.at = "parent" => hdl'.parent.links = links'[Par]
      /\ Task.at = "child" => hdl'.child.links = links'[Chd]
  <2>1. CASE Task.at = "parent"
    BY <1>1, <1>2, <1>3, <2>1 DEF At, Par
  <2>2. CASE Task.at = "child"
    BY <1>1, <1>2, <1>3, <2>2 DEF At, Chd
  <2> QED BY <2>1, <2>2
<1>5. Par' = Par /\ Chd' = Chd
  BY <1>1 DEF Par, Chd
<1>6. StartOK' /\ PartOK' /\ LinkOK' /\ RemoveOK' /\ UnlinkOK'
  BY <1>1, <1>4, <1>5, RemoveProceeds
<1> QED BY <1>3, <1>6 DEF Control

(* Within an unlinking part.                                                *)
LEMMA RemoveStays ==
  ASSUME Control, pc \in {"next"} \cup Unlinking, pc' \in Unlinking, op.todo # <<>>,
         Task.do = "unlink", op'.todo = op.todo, op'.cmd = op.cmd, hdl' = hdl
  PROVE  StartOK' /\ PartOK' /\ LinkOK' /\ RemoveOK' /\ Task' = Task /\ At' = At
<1>1. Task' = Task /\ Par' = Par /\ Chd' = Chd /\ At' = At
  BY DEF Task, Par, Chd, At
<1>2. Par \in Inodes /\ \E n \in Names : Removing(n)
  BY RemoveAt
<1>3. RemoveOK'
  BY <1>1, <1>2 DEF RemoveOK, Removing, Unlinking
<1> QED BY <1>1, <1>3 DEF StartOK, PartOK, LinkOK, Unlinking

LEMMA ControlHide == Control /\ Hide => Control'
<1> SUFFICES ASSUME Control, Hide PROVE Control'
  OBVIOUS
<1>1. /\ pc = "next" /\ op.todo # <<>> /\ Task.do = "unlink" /\ pc' = "drop"
      /\ links' = [links EXCEPT ![At.ino] = At.links]
      /\ UNCHANGED <<marked, kind, pwd, hdl, ghost, crashes>>
  BY DEF Hide, Doing
<1>2. PICK e \in ents[At.ino] : \E late \in BOOLEAN :
        /\ e.name = Task.name
        /\ op' = [op EXCEPT !.e = e, !.late = late]
        /\ ents' = IF late THEN ents ELSE [ents EXCEPT ![At.ino] = @ \ {e}]
  BY Zenon DEF Hide
<1>3. PICK late \in BOOLEAN :
        /\ e.name = Task.name
        /\ op' = [op EXCEPT !.e = e, !.late = late]
        /\ ents' = IF late THEN ents ELSE [ents EXCEPT ![At.ino] = @ \ {e}]
  BY <1>2, Zenon
<1>4. At.ino \in Inodes /\ At.links = links[At.ino]
  BY <1>1, RemoveAt DEF Control, RemoveOK
<1>5. links' = links
  BY <1>1, <1>4 DEF Control, TypeInv
<1>6. e \in DirEntry /\ kind[At.ino] = "dir"
  BY <1>2, <1>4 DEF Control, TypeInv, DiskOK
<1>7. ents' \in [Inodes -> SUBSET DirEntry] /\ Finite(ents')
  BY <1>3, <1>4, EntsType DEF Control, TypeInv
<1>8. /\ op' \in [cmd : {"none", "mkdir", "cp", "rm", "rmdir"}, todo : Todos,
                  e : DirEntry \cup {NoEntry}, late : BOOLEAN, first : DirEntry \cup {NoEntry}]
      /\ op'.todo = op.todo /\ op'.cmd = op.cmd /\ op'.e = e /\ op'.late = late
  BY <1>3, <1>6 DEF Control, TypeInv
<1>9. TypeInv'
  BY <1>1, <1>5, <1>7, <1>8 DEF Control, TypeInv, ghost
<1>10. StartOK' /\ PartOK' /\ LinkOK' /\ RemoveOK' /\ Task' = Task /\ At' = At
  BY <1>1, <1>8, RemoveStays DEF Unlinking
<1>11. late <=> e \in ents'[At.ino]
  BY <1>2, <1>3, <1>4 DEF Control, TypeInv
<1>12. UnlinkOK'
  BY <1>1, <1>3, <1>6, <1>8, <1>10, <1>11 DEF UnlinkOK
<1>13. DiskOK'
  BY <1>1, <1>3, <1>4 DEF Control, DiskOK, TypeInv
<1> QED BY <1>9, <1>10, <1>12, <1>13 DEF Control

LEMMA LeftType == TypeInv => \A i \in Inodes : LinksLeft(i) \in 0 .. U16 - 1
<1> SUFFICES ASSUME TypeInv, NEW i \in Inodes PROVE LinksLeft(i) \in 0 .. U16 - 1
  OBVIOUS
<1>1. links[i] \in Int
  BY Width DEF TypeInv
<1>2. links[i] + U16 - 1 \in Int
  BY <1>1, Width
<1> QED BY <1>2, Remainder DEF LinksLeft

LEMMA ControlDropLink == Control /\ DropLink => Control'
<1> SUFFICES ASSUME Control, DropLink PROVE Control'
  OBVIOUS
<1> DEFINE i == op.e.ino
<1>1. /\ pc = "drop" /\ op.todo # <<>> /\ Task.do = "unlink"
      /\ links' = [links EXCEPT ![i] = LinksLeft(i)]
      /\ IF LinksLeft(i) = 0
         THEN /\ kind' = [kind EXCEPT ![i] = "none"]
              /\ ents' = [ents EXCEPT ![i] = {}]
              /\ spilt' = spilt + Cardinality(ents[i])
              /\ pc' = "clear"
              /\ UNCHANGED dropped
         ELSE /\ pc' = "wipe"
              /\ dropped' = IF Task.name \in Names /\ kind[i] = "dir"
                            THEN dropped \cup {i} ELSE dropped
              /\ UNCHANGED <<kind, ents, spilt>>
      /\ torn' \subseteq torn
      /\ UNCHANGED <<marked, pwd, hdl, op, leaked, crashes>>
  <2>1. torn' \subseteq torn
    BY DEF DropLink
  <2>2. QED BY <2>1 DEF DropLink, Doing
<1>2. op.e \in DirEntry /\ i \in Inodes /\ op.e.name = Task.name
  BY <1>1 DEF Control, UnlinkOK, Unlinking, DirEntry
<1>3. links' \in [Inodes -> 0 .. U16 - 1]
  BY <1>1, <1>2, LeftType DEF Control, TypeInv
<1>4. StartOK' /\ PartOK' /\ LinkOK' /\ RemoveOK' /\ Task' = Task /\ At' = At
  BY <1>1, RemoveStays DEF Unlinking
<1>5. CASE LinksLeft(i) = 0
  <2>1. Cardinality(ents[i]) \in Nat
    BY <1>2, FS_CardinalityType DEF Control, TypeInv, Finite
  <2>2. spilt' \in Nat
    BY <1>1, <1>5, <2>1 DEF Control, TypeInv
  <2>3. ents' \in [Inodes -> SUBSET DirEntry] /\ Finite(ents')
    BY <1>1, <1>2, <1>5, EntsType DEF Control
  <2>4. kind' \in [Inodes -> {"none", "dir", "file"}] /\ dropped' \subseteq Inodes
    BY <1>1, <1>2, <1>5 DEF Control, TypeInv
  <2>5. TypeInv'
    BY <1>1, <1>3, <1>5, <2>2, <2>3, <2>4 DEF Control, TypeInv
  <2>6. DiskOK' /\ kind'[i] = "none"
    BY <1>1, <1>2, <1>5 DEF Control, DiskOK, TypeInv
  <2>7. UnlinkOK'
    BY <1>1, <1>2, <1>4, <1>5, <2>6 DEF UnlinkOK
  <2> QED BY <1>4, <2>5, <2>6, <2>7 DEF Control
<1>6. CASE LinksLeft(i) # 0
  <2>1. TypeInv'
    BY <1>1, <1>2, <1>3, <1>6 DEF Control, TypeInv
  <2>2. DiskOK'
    BY <1>1, <1>6 DEF Control, DiskOK
  <2>3. UnlinkOK'
    BY <1>1, <1>2, <1>4, <1>6 DEF UnlinkOK
  <2> QED BY <1>4, <2>1, <2>2, <2>3 DEF Control
<1> QED BY <1>5, <1>6

LEMMA ControlClearBit == Control /\ ClearBit => Control'
<1> SUFFICES ASSUME Control, ClearBit PROVE Control'
  OBVIOUS
<1>1. /\ pc = "clear" /\ op.todo # <<>> /\ Task.do = "unlink"
      /\ pc' \in {"wipe", "halted"}
      /\ marked' \subseteq marked /\ marked \ {op.e.ino} \subseteq marked'
      /\ UNCHANGED <<kind, links, ents, pwd, hdl, op, ghost, crashes>>
  BY DEF ClearBit, Doing
<1>2. kind[op.e.ino] = "none" /\ op.e \in DirEntry /\ op.e.name = Task.name
  BY <1>1 DEF Control, UnlinkOK, Unlinking
<1>3. TypeInv'
  BY <1>1 DEF Control, TypeInv, ghost
<1>4. StartOK' /\ PartOK' /\ LinkOK' /\ RemoveOK' /\ Task' = Task /\ At' = At
  BY <1>1, RemoveStays DEF Unlinking
<1>5. DiskOK'
  BY <1>1, <1>2 DEF Control, DiskOK
<1>6. UnlinkOK'
  BY <1>1, <1>2, <1>4 DEF UnlinkOK
<1> QED BY <1>3, <1>4, <1>5, <1>6 DEF Control

LEMMA ControlWipeEntry == Control /\ WipeEntry => Control'
<1> SUFFICES ASSUME Control, WipeEntry PROVE Control'
  OBVIOUS
<1>1. /\ pc = "wipe" /\ op.todo # <<>> /\ Task.do = "unlink" /\ Proceed
      /\ hdl' = [hdl EXCEPT ![Task.at] = Read(At.ino)]
      /\ links' = [links EXCEPT ![At.ino] = Read(At.ino).links]
      /\ ents' = [ents EXCEPT ![At.ino] = @ \ {op.e}]
      /\ UNCHANGED <<marked, kind, pwd, leaked, spilt, dropped, crashes>>
  BY DEF WipeEntry, Doing, ReadBack
<1>2. Task.at \in {"parent", "child"} /\ At.ino \in Inodes
  BY <1>1, RemoveAt DEF Unlinking
<1>3. links' = links
  BY <1>1, <1>2, ReadType DEF Control, TypeInv
<1>4. torn' \subseteq Inodes
  <2>1. PICK d \in TornBy(At.ino) : torn' = torn \cup d
    BY DEF WipeEntry
  <2>2. d \subseteq {At.ino}
    BY <2>1 DEF TornBy
  <2> QED BY <1>2, <2>1, <2>2 DEF Control, TypeInv
<1>5. /\ hdl' \in [parent : Handle, child : Handle] /\ Par' = Par /\ Chd' = Chd
      /\ Task.at = "parent" => hdl'.parent.links = links[Par]
      /\ Task.at = "child" => hdl'.child.links = links[Chd]
  BY <1>1, <1>2, HandleRead DEF Control
<1>6. ents' \in [Inodes -> SUBSET DirEntry] /\ Finite(ents')
  BY <1>1, <1>2, EntsType DEF Control
<1>7. TypeInv'
  BY <1>1, <1>3, <1>4, <1>5, <1>6, Proceeds DEF Control, TypeInv
<1>8. StartOK' /\ PartOK' /\ LinkOK' /\ RemoveOK' /\ UnlinkOK'
  BY <1>1, <1>3, <1>5, RemoveProceeds
<1>9. DiskOK'
  BY <1>1, <1>2 DEF Control, DiskOK, TypeInv
<1> QED BY <1>7, <1>8, <1>9 DEF Control

LEMMA ControlCrash == Control /\ PlainCrash => Control'
<1> SUFFICES ASSUME Control, PlainCrash PROVE Control'
  OBVIOUS
<1>1. /\ crashes' = crashes + 1
      /\ pwd' = Root /\ hdl' = NoHandles /\ pc' = "rest" /\ op' = NoOp
      /\ UNCHANGED <<marked, kind, links, leaked, spilt, dropped>>
  BY DEF PlainCrash
<1>2. crashes' \in Nat
  BY <1>1 DEF Control, TypeInv
<1>3. CASE UNCHANGED <<ents, torn>>
  <2>1. TypeInv'
    BY <1>1, <1>2, <1>3, NoOpType, Width DEF Control, TypeInv
  <2>2. DiskOK' /\ StartOK'
    BY <1>1, <1>3 DEF Control, DiskOK, StartOK
  <2> QED BY <1>1, <2>1, <2>2, ControlStart
<1>4. CASE /\ Doing("next", "link") /\ torn' = torn \cup {At.ino}
           /\ \/ UNCHANGED ents
              \/ ents' = [ents EXCEPT ![At.ino] = @ \cup {Entry(NoName, hdl[Task.to].ino)}]
  <2>1. At.ino \in Inodes /\ hdl[Task.to].ino \in Inodes /\ kind[At.ino] = "dir"
    BY <1>4, LinkAt DEF Doing
  <2>2. Entry(NoName, hdl[Task.to].ino) \in DirEntry
    BY <2>1 DEF Entry, DirEntry
  <2>3. ents' \in [Inodes -> SUBSET DirEntry] /\ Finite(ents')
    <3>1. CASE UNCHANGED ents
      BY <3>1 DEF Control, TypeInv, Finite
    <3>2. CASE ents' = [ents EXCEPT ![At.ino] = @ \cup {Entry(NoName, hdl[Task.to].ino)}]
      BY <2>1, <2>2, <3>2, EntsType DEF Control
    <3> QED BY <1>4, <3>1, <3>2
  <2>4. TypeInv'
    BY <1>1, <1>2, <1>4, <2>1, <2>3, NoOpType, Width DEF Control, TypeInv
  <2>5. DiskOK' /\ StartOK'
    BY <1>1, <1>4, <2>1 DEF Control, DiskOK, StartOK, TypeInv
  <2> QED BY <1>1, <2>4, <2>5, ControlStart
<1> QED BY <1>3, <1>4 DEF PlainCrash

LEMMA ControlStep == Control /\ [PlainNext]_PlainVars => Control'
<1> SUFFICES ASSUME Control, [PlainNext]_PlainVars PROVE Control'
  OBVIOUS
<1>1. CASE UNCHANGED PlainVars
  BY <1>1 DEF PlainVars, disk, ghost, Control, TypeInv, DiskOK, StartOK, PartOK, LinkOK, RemoveOK,
              UnlinkOK, ParentOK, Par, Chd, Task, At
<1>2. CASE \E p \in Inodes, n \in Names : (Mkdir(p, n) /\ p \in Dirs) \/ Rm(p, n) \/ Rmdir(p, n)
  BY <1>2, ControlMkdir, ControlRm, ControlRmdir
<1>3. CASE \E n \in Names : Cp(n) /\ pwd \in Dirs
  BY <1>3, ControlCp
<1> QED BY <1>1, <1>2, <1>3, ControlCd, ControlMkdirNowhere, ControlRestart, ControlMark,
           ControlMarkFails, ControlNewInode, ControlDone, ControlWriteEntry, ControlCountLink,
           ControlReadAgain, ControlNoSuchName, ControlHide, ControlDropLink, ControlClearBit,
           ControlWipeEntry, ControlCrash DEF PlainNext

-----------------------------------------------------------------------------
(* What holds of every step, names astray or not: the types, with those of  *)
(* the copies of inodes, and at which part a command is.                    *)
Views == [kind : {"none", "dir", "file"}, ents : SUBSET DirEntry]

CopyType ==
  /\ copy \in [parent : Views, child : Views]
  /\ IsFiniteSet(copy.parent.ents) /\ IsFiniteSet(copy.child.ents)

MishapType == astray \in Nat /\ astray + crashes <= MaxMishaps

StartShape ==
  /\ pc \in {"mark", "inode"} /\ op.todo # <<>> =>
       Par \in Inodes /\ \E n \in Names : op.todo \in {MkdirTodo(n), CpTodo(n)}
  /\ pc = "inode" => Chd \in Inodes

LinkShape ==
  pc \in {"next", "count"} /\ op.todo # <<>> /\ Task.do = "link" =>
    /\ Par \in Inodes /\ Chd \in Inodes
    /\ op.todo \in {Mkdir2, Mkdir3} \/ \E n \in Names : op.todo \in {MkdirTodo(n), CpTodo(n)}

RemoveShape ==
  pc \in {"next"} \cup Unlinking /\ op.todo # <<>> /\ Task.do # "link" =>
    Par \in Inodes /\ \E n \in Names : Removing(n)

Shaped ==
  /\ StartShape /\ PartOK /\ LinkShape /\ RemoveShape
  /\ pc \in Unlinking => op.e \in DirEntry

Typed == TypeInv /\ CopyType /\ MishapType /\ Shaped

LEMMA ShapedStart ==
  ASSUME pc' \in {"rest", "lost", "mark", "inode"}, StartShape'
  PROVE  Shaped'
BY DEF Shaped, PartOK, LinkShape, RemoveShape, Unlinking

LEMMA NoCopiesType ==
  /\ \A i \in Inodes : TypeInv => View(i) \in Views /\ IsFiniteSet(View(i).ents)
  /\ Zeroed \in Views /\ NewDir \in Views /\ NewFile \in Views
  /\ NewDir.ents = {} /\ NewFile.ents = {} /\ Zeroed.ents = {} /\ IsFiniteSet({})
<1>1. \A i \in Inodes : TypeInv => View(i) \in Views /\ IsFiniteSet(View(i).ents)
  BY DEF View, Views, TypeInv, Finite
<1>2. /\ Zeroed \in Views /\ NewDir \in Views /\ NewFile \in Views
      /\ NewDir.ents = {} /\ NewFile.ents = {} /\ Zeroed.ents = {}
  BY DEF Views, Zeroed, NewDir, NewFile
<1> QED BY <1>1, <1>2, FS_EmptySet

LEMMA NoCopiesCopy ==
  copy' = NoCopies => CopyType'
BY NoCopiesType DEF CopyType, NoCopies

LEMMA TypedEnter ==
  ASSUME Typed, NEW p \in Inodes, Enter(p), crashes' = crashes
  PROVE  CopyType' /\ MishapType'
<1>1. View(p) \in Views /\ IsFiniteSet(View(p).ents)
  BY NoCopiesType DEF Typed
<1>2. copy'.parent = View(p) /\ copy'.child = Zeroed /\ copy' \in [parent : Views, child : Views]
  BY <1>1, NoCopiesType DEF Enter, NoCopies
<1>3. CopyType'
  BY <1>1, <1>2, NoCopiesType DEF CopyType
<1>4. MishapType'
  BY DEF Enter, Typed, MishapType
<1> QED BY <1>3, <1>4

LEMMA TypedElsewhere ==
  ASSUME Typed, Elsewhere, crashes' = crashes
  PROVE  CopyType' /\ MishapType'
BY DEF Elsewhere, Typed, CopyType, MishapType

LEMMA TypedRest ==
  ASSUME Typed, UNCHANGED <<disk, hdl, op>>, pc' = "rest", pwd' \in Inodes,
         crashes' = crashes, UNCHANGED ghost, Elsewhere
  PROVE  Typed'
<1>1. TypeInv'
  BY DEF Typed, TypeInv, disk, ghost
<1>2. Shaped'
  BY ShapedStart DEF StartShape
<1> QED BY <1>1, <1>2, TypedElsewhere DEF Typed

LEMMA TypedMkdir ==
  ASSUME Typed, NEW p, NEW n \in Names, Mkdir(p, n)
  PROVE  Typed'
<1>1. p \in Inodes
  BY ParentsDir DEF Mkdir, Typed
<1>2. MkdirTodo(n) \in Todos
  BY TodosClosed
<1>3. /\ TypeInv' /\ hdl' = [NoHandles EXCEPT !.parent = Read(p)] /\ op'.todo = MkdirTodo(n)
  BY <1>1, <1>2, Handles, BeginTyped DEF Mkdir, Typed
<1>4. pc' = "mark" /\ crashes' = crashes /\ Enter(p)
  BY DEF Mkdir, Begin
<1>5. StartShape'
  BY <1>1, <1>3, <1>4, Handles DEF StartShape, Par, Typed
<1> QED BY <1>1, <1>3, <1>4, <1>5, TypedEnter, ShapedStart DEF Typed

LEMMA TypedCp ==
  ASSUME Typed, NEW n \in Names, Cp(n)
  PROVE  Typed'
<1>1. pwd \in Inodes
  BY DEF Typed, TypeInv
<1>2. CpTodo(n) \in Todos
  BY TodosClosed
<1>3. /\ TypeInv' /\ hdl' = [NoHandles EXCEPT !.parent = Read(pwd)] /\ op'.todo = CpTodo(n)
  BY <1>1, <1>2, Handles, BeginTyped DEF Cp, CpTodo, Typed
<1>4. pc' = "mark" /\ crashes' = crashes /\ Enter(pwd)
  BY DEF Cp, Begin
<1>5. StartShape'
  BY <1>1, <1>3, <1>4, Handles DEF StartShape, Par, Typed
<1> QED BY <1>1, <1>3, <1>4, <1>5, TypedEnter, ShapedStart DEF Typed

LEMMA TypedMkdirNowhere == Typed /\ MkdirNowhere => Typed'
<1> SUFFICES ASSUME Typed, MkdirNowhere PROVE Typed'
  OBVIOUS
<1>1. <<>> \in Todos /\ NoHandles \in [parent : Handle, child : Handle]
  BY TodosClosed, NoOpType
<1>2. TypeInv' /\ op'.todo = <<>>
  BY <1>1, BeginTyped DEF MkdirNowhere, Typed
<1>3. pc' = "mark" /\ crashes' = crashes /\ Elsewhere
  BY DEF MkdirNowhere, Begin
<1>4. StartShape'
  BY <1>2, <1>3 DEF StartShape
<1> QED BY <1>2, <1>3, <1>4, TypedElsewhere, ShapedStart DEF Typed

LEMMA TypedRm ==
  ASSUME Typed, NEW p, NEW n \in Names, Rm(p, n)
  PROVE  Typed'
<1>1. p \in Inodes
  BY ParentsDir DEF Rm, Typed
<1>2. RmTodo(n) \in Todos
  BY TodosClosed
<1>3. /\ TypeInv' /\ PartOK' /\ hdl' = [NoHandles EXCEPT !.parent = Read(p)]
      /\ op'.cmd = "rm" /\ op'.todo = RmTodo(n)
  BY <1>1, <1>2, Handles, BeginTyped DEF Rm, RmTodo, Typed
<1>4. pc' = "next" /\ crashes' = crashes /\ Elsewhere
  BY DEF Rm, Begin
<1>5. hdl'.parent.ino = p
  BY <1>1, <1>3, Handles DEF Typed
<1>6. Head(op'.todo).do = "unlink"
  BY <1>3, Heads, TaskIs
<1>7. Shaped'
  BY <1>1, <1>3, <1>4, <1>5, <1>6
     DEF Shaped, StartShape, LinkShape, RemoveShape, Removing, Par, Task, Unlinking
<1> QED BY <1>3, <1>4, <1>7, TypedElsewhere DEF Typed

LEMMA TypedRmdir ==
  ASSUME Typed, NEW p, NEW n \in Names, Rmdir(p, n)
  PROVE  Typed'
<1>1. p \in Inodes /\ ents[p] \subseteq DirEntry
  BY ParentsDir DEF Rmdir, Typed
<1>2. RmdirTodo(n) \in Todos
  BY TodosClosed
<1>3. PICK e \in ents[p] :
        Begin("rmdir", RmdirTodo(n), [parent |-> Read(p), child |-> Read(e.ino)], e)
  BY DEF Rmdir
<1>4. e \in DirEntry /\ e.ino \in Inodes
  BY <1>1 DEF DirEntry
<1>5. [parent |-> Read(p), child |-> Read(e.ino)] \in [parent : Handle, child : Handle]
  BY <1>1, <1>4, Handles DEF Typed
<1>6. pc' = "next" /\ Elsewhere
  BY DEF Rmdir
<1>7. /\ TypeInv' /\ PartOK' /\ hdl' = [parent |-> Read(p), child |-> Read(e.ino)]
      /\ op'.cmd = "rmdir" /\ op'.todo = RmdirTodo(n)
  BY <1>2, <1>3, <1>4, <1>5, <1>6, BeginTyped DEF Typed
<1>8. crashes' = crashes
  BY <1>3 DEF Begin
<1>9. hdl'.parent.ino = p /\ hdl'.child.ino = e.ino
  BY <1>1, <1>4, <1>7, Handles DEF Typed
<1>10. Head(op'.todo).do = "unlink"
  BY <1>7, Heads, TaskIs
<1>11. Shaped'
  BY <1>1, <1>4, <1>6, <1>7, <1>9, <1>10
     DEF Shaped, StartShape, LinkShape, RemoveShape, Removing, Par, Chd, Task, Unlinking
<1> QED BY <1>6, <1>7, <1>8, <1>11, TypedElsewhere DEF Typed

LEMMA TypedMark == Typed /\ Mark => Typed'
<1> SUFFICES ASSUME Typed, Mark PROVE Typed'
  OBVIOUS
<1>1. PICK n \in Inodes \ marked : /\ marked' = marked \cup {n}
                                   /\ hdl' = [hdl EXCEPT !.child = [ino |-> n, links |-> 0]]
  BY DEF Mark
<1>2. [ino |-> n, links |-> 0] \in Handle
  BY <1>1, Width DEF Handle
<1>3. /\ hdl' \in [parent : Handle, child : Handle] /\ hdl'.parent = hdl.parent
      /\ hdl'.child = [ino |-> n, links |-> 0]
  BY <1>1, <1>2 DEF Typed, TypeInv
<1>4. TypeInv'
  BY <1>1, <1>3 DEF Typed, TypeInv, Mark, ghost
<1>5. pc = "mark" /\ pc' = "inode" /\ crashes' = crashes /\ Elsewhere /\ op' = op
  BY DEF Mark
<1>6. StartShape'
  BY <1>1, <1>3, <1>5 DEF Typed, Shaped, StartShape, Par, Chd
<1> QED BY <1>4, <1>5, <1>6, TypedElsewhere, ShapedStart DEF Typed

LEMMA TypedEnd ==
  ASSUME Typed, MarkFails \/ Done
  PROVE  Typed'
<1>1. /\ pwd' \in Inodes /\ pc' = "rest" /\ op' = NoOp /\ hdl' = NoHandles /\ copy' = NoCopies
      /\ UNCHANGED <<disk, ghost, astray, crashes>>
  BY Width DEF MarkFails, Done, Typed, TypeInv
<1>2. TypeInv'
  BY <1>1, NoOpType DEF Typed, TypeInv, disk, ghost
<1>3. Shaped' /\ MishapType'
  BY <1>1, ShapedStart DEF StartShape, Typed, MishapType
<1> QED BY <1>1, <1>2, <1>3, NoCopiesCopy DEF Typed

LEMMA PutTyped ==
  ASSUME TypeInv, NEW i \in Inodes, NEW c \in Views, IsFiniteSet(c.ents),
         NEW n \in 0 .. U16 - 1, Put(i, c, n)
  PROVE  /\ kind' \in [Inodes -> {"none", "dir", "file"}]
         /\ links' \in [Inodes -> 0 .. U16 - 1]
         /\ ents' \in [Inodes -> SUBSET DirEntry] /\ Finite(ents')
<1>1. c.kind \in {"none", "dir", "file"} /\ c.ents \in SUBSET DirEntry
  BY DEF Views
<1> QED BY <1>1 DEF Put, TypeInv, Finite

LEMMA TypedNewInode == Typed /\ NewInode => Typed'
<1> SUFFICES ASSUME Typed, NewInode PROVE Typed'
  OBVIOUS
<1> DEFINE n == hdl.child.ino
           c == IF op.cmd = "cp" THEN NewFile ELSE NewDir
<1>1. /\ pc = "inode" /\ pc' = "next" /\ Put(n, c, 0) /\ copy' = [copy EXCEPT !.child = c]
      /\ torn' = torn \ {n} /\ dropped' = dropped \ {n}
      /\ leaked' = IF op.todo = <<>> THEN leaked \cup {n} ELSE leaked \ {n}
      /\ UNCHANGED <<marked, pwd, hdl, op, spilt, astray, crashes>>
  BY DEF NewInode
<1>2. n \in Inodes
  BY <1>1 DEF Typed, Shaped, StartShape, Chd
<1>3. c \in Views /\ c.ents = {} /\ IsFiniteSet({})
  BY NoCopiesType
<1> HIDE DEF c
<1>4. 0 \in 0 .. U16 - 1
  BY Width
<1>5. TypeInv'
  BY <1>1, <1>2, <1>3, <1>4, PutTyped DEF Typed, TypeInv
<1>6. copy'.parent = copy.parent /\ copy'.child = c /\ copy' \in [parent : Views, child : Views]
  BY <1>1, <1>3 DEF Typed, CopyType
<1>7. CopyType' /\ MishapType'
  BY <1>1, <1>3, <1>6 DEF Typed, CopyType, MishapType
<1>8. op.todo # <<>> => Par \in Inodes /\ \E m \in Names : op.todo \in {MkdirTodo(m), CpTodo(m)}
  BY <1>1 DEF Typed, Shaped, StartShape
<1>9. op.todo # <<>> => Task.do = "link"
  BY <1>8, Shapes
<1>10. Par' = Par /\ Chd' = Chd /\ Task' = Task /\ Chd \in Inodes
  BY <1>1, <1>2 DEF Par, Chd, Task
<1>11. Shaped'
  BY <1>1, <1>8, <1>9, <1>10 DEF Shaped, StartShape, PartOK, LinkShape, RemoveShape, Unlinking
<1> QED BY <1>5, <1>7, <1>11 DEF Typed

(* The two handles that a part works on.                                    *)
LEMMA TypedLink ==
  ASSUME Typed, pc \in {"next", "count"}, op.todo # <<>>, Task.do = "link"
  PROVE  /\ Task.at \in {"parent", "child"} /\ Task.to \in {"parent", "child"}
         /\ Task.name \in Names \cup Dots /\ Par \in Inodes /\ Chd \in Inodes
         /\ At.ino \in Inodes /\ At \in Handle /\ hdl[Task.to].ino \in Inodes
         /\ hdl[Task.to] \in Handle
         /\ \A a \in {Task.at, Task.to} : copy[a] \in Views /\ IsFiniteSet(copy[a].ents)
<1>1. /\ Par \in Inodes /\ Chd \in Inodes
      /\ op.todo \in {Mkdir2, Mkdir3} \/ \E n \in Names : op.todo \in {MkdirTodo(n), CpTodo(n)}
  BY DEF Typed, Shaped, LinkShape
<1>2. /\ Task.at \in {"parent", "child"} /\ Task.to \in {"parent", "child"}
      /\ Task.name \in Names \cup Dots
  BY <1>1, Shapes, DotShapes DEF Dots
<1>3. \A a \in {"parent", "child"} :
         /\ hdl[a] \in Handle /\ hdl[a].ino \in Inodes
         /\ copy[a] \in Views /\ IsFiniteSet(copy[a].ents)
  BY <1>1 DEF Typed, TypeInv, CopyType, Par, Chd
<1> QED BY <1>1, <1>2, <1>3 DEF At

LEMMA EnteredTyped ==
  ASSUME Typed, pc \in {"next", "count"}, op.todo # <<>>, Task.do = "link", NEW n \in Names \cup Dots \cup {NoName}
  PROVE  LET c == [copy[Task.at] EXCEPT !.ents = @ \cup {Entry(n, hdl[Task.to].ino)}]
         IN  /\ c \in Views /\ IsFiniteSet(c.ents)
             /\ c.kind = copy[Task.at].kind
             /\ c.ents = copy[Task.at].ents \cup {Entry(n, hdl[Task.to].ino)}
<1>1. Entry(n, hdl[Task.to].ino) \in DirEntry
  BY TypedLink DEF Entry, DirEntry
<1>2. copy[Task.at] \in Views /\ IsFiniteSet(copy[Task.at].ents)
  BY TypedLink
<1>3. IsFiniteSet(copy[Task.at].ents \cup {Entry(n, hdl[Task.to].ino)})
  BY <1>2, FS_AddElement
<1> QED BY <1>1, <1>2, <1>3 DEF Views

LEMMA TypedWriteEntry == Typed /\ WriteEntry => Typed'
<1> SUFFICES ASSUME Typed, WriteEntry PROVE Typed'
  OBVIOUS
<1>1. /\ pc = "next" /\ op.todo # <<>> /\ Task.do = "link" /\ pc' = "count"
      /\ Put(At.ino, Entered, At.links) /\ copy' = [copy EXCEPT ![Task.at] = Entered]
      /\ UNCHANGED <<marked, pwd, hdl, op, ghost, astray, crashes>>
  BY DEF WriteEntry, Doing
<1>2. Entered \in Views /\ IsFiniteSet(Entered.ents)
  BY <1>1, TypedLink, EnteredTyped DEF Entered
<1>3. At.ino \in Inodes /\ At.links \in 0 .. U16 - 1 /\ Task.at \in {"parent", "child"}
  BY <1>1, TypedLink DEF Handle
<1>4. TypeInv'
  BY <1>1, <1>2, <1>3, PutTyped DEF Typed, TypeInv, ghost
<1>5. CopyType' /\ MishapType'
  <2>1. CASE Task.at = "parent"
    <3>1. copy'.parent = Entered /\ copy'.child = copy.child /\ copy' \in [parent : Views, child : Views]
      BY <1>1, <1>2, <2>1 DEF Typed, CopyType
    <3> QED BY <1>1, <1>2, <3>1 DEF Typed, CopyType, MishapType
  <2>2. CASE Task.at = "child"
    <3>1. copy'.child = Entered /\ copy'.parent = copy.parent /\ copy' \in [parent : Views, child : Views]
      BY <1>1, <1>2, <2>2 DEF Typed, CopyType
    <3> QED BY <1>1, <1>2, <3>1 DEF Typed, CopyType, MishapType
  <2> QED BY <1>3, <2>1, <2>2
<1>6. Task' = Task /\ Par' = Par /\ Chd' = Chd
  BY <1>1 DEF Task, Par, Chd
<1>7. Shaped'
  BY <1>1, <1>6 DEF Typed, Shaped, StartShape, PartOK, LinkShape, RemoveShape, Unlinking
<1> QED BY <1>4, <1>5, <1>7 DEF Typed

LEMMA TypedCountLink == Typed /\ CountLink => Typed'
<1> SUFFICES ASSUME Typed, CountLink PROVE Typed'
  OBVIOUS
<1> DEFINE to == hdl[Task.to]
<1>1. /\ pc = "count" /\ op.todo # <<>> /\ Task.do = "link" /\ Proceed
      /\ hdl' = [hdl EXCEPT ![Task.to].links = Inc16(@)]
      /\ Put(to.ino, copy[Task.to], Inc16(to.links))
      /\ UNCHANGED <<marked, pwd, copy, ghost, astray, crashes>>
  BY DEF CountLink, Doing
<1>2. /\ to.ino \in Inodes /\ to \in Handle /\ Task.to \in {"parent", "child"}
      /\ copy[Task.to] \in Views /\ IsFiniteSet(copy[Task.to].ents) /\ Par \in Inodes /\ Chd \in Inodes
  BY <1>1, TypedLink
<1>3. Inc16(to.links) \in 0 .. U16 - 1
  BY <1>2, IncType DEF Handle
<1>4. hdl' \in [parent : Handle, child : Handle] /\ hdl'.parent.ino = Par /\ hdl'.child.ino = Chd
  <2>1. hdl \in [parent : Handle, child : Handle]
    BY DEF Typed, TypeInv
  <2> HIDE DEF to
  <2>2. CASE Task.to = "parent"
    BY <1>1, <1>3, <2>1, <2>2 DEF Handle, Par, Chd, to
  <2>3. CASE Task.to = "child"
    BY <1>1, <1>3, <2>1, <2>3 DEF Handle, Par, Chd, to
  <2> QED BY <1>2, <2>2, <2>3
<1> HIDE DEF to
<1>5. TypeInv'
  BY <1>1, <1>2, <1>3, <1>4, PutTyped, Proceeds DEF Typed, TypeInv, ghost
<1>6. CopyType' /\ MishapType'
  BY <1>1 DEF Typed, CopyType, MishapType
<1>7. pc' = "next" /\ op'.todo = Tail(op.todo) /\ Par' \in Inodes /\ Chd' \in Inodes
  BY <1>1, <1>2, <1>4, Proceeds DEF Typed, Par, Chd
<1>8. op'.todo \in {<<>>, Mkdir2, Mkdir3}
  <2>1. op.todo \in {Mkdir2, Mkdir3} \/ \E n \in Names : op.todo \in {MkdirTodo(n), CpTodo(n)}
    BY <1>1 DEF Typed, Shaped, LinkShape
  <2> QED BY <1>7, <2>1, Tails
<1>9. op'.todo # <<>> => Task'.do = "link"
  BY <1>8, Heads, TaskIs DEF Task
<1>10. Shaped'
  BY <1>7, <1>8, <1>9 DEF Shaped, StartShape, PartOK, LinkShape, RemoveShape, Unlinking
<1> QED BY <1>5, <1>6, <1>10 DEF Typed

LEMMA TypedRemove ==
  ASSUME Typed, pc \in {"next"} \cup Unlinking, op.todo # <<>>, Task.do # "link"
  PROVE  /\ Par \in Inodes /\ At.ino \in Inodes /\ Task.at \in {"parent", "child"} /\ At \in Handle
         /\ \E n \in Names : Removing(n)
<1>1. PICK n \in Names : Removing(n)
  BY DEF Typed, Shaped, RemoveShape
<1>2. Par \in Inodes /\ Task.at \in {"parent", "child"} /\ (Task.at = "child" => Chd \in Inodes)
  BY <1>1, Shapes DEF Typed, Shaped, RemoveShape, Removing
<1> QED BY <1>1, <1>2 DEF At, Par, Chd, Typed, TypeInv

(* Taking away goes on to the next part.                                    *)
LEMMA ShapedProceeds ==
  ASSUME Typed, pc \in {"next", "wipe"}, op.todo # <<>>, Task.do # "link", Proceed,
         Par' = Par, Chd' = Chd
  PROVE  Shaped'
<1>1. op'.cmd = op.cmd /\ op'.todo = Tail(op.todo) /\ pc' = "next"
  BY Proceeds DEF Typed
<1>2. Par \in Inodes
  BY TypedRemove DEF Unlinking
<1>3. PICK n \in Names : Removing(n)
  BY TypedRemove DEF Unlinking
<1>4. op'.todo = <<>> \/ (Removing(n)' /\ Task'.do # "link")
  <2>1. CASE op.todo = RmTodo(n)
    BY <1>1, <2>1, Tails
  <2>2. ASSUME NEW t \in {Rmdir2(n), Rmdir3(n), RmTodo(n)}, op'.todo = t, op.cmd = "rmdir",
               Chd \in Inodes
        PROVE  Removing(n)' /\ Task'.do # "link"
    <3>1. Removing(n)'
      BY <1>1, <2>2 DEF Removing
    <3>2. Head(t).do # "link"
      BY <2>2, Heads, TaskIs
    <3> QED BY <2>2, <3>1, <3>2 DEF Task
  <2>3. CASE op.cmd = "rmdir" /\ Chd \in Inodes /\ op.todo \in {RmdirTodo(n), Rmdir2(n), Rmdir3(n)}
    <3>1. op'.todo \in {Rmdir2(n), Rmdir3(n), RmTodo(n)}
      BY <1>1, <2>3, Tails
    <3> QED BY <2>2, <2>3, <3>1
  <2> QED BY <1>3, <2>1, <2>3 DEF Removing
<1> QED BY <1>1, <1>2, <1>4 DEF Shaped, StartShape, PartOK, LinkShape, RemoveShape, Unlinking

LEMMA ShapedStays ==
  ASSUME Typed, pc \in {"next"} \cup Unlinking, pc' \in Unlinking, op.todo # <<>>,
         Task.do = "unlink", op'.todo = op.todo, op'.cmd = op.cmd, op'.e \in DirEntry, hdl' = hdl
  PROVE  Shaped'
<1>1. Task' = Task /\ Par' = Par /\ Chd' = Chd
  BY DEF Task, Par, Chd
<1>2. Par \in Inodes /\ \E n \in Names : Removing(n)
  BY TypedRemove
<1>3. RemoveShape'
  BY <1>1, <1>2 DEF RemoveShape, Removing
<1> QED BY <1>1, <1>3 DEF Shaped, StartShape, PartOK, LinkShape, Unlinking

LEMMA TypedReadAgain == Typed /\ ReadAgain => Typed'
<1> SUFFICES ASSUME Typed, ReadAgain PROVE Typed'
  OBVIOUS
<1>1. /\ pc = "next" /\ op.todo # <<>> /\ Task.do = "reread" /\ Proceed
      /\ hdl' = [hdl EXCEPT ![Task.at] = Read(At.ino)]
      /\ UNCHANGED <<disk, pwd, ghost, crashes>> /\ Elsewhere
  BY DEF ReadAgain, Doing
<1>2. Task.at \in {"parent", "child"} /\ At.ino \in Inodes
  BY <1>1, TypedRemove
<1>3. hdl' \in [parent : Handle, child : Handle] /\ Par' = Par /\ Chd' = Chd
  BY <1>1, <1>2, HandleRead DEF Typed
<1>4. TypeInv'
  BY <1>1, <1>3, Proceeds DEF Typed, TypeInv, disk, ghost
<1>5. Shaped'
  BY <1>1, <1>3, ShapedProceeds
<1> QED BY <1>1, <1>4, <1>5, TypedElsewhere DEF Typed

LEMMA TypedNoSuchName == Typed /\ NoSuchName => Typed'
<1> SUFFICES ASSUME Typed, NoSuchName PROVE Typed'
  OBVIOUS
<1>1. /\ pc = "next" /\ op.todo # <<>> /\ Task.do = "unlink" /\ Proceed
      /\ UNCHANGED <<disk, pwd, hdl, ghost, crashes>> /\ Elsewhere
  BY DEF NoSuchName, Doing
<1>2. TypeInv'
  BY <1>1, Proceeds DEF Typed, TypeInv, disk, ghost
<1>3. Par' = Par /\ Chd' = Chd
  BY <1>1 DEF Par, Chd
<1>4. Shaped'
  BY <1>1, <1>3, ShapedProceeds
<1> QED BY <1>1, <1>2, <1>4, TypedElsewhere DEF Typed

LEMMA TypedHide == Typed /\ Hide => Typed'
<1> SUFFICES ASSUME Typed, Hide PROVE Typed'
  OBVIOUS
<1>1. /\ pc = "next" /\ op.todo # <<>> /\ Task.do = "unlink" /\ pc' = "drop"
      /\ links' = [links EXCEPT ![At.ino] = At.links]
      /\ UNCHANGED <<marked, kind, pwd, hdl, ghost, crashes>> /\ Elsewhere
  BY DEF Hide, Doing
<1>2. PICK e \in ents[At.ino] : \E late \in BOOLEAN :
        /\ op' = [op EXCEPT !.e = e, !.late = late]
        /\ ents' = IF late THEN ents ELSE [ents EXCEPT ![At.ino] = @ \ {e}]
  BY Zenon DEF Hide
<1>3. PICK late \in BOOLEAN :
        /\ op' = [op EXCEPT !.e = e, !.late = late]
        /\ ents' = IF late THEN ents ELSE [ents EXCEPT ![At.ino] = @ \ {e}]
  BY <1>2, Zenon
<1>4. At.ino \in Inodes /\ At.links \in 0 .. U16 - 1
  BY <1>1, TypedRemove DEF Handle
<1>5. links' \in [Inodes -> 0 .. U16 - 1] /\ e \in DirEntry
  BY <1>1, <1>2, <1>4 DEF Typed, TypeInv
<1>6. ents' \in [Inodes -> SUBSET DirEntry] /\ Finite(ents')
  BY <1>3, <1>4, EntsType DEF Typed, TypeInv
<1>7. /\ op' \in [cmd : {"none", "mkdir", "cp", "rm", "rmdir"}, todo : Todos,
                  e : DirEntry \cup {NoEntry}, late : BOOLEAN, first : DirEntry \cup {NoEntry}]
      /\ op'.todo = op.todo /\ op'.cmd = op.cmd /\ op'.e = e
  BY <1>3, <1>5 DEF Typed, TypeInv
<1>8. TypeInv'
  BY <1>1, <1>5, <1>6, <1>7 DEF Typed, TypeInv, ghost
<1>9. Shaped'
  BY <1>1, <1>5, <1>7, ShapedStays DEF Unlinking
<1> QED BY <1>1, <1>8, <1>9, TypedElsewhere DEF Typed

LEMMA TypedDropLink == Typed /\ DropLink => Typed'
<1> SUFFICES ASSUME Typed, DropLink PROVE Typed'
  OBVIOUS
<1> DEFINE i == op.e.ino
<1>1. /\ pc = "drop" /\ op.todo # <<>> /\ Task.do = "unlink"
      /\ links' = [links EXCEPT ![i] = LinksLeft(i)]
      /\ IF LinksLeft(i) = 0
         THEN /\ kind' = [kind EXCEPT ![i] = "none"]
              /\ ents' = [ents EXCEPT ![i] = {}]
              /\ spilt' = spilt + Cardinality(ents[i])
              /\ dropped' = dropped
         ELSE /\ dropped' = IF Task.name \in Names /\ kind[i] = "dir"
                            THEN dropped \cup {i} ELSE dropped
              /\ UNCHANGED <<kind, ents, spilt>>
      /\ torn' \subseteq torn /\ pc' \in {"clear", "wipe"}
      /\ UNCHANGED <<marked, pwd, hdl, op, leaked, crashes>> /\ Elsewhere
  <2>1. torn' \subseteq torn
    BY DEF DropLink
  <2>2. pc' \in {"clear", "wipe"}
    BY DEF DropLink
  <2> QED BY <2>1, <2>2 DEF DropLink, Doing
<1>2. op.e \in DirEntry /\ i \in Inodes
  BY <1>1 DEF Typed, Shaped, Unlinking, DirEntry
<1>3. links' \in [Inodes -> 0 .. U16 - 1]
  BY <1>1, <1>2, LeftType DEF Typed, TypeInv
<1>4. TypeInv'
  <2>1. CASE LinksLeft(i) = 0
    <3>1. Cardinality(ents[i]) \in Nat
      BY <1>2, FS_CardinalityType DEF Typed, TypeInv, Finite
    <3>2. spilt' \in Nat
      BY <1>1, <2>1, <3>1 DEF Typed, TypeInv
    <3>3. ents' \in [Inodes -> SUBSET DirEntry] /\ Finite(ents')
      BY <1>1, <1>2, <2>1, EntsType DEF Typed
    <3>4. kind' \in [Inodes -> {"none", "dir", "file"}] /\ dropped' \subseteq Inodes
      BY <1>1, <1>2, <2>1 DEF Typed, TypeInv
    <3> QED BY <1>1, <1>3, <3>2, <3>3, <3>4 DEF Typed, TypeInv
  <2>2. CASE LinksLeft(i) # 0
    BY <1>1, <1>2, <1>3, <2>2 DEF Typed, TypeInv
  <2> QED BY <2>1, <2>2
<1>5. Shaped'
  BY <1>1, <1>2, ShapedStays DEF Unlinking
<1> QED BY <1>1, <1>4, <1>5, TypedElsewhere DEF Typed

LEMMA TypedClearBit == Typed /\ ClearBit => Typed'
<1> SUFFICES ASSUME Typed, ClearBit PROVE Typed'
  OBVIOUS
<1>1. /\ pc = "clear" /\ op.todo # <<>> /\ Task.do = "unlink"
      /\ pc' \in {"wipe", "halted"} /\ marked' \subseteq marked
      /\ UNCHANGED <<kind, links, ents, pwd, hdl, op, ghost, crashes>> /\ Elsewhere
  BY DEF ClearBit, Doing
<1>2. TypeInv' /\ op.e \in DirEntry
  BY <1>1 DEF Typed, TypeInv, Shaped, Unlinking, ghost
<1>3. Shaped'
  BY <1>1, <1>2, ShapedStays DEF Unlinking
<1> QED BY <1>1, <1>2, <1>3, TypedElsewhere DEF Typed

LEMMA TypedWipeEntry == Typed /\ WipeEntry => Typed'
<1> SUFFICES ASSUME Typed, WipeEntry PROVE Typed'
  OBVIOUS
<1>1. /\ pc = "wipe" /\ op.todo # <<>> /\ Task.do = "unlink" /\ Proceed
      /\ hdl' = [hdl EXCEPT ![Task.at] = Read(At.ino)]
      /\ links' = [links EXCEPT ![At.ino] = Read(At.ino).links]
      /\ ents' = [ents EXCEPT ![At.ino] = @ \ {op.e}]
      /\ UNCHANGED <<marked, kind, pwd, leaked, spilt, dropped, crashes>> /\ Elsewhere
  BY DEF WipeEntry, Doing, ReadBack
<1>2. Task.at \in {"parent", "child"} /\ At.ino \in Inodes
  BY <1>1, TypedRemove DEF Unlinking
<1>3. links' = links
  BY <1>1, <1>2, ReadType DEF Typed, TypeInv
<1>4. torn' \subseteq Inodes
  <2>1. PICK d \in TornBy(At.ino) : torn' = torn \cup d
    BY DEF WipeEntry
  <2>2. d \subseteq {At.ino}
    BY <2>1 DEF TornBy
  <2> QED BY <1>2, <2>1, <2>2 DEF Typed, TypeInv
<1>5. hdl' \in [parent : Handle, child : Handle] /\ Par' = Par /\ Chd' = Chd
  BY <1>1, <1>2, HandleRead DEF Typed
<1>6. ents' \in [Inodes -> SUBSET DirEntry] /\ Finite(ents')
  BY <1>1, <1>2, EntsType DEF Typed
<1>7. TypeInv'
  BY <1>1, <1>3, <1>4, <1>5, <1>6, Proceeds DEF Typed, TypeInv
<1>8. Shaped'
  BY <1>1, <1>5, ShapedProceeds
<1> QED BY <1>1, <1>7, <1>8, TypedElsewhere DEF Typed

LEMMA TypedCrash == Typed /\ Crash => Typed'
<1> SUFFICES ASSUME Typed, Crash PROVE Typed'
  OBVIOUS
<1>1. /\ crashes' = crashes + 1 /\ astray + crashes < MaxMishaps
      /\ pwd' = Root /\ hdl' = NoHandles /\ copy' = NoCopies /\ pc' = "rest" /\ op' = NoOp
      /\ UNCHANGED <<marked, leaked, spilt, dropped, astray>>
  BY DEF Crash
<1>2. crashes' \in Nat /\ MishapType'
  BY <1>1, NamespaceAssumption DEF Typed, TypeInv, MishapType
<1>3. TypeInv'
  <2>1. CASE UNCHANGED <<kind, links, ents, torn>>
    BY <1>1, <1>2, <2>1, NoOpType, Width DEF Typed, TypeInv
  <2>2. ASSUME Doing("next", "link"), torn' = torn \cup {At.ino}, NEW c \in Views,
               IsFiniteSet(c.ents), Put(At.ino, c, At.links)
        PROVE  TypeInv'
    <3>1. At.ino \in Inodes /\ At.links \in 0 .. U16 - 1
      BY <2>2, TypedLink DEF Doing, Handle
    <3>2. /\ kind' \in [Inodes -> {"none", "dir", "file"}]
          /\ links' \in [Inodes -> 0 .. U16 - 1]
          /\ ents' \in [Inodes -> SUBSET DirEntry] /\ Finite(ents')
      BY <2>2, <3>1, PutTyped DEF Typed
    <3> QED BY <1>1, <1>2, <2>2, <3>1, <3>2, NoOpType, Width DEF Typed, TypeInv
  <2>3. CASE Doing("next", "link") /\ torn' = torn \cup {At.ino} /\ Put(At.ino, copy[Task.at], At.links)
    <3>1. copy[Task.at] \in Views /\ IsFiniteSet(copy[Task.at].ents)
      BY <2>3, TypedLink DEF Doing
    <3> QED BY <2>2, <2>3, <3>1
  <2> DEFINE c == [copy[Task.at] EXCEPT !.ents = @ \cup {Entry(NoName, hdl[Task.to].ino)}]
  <2>4. CASE Doing("next", "link") /\ torn' = torn \cup {At.ino} /\ Put(At.ino, c, At.links)
    <3>1. c \in Views /\ IsFiniteSet(c.ents)
      BY <2>4, EnteredTyped DEF Doing
    <3> HIDE DEF c
    <3> QED BY <2>2, <2>4, <3>1
  <2> QED BY <2>1, <2>3, <2>4 DEF Crash
<1>4. Shaped'
  BY <1>1, ShapedStart DEF StartShape
<1> QED BY <1>1, <1>2, <1>3, <1>4, NoCopiesCopy DEF Typed

LEMMA TypedCrashFreeing == Typed /\ CrashFreeing => Typed'
<1> SUFFICES ASSUME Typed, CrashFreeing PROVE Typed'
  OBVIOUS
<1>1. /\ astray' = astray + 1 /\ astray + crashes < MaxMishaps
      /\ pwd' = Root /\ hdl' = NoHandles /\ copy' = NoCopies /\ pc' = "lost" /\ op' = NoOp
      /\ UNCHANGED <<marked, kind, links, ents, torn, leaked, spilt, dropped, crashes>>
  BY DEF CrashFreeing, disk, ghost
<1>2. MishapType'
  BY <1>1, NamespaceAssumption DEF Typed, TypeInv, MishapType
<1>3. TypeInv'
  BY <1>1, NoOpType, Width DEF Typed, TypeInv
<1>4. Shaped'
  BY <1>1, ShapedStart DEF StartShape
<1> QED BY <1>1, <1>2, <1>3, <1>4, NoCopiesCopy DEF Typed

LEMMA TypedInit == Init => Typed
<1> SUFFICES ASSUME Init PROVE Typed
  OBVIOUS
<1>1. TypeInv
  BY ControlInit DEF Control
<1>2. CopyType
  BY NoCopiesType DEF Init, CopyType, NoCopies
<1>3. MishapType /\ Shaped
  BY NamespaceAssumption
     DEF Init, MishapType, Shaped, StartShape, PartOK, LinkShape, RemoveShape, Unlinking
<1> QED BY <1>1, <1>2, <1>3 DEF Typed

LEMMA TypedStep == Typed /\ [Next]_vars => Typed'
<1> SUFFICES ASSUME Typed, [Next]_vars PROVE Typed'
  OBVIOUS
<1>1. CASE UNCHANGED vars \/ Stopped
  <2>1. UNCHANGED vars
    BY <1>1 DEF Stopped
  <2>2. UNCHANGED <<marked, kind, links, ents, pwd, hdl, copy, pc, op, torn, leaked, spilt,
                    dropped, astray, crashes>>
    BY <2>1 DEF vars, disk, ghost
  <2> QED BY <2>2 DEF Typed, TypeInv, CopyType, MishapType, Shaped, StartShape, PartOK, LinkShape,
                      RemoveShape, Removing, Par, Chd, Task
<1>2. CASE \E p \in Inodes, n \in Names : Mkdir(p, n) \/ Rm(p, n) \/ Rmdir(p, n)
  BY <1>2, TypedMkdir, TypedRm, TypedRmdir
<1>3. CASE \E n \in Names : Cp(n)
  BY <1>3, TypedCp
<1>4. CASE Cd
  <2>1. pwd' \in Inodes
    BY <1>4, ParentsDir DEF Cd, Typed
  <2>2. pc' = "rest"
    BY <1>4 DEF Cd, AtRest
  <2> QED BY <1>4, <2>1, <2>2, TypedRest DEF Cd
<1>5. CASE Restart
  BY <1>5, Width, TypedRest DEF Restart
<1> QED BY <1>1, <1>2, <1>3, <1>4, <1>5, TypedMkdirNowhere, TypedMark, TypedEnd, TypedNewInode,
           TypedWriteEntry, TypedCountLink, TypedReadAgain, TypedNoSuchName, TypedHide,
           TypedDropLink, TypedClearBit, TypedWipeEntry, TypedCrash, TypedCrashFreeing DEF Next

(* TypeOK for every number of inodes, every set of names and any number of  *)
(* mishaps: handles, their copies, counts and entries stay in range at every*)
(* step of a command, of one that works in a free inode too, and across the *)
(* crashes that cut one short.                                              *)
THEOREM TypeCorrect == Spec => []TypeOK
<1>1. Typed => TypeOK
  <2> SUFFICES ASSUME Typed PROVE TypeOK
    OBVIOUS
  <2>1. \A i \in Inodes : \A e \in ents[i] : /\ e.name \in Names \cup Dots \cup {NoName}
                                             /\ e.ino \in Inodes
    BY DEF Typed, TypeInv, DirEntry
  <2>2. \A h \in {"parent", "child"} : /\ hdl[h].ino \in Inodes \cup {0}
                                       /\ hdl[h].links \in 0 .. U16 - 1
    BY DEF Typed, TypeInv, Handle
  <2> QED BY <2>1, <2>2 DEF Typed, TypeInv, MishapType, TypeOK
<1> QED BY <1>1, TypedInit, TypedStep, PTL DEF Spec

-----------------------------------------------------------------------------
(* As long as no name goes astray the copies in the handles of mkdir and cp *)
(* are what is on the disk.                                                 *)
CopyOK ==
  /\ pc \in {"mark", "inode"} /\ op.todo # <<>> => copy.parent = View(Par)
  /\ pc \in {"next", "count"} /\ op.todo # <<>> /\ Task.do = "link" =>
       copy.parent = View(Par) /\ copy.child = View(Chd)

LEMMA CopyInit == Init => CopyOK
BY DEF Init, CopyOK

(* To write what is there changes nothing.                                  *)
LEMMA PutSame ==
  ASSUME TypeInv, NEW i \in Inodes, NEW n, Put(i, View(i), n)
  PROVE  kind' = kind /\ ents' = ents /\ links' = [links EXCEPT ![i] = n]
BY DEF Put, View, TypeInv

LEMMA CopyIs ==
  ASSUME Control, CopyOK, pc \in {"next", "count"}, op.todo # <<>>, Task.do = "link"
  PROVE  \A a \in {"parent", "child"} : copy[a] = View(hdl[a].ino) /\ hdl[a].ino \in Inodes
BY LinkAt DEF CopyOK, Par, Chd

LEMMA PutEntered ==
  ASSUME TypeInv, NEW i \in Inodes, NEW x, NEW n,
         Put(i, [View(i) EXCEPT !.ents = @ \cup {x}], n)
  PROVE  /\ kind' = kind /\ ents' = [ents EXCEPT ![i] = @ \cup {x}]
         /\ links' = [links EXCEPT ![i] = n]
BY DEF Put, View, TypeInv

LEMMA PlainStep ==
  ASSUME Typed, Control, CopyOK, astray = 0, astray' = 0, [Next]_vars
  PROVE  [PlainNext]_PlainVars
<1>1. CASE UNCHANGED vars \/ Stopped
  BY <1>1 DEF Stopped, vars, PlainVars
<1>2. CASE \E p \in Inodes, n \in Names : Mkdir(p, n) \/ Rm(p, n) \/ Rmdir(p, n)
  <2>1. \A p \in Inodes, n \in Names : Mkdir(p, n) => p \in Dirs
    BY DEF Mkdir, Enter
  <2> QED BY <1>2, <2>1 DEF PlainNext
<1>3. CASE \E n \in Names : Cp(n)
  <2>1. \A n \in Names : Cp(n) => pwd \in Dirs
    BY DEF Cp, Enter
  <2> QED BY <1>3, <2>1 DEF PlainNext
<1>4. CASE NewInode
  <2>1. PlainNewInode
    BY <1>4 DEF NewInode, PlainNewInode, Put, NewFile, NewDir
  <2> QED BY <2>1 DEF PlainNext
<1>5. CASE WriteEntry
  <2>1. /\ pc = "next" /\ op.todo # <<>> /\ Task.do = "link" /\ Put(At.ino, Entered, At.links)
        /\ pc' = "count" /\ UNCHANGED <<marked, pwd, hdl, op, ghost, crashes>>
    BY <1>5 DEF WriteEntry, Doing
  <2>2. copy[Task.at] = View(At.ino) /\ At.ino \in Inodes
    BY <2>1, CopyIs, LinkAt DEF At
  <2>3. /\ kind' = kind /\ links' = [links EXCEPT ![At.ino] = At.links]
        /\ ents' = [ents EXCEPT ![At.ino] = @ \cup {Entry(Task.name, hdl[Task.to].ino)}]
    BY <2>1, <2>2, PutEntered DEF Entered, Typed
  <2>4. PlainWriteEntry
    BY <2>1, <2>3 DEF PlainWriteEntry, Doing
  <2> QED BY <2>4 DEF PlainNext
<1>6. CASE CountLink
  <2> DEFINE to == hdl[Task.to]
  <2>1. /\ pc = "count" /\ op.todo # <<>> /\ Task.do = "link" /\ Proceed
        /\ hdl' = [hdl EXCEPT ![Task.to].links = Inc16(@)]
        /\ Put(to.ino, copy[Task.to], Inc16(to.links))
        /\ UNCHANGED <<marked, pwd, ghost, crashes>>
    BY <1>6 DEF CountLink, Doing
  <2>2. copy[Task.to] = View(to.ino) /\ to.ino \in Inodes
    BY <2>1, CopyIs, LinkAt
  <2>3. kind' = kind /\ ents' = ents /\ links' = [links EXCEPT ![to.ino] = Inc16(to.links)]
    BY <2>1, <2>2, PutSame DEF Typed
  <2>4. PlainCountLink
    BY <2>1, <2>3 DEF PlainCountLink, Doing
  <2> QED BY <2>4 DEF PlainNext
<1>7. CASE Crash
  <2>1. /\ pc \notin {"rest", "lost"} /\ crashes' = crashes + 1
        /\ pwd' = Root /\ hdl' = NoHandles /\ pc' = "rest" /\ op' = NoOp
        /\ UNCHANGED <<marked, leaked, spilt, dropped>>
    BY <1>7 DEF Crash
  <2>2. CASE UNCHANGED <<kind, links, ents, torn>>
    BY <2>1, <2>2 DEF PlainCrash, PlainNext
  <2>3. ASSUME Doing("next", "link")
        PROVE  /\ copy[Task.at] = View(At.ino) /\ At.ino \in Inodes
               /\ links' = [links EXCEPT ![At.ino] = At.links] => links' = links
    <3>1. At.ino \in Inodes /\ At.links = links[At.ino]
      BY <2>3, LinkAt DEF Doing
    <3> QED BY <2>3, <3>1, CopyIs, LinkAt DEF At, Doing, Typed, TypeInv
  <2>4. CASE /\ Doing("next", "link") /\ torn' = torn \cup {At.ino}
             /\ Put(At.ino, copy[Task.at], At.links)
    <3>1. kind' = kind /\ ents' = ents /\ links' = links
      BY <2>3, <2>4, PutSame DEF Typed
    <3> QED BY <2>1, <2>4, <3>1 DEF PlainCrash, PlainNext
  <2> DEFINE x == Entry(NoName, hdl[Task.to].ino)
  <2>5. CASE /\ Doing("next", "link") /\ torn' = torn \cup {At.ino}
             /\ Put(At.ino, [copy[Task.at] EXCEPT !.ents = @ \cup {x}], At.links)
    <3>1. kind' = kind /\ ents' = [ents EXCEPT ![At.ino] = @ \cup {x}] /\ links' = links
      <4> HIDE DEF x
      <4> QED BY <2>3, <2>5, PutEntered DEF Typed
    <3> QED BY <2>1, <2>5, <3>1 DEF PlainCrash, PlainNext
  <2> QED BY <1>7, <2>2, <2>4, <2>5 DEF Crash
<1>8. ~CrashFreeing
  BY DEF CrashFreeing
<1> QED BY <1>1, <1>2, <1>3, <1>4, <1>5, <1>6, <1>7, <1>8 DEF Next, PlainNext

(* A command that takes names away goes on taking names away.               *)
LEMMA CopyVoid ==
  ASSUME Control', op'.cmd \in {"rm", "rmdir"} \/ pc' \notin {"mark", "inode", "next", "count"}
  PROVE  CopyOK'
BY DEF CopyOK, Control, StartOK, LinkOK

LEMMA RemoverIs ==
  ASSUME Control, pc \in {"next"} \cup Unlinking, op.todo # <<>>, Task.do # "link"
  PROVE  op.cmd \in {"rm", "rmdir"}
BY DEF Control, RemoveOK

LEMMA CopyStep ==
  ASSUME Typed, Control, Control', CopyOK, astray = 0, astray' = 0, [Next]_vars
  PROVE  CopyOK'
<1>1. CASE UNCHANGED vars \/ Stopped
  <2>1. UNCHANGED vars
    BY <1>1 DEF Stopped
  <2>2. UNCHANGED <<kind, ents, hdl, copy, pc, op>>
    BY <2>1 DEF vars, disk
  <2> QED BY <2>2 DEF CopyOK, View, Par, Chd, Task
<1>2. ASSUME NEW p \in Inodes, NEW n \in Names, Mkdir(p, n)
      PROVE  CopyOK'
  <2>1. /\ pc' = "mark" /\ copy' = [NoCopies EXCEPT !.parent = View(p)] /\ UNCHANGED disk
        /\ hdl' = [NoHandles EXCEPT !.parent = Read(p)]
    BY <1>2 DEF Mkdir, Enter, Begin
  <2>2. Par' = p /\ copy'.parent = View(p)
    BY <2>1, Handles DEF Par, NoCopies, Typed
  <2>3. View(p)' = View(p)
    BY <2>1 DEF disk, View
  <2> QED BY <2>1, <2>2, <2>3 DEF CopyOK, View
<1>3. ASSUME NEW n \in Names, Cp(n)
      PROVE  CopyOK'
  <2>1. /\ pc' = "mark" /\ copy' = [NoCopies EXCEPT !.parent = View(pwd)] /\ UNCHANGED disk
        /\ hdl' = [NoHandles EXCEPT !.parent = Read(pwd)] /\ pwd \in Inodes
    BY <1>3 DEF Cp, Enter, Begin, Typed, TypeInv
  <2>2. Par' = pwd /\ copy'.parent = View(pwd)
    BY <2>1, Handles DEF Par, NoCopies, Typed
  <2> QED BY <2>1, <2>2 DEF CopyOK, View, disk
<1>4. ASSUME NEW p \in Inodes, NEW n \in Names, Rm(p, n) \/ Rmdir(p, n)
      PROVE  CopyOK'
  <2>1. CASE Rm(p, n)
    BY <2>1, CopyVoid DEF Rm, Begin, NoOp
  <2>2. CASE Rmdir(p, n)
    <3>1. PICK e \in ents[p] :
            Begin("rmdir", RmdirTodo(n), [parent |-> Read(p), child |-> Read(e.ino)], e)
      BY <2>2, Zenon DEF Rmdir
    <3> QED BY <3>1, CopyVoid DEF Begin, NoOp
  <2> QED BY <1>4, <2>1, <2>2
<1>5. CASE MkdirNowhere
  <2>1. pc' = "mark" /\ op'.todo = <<>>
    BY <1>5 DEF MkdirNowhere, Begin, NoOp
  <2> QED BY <2>1 DEF CopyOK
<1>6. CASE Cd \/ Restart \/ MarkFails \/ Done \/ Crash
  <2>1. pc' = "rest"
    BY <1>6 DEF Cd, AtRest, Restart, MarkFails, Done, Crash
  <2> QED BY <2>1 DEF CopyOK
<1>7. CASE Mark
  <2>1. PICK n \in Inodes \ marked : hdl' = [hdl EXCEPT !.child = [ino |-> n, links |-> 0]]
    BY <1>7 DEF Mark
  <2>2. pc = "mark" /\ pc' = "inode" /\ UNCHANGED <<kind, ents, op, copy>>
    BY <1>7 DEF Mark, Elsewhere
  <2>3. Par' = Par
    BY <2>1 DEF Par, Typed, TypeInv
  <2> QED BY <2>2, <2>3 DEF CopyOK, View
<1>8. CASE NewInode
  <2> DEFINE n == hdl.child.ino
             c == IF op.cmd = "cp" THEN NewFile ELSE NewDir
  <2>1. /\ pc = "inode" /\ pc' = "next" /\ Put(n, c, 0) /\ copy' = [copy EXCEPT !.child = c]
        /\ UNCHANGED <<hdl, op>>
    BY <1>8 DEF NewInode
  <2> SUFFICES ASSUME op.todo # <<>> PROVE CopyOK'
    BY <2>1 DEF CopyOK
  <2>2. /\ copy.parent = View(Par) /\ ParentOK /\ kind[Chd] = "none" /\ Chd \in Inodes
    BY <2>1 DEF CopyOK, Control, StartOK, TypeInv
  <2>3. c = [kind |-> c.kind, ents |-> c.ents]
    BY DEF NewFile, NewDir
  <2> HIDE DEF c
  <2>4. Chd # Par /\ Par \in Inodes /\ n = Chd
    BY <2>2 DEF ParentOK, Chd
  <2>5. View(Chd)' = c /\ View(Par)' = View(Par)
    <3>1. /\ kind'[Chd] = c.kind /\ ents'[Chd] = c.ents
          /\ kind'[Par] = kind[Par] /\ ents'[Par] = ents[Par]
      BY <2>1, <2>2, <2>4 DEF Put, Typed, TypeInv
    <3>2. Par' = Par /\ Chd' = Chd
      BY <2>1 DEF Par, Chd
    <3>3. View(Chd)' = [kind |-> kind'[Chd], ents |-> ents'[Chd]]
      BY <3>2 DEF View
    <3>4. View(Par)' = [kind |-> kind'[Par], ents |-> ents'[Par]]
      BY <3>2 DEF View
    <3> QED BY <2>3, <3>1, <3>3, <3>4 DEF View
  <2>6. copy'.parent = copy.parent /\ copy'.child = c
    BY <2>1 DEF Typed, CopyType
  <2> QED BY <2>1, <2>2, <2>5, <2>6 DEF CopyOK
<1>9. CASE WriteEntry
  <2>1. /\ pc = "next" /\ op.todo # <<>> /\ Task.do = "link" /\ Put(At.ino, Entered, At.links)
        /\ copy' = [copy EXCEPT ![Task.at] = Entered] /\ UNCHANGED <<hdl, op>>
    BY <1>9 DEF WriteEntry, Doing
  <2>2. /\ Task.at \in {"parent", "child"} /\ Par \in Inodes /\ Chd \in Inodes /\ Chd # Par
        /\ copy.parent = View(Par) /\ copy.child = View(Chd) /\ copy[Task.at] = View(At.ino)
    BY <2>1, LinkAt, CopyIs DEF At, Par, Chd
  <2>3. Entered = [kind |-> Entered.kind, ents |-> Entered.ents]
    <3>1. copy[Task.at] \in Views
      BY <2>2 DEF Typed, CopyType
    <3>2. \A v \in Views : \A x : [v EXCEPT !.ents = @ \cup {x}]
                                  = [kind |-> v.kind, ents |-> v.ents \cup {x}]
      BY DEF Views
    <3>3. Entered = [kind |-> copy[Task.at].kind,
                     ents |-> copy[Task.at].ents \cup {Entry(Task.name, hdl[Task.to].ino)}]
      BY <3>1, <3>2 DEF Entered
    <3> QED BY <3>3
  <2>4. Par' = Par /\ Chd' = Chd
    BY <2>1 DEF Par, Chd
  <2>5. CASE Task.at = "parent"
    <3>1. copy'.parent = Entered /\ copy'.child = copy.child /\ At.ino = Par
      BY <2>1, <2>5 DEF Typed, CopyType, At, Par
    <3>2. View(Par)' = Entered /\ View(Chd)' = View(Chd)
      BY <2>1, <2>2, <2>3, <2>4, <3>1 DEF View, Put, Typed, TypeInv
    <3> QED BY <2>2, <2>4, <3>1, <3>2, <1>9 DEF CopyOK, WriteEntry
  <2>6. CASE Task.at = "child"
    <3>1. copy'.child = Entered /\ copy'.parent = copy.parent /\ At.ino = Chd
      BY <2>1, <2>6 DEF Typed, CopyType, At, Chd
    <3>2. View(Chd)' = Entered /\ View(Par)' = View(Par)
      BY <2>1, <2>2, <2>3, <2>4, <3>1 DEF View, Put, Typed, TypeInv
    <3> QED BY <2>2, <2>4, <3>1, <3>2, <1>9 DEF CopyOK, WriteEntry
  <2> QED BY <2>2, <2>5, <2>6
<1>10. CASE CountLink
  <2> DEFINE to == hdl[Task.to]
  <2>1. /\ pc = "count" /\ op.todo # <<>> /\ Task.do = "link" /\ pc' = "next"
        /\ hdl' = [hdl EXCEPT ![Task.to].links = Inc16(@)]
        /\ Put(to.ino, copy[Task.to], Inc16(to.links)) /\ copy' = copy
    BY <1>10 DEF CountLink, Doing, Proceed
  <2>2. /\ Task.to \in {"parent", "child"} /\ to.ino \in Inodes
        /\ copy.parent = View(Par) /\ copy.child = View(Chd) /\ copy[Task.to] = View(to.ino)
    BY <2>1, LinkAt, CopyIs DEF Par, Chd
  <2>3. kind' = kind /\ ents' = ents
    BY <2>1, <2>2, PutSame DEF Typed
  <2>4. Par' = Par /\ Chd' = Chd
    <3>1. hdl \in [parent : Handle, child : Handle]
      BY DEF Typed, TypeInv
    <3> HIDE DEF to
    <3> QED BY <2>1, <2>2, <3>1 DEF Handle, Par, Chd
  <2> QED BY <2>1, <2>2, <2>3, <2>4 DEF CopyOK, View
<1>11. CASE ReadAgain \/ NoSuchName \/ Hide \/ DropLink \/ ClearBit \/ WipeEntry
  <2>1. /\ pc \in {"next"} \cup Unlinking /\ op.todo # <<>> /\ Task.do # "link"
        /\ op'.cmd = op.cmd
    <3>1. CASE Hide
      BY <3>1 DEF Hide, Doing, Typed, TypeInv
    <3>2. CASE ReadAgain \/ NoSuchName \/ WipeEntry
      BY <3>2 DEF ReadAgain, NoSuchName, WipeEntry, Doing, Proceed, Unlinking, Typed, TypeInv
    <3>3. CASE DropLink \/ ClearBit
      BY <3>3 DEF DropLink, ClearBit, Doing, Unlinking
    <3> QED BY <1>11, <3>1, <3>2, <3>3
  <2> QED BY <2>1, RemoverIs, CopyVoid
<1>12. ~CrashFreeing
  BY DEF CrashFreeing
<1> QED BY <1>1, <1>2, <1>3, <1>4, <1>5, <1>6, <1>7, <1>8, <1>9, <1>10, <1>11, <1>12 DEF Next

(* Names go astray one at a time and for good.                              *)
LEMMA AstrayGrows ==
  ASSUME Typed, Typed', [Next]_vars
  PROVE  astray \in Nat /\ astray' \in Nat /\ (astray > 0 => astray' > 0)
<1>1. astray \in Nat /\ astray' \in Nat
  BY DEF Typed, MishapType
<1>2. astray' = astray \/ astray' = astray + 1
  <2>1. CASE UNCHANGED vars \/ Stopped
    BY <2>1 DEF Stopped, vars
  <2>2. CASE \E p \in Inodes, n \in Names : Mkdir(p, n)
    BY <2>2 DEF Mkdir, Enter
  <2>3. CASE \E n \in Names : Cp(n)
    BY <2>3 DEF Cp, Enter
  <2>4. CASE \E p \in Inodes, n \in Names : Rm(p, n) \/ Rmdir(p, n)
    BY <2>4 DEF Rm, Rmdir, Elsewhere
  <2>5. CASE Cd \/ MkdirNowhere \/ Restart \/ Mark \/ ReadAgain \/ NoSuchName
    BY <2>5 DEF Cd, MkdirNowhere, Restart, Mark, ReadAgain, NoSuchName, Elsewhere
  <2>6. CASE Hide \/ DropLink \/ ClearBit \/ WipeEntry
    <3>1. Elsewhere
      BY <2>6, Zenon DEF Hide, DropLink, ClearBit, WipeEntry
    <3> QED BY <3>1 DEF Elsewhere
  <2>7. CASE MarkFails \/ NewInode \/ Done \/ WriteEntry \/ CountLink \/ Crash \/ CrashFreeing
    BY <2>7 DEF MarkFails, NewInode, Done, WriteEntry, CountLink, Crash, CrashFreeing
  <2> QED BY <2>1, <2>2, <2>3, <2>4, <2>5, <2>6, <2>7 DEF Next
<1> QED BY <1>1, <1>2

(* What holds until the first name goes astray is kept by the plain steps.  *)
LEMMA Onward ==
  ASSUME Typed, Typed', [Next]_vars, astray > 0 \/ (Control /\ CopyOK), ~(astray' > 0)
  PROVE  Control /\ CopyOK /\ Control' /\ CopyOK' /\ [PlainNext]_PlainVars /\ ~(astray > 0)
<1>1. astray = 0 /\ astray' = 0 /\ Control /\ CopyOK
  BY AstrayGrows
<1>2. [PlainNext]_PlainVars
  BY <1>1, PlainStep
<1>3. Control'
  BY <1>1, <1>2, ControlStep
<1> QED BY <1>1, <1>2, <1>3, CopyStep

-----------------------------------------------------------------------------
(* The name that a part is giving to an inode.                              *)
Written == Entry(Task.name, hdl[Task.to].ino)

(* The entries as they would be if names and link counts changed together:  *)
(* a new name is there once it is counted, and one that is taken away goes  *)
(* when its link is dropped.                                                *)
Ents ==
  [d \in Inodes |->
     IF pc = "count" /\ d = At.ino THEN ents[d] \ {Written}
     ELSE IF pc = "drop" /\ d = At.ino THEN ents[d] \cup {op.e}
     ELSE IF pc \in {"clear", "wipe", "halted"} /\ d = At.ino THEN ents[d] \ {op.e}
     ELSE ents[d]]

Zero == {i \in Inodes : kind[i] = "none"}

(* The inodes that cannot have a link: they are free, or new and without a  *)
(* name.                                                                    *)
Unborn ==
  {i \in Inodes : \/ kind[i] = "none"
                  \/ /\ pc = "next" /\ op.todo # <<>> /\ Task.do = "link" /\ Task.at = "parent"
                     /\ i = Chd}

Drift == Drifted(Ents, links, Unborn, crashes + spilt)

(* An inode does not have 2^15 names.                                       *)
FewNames == \A i \in Inodes : 2 * Refs(i) < U16

LEMMA EntsPlain ==
  ASSUME pc \in {"rest", "mark", "inode", "next"}
  PROVE  \A d \in Inodes : Ents[d] = ents[d]
BY DEF Ents

LEMMA EntsElse ==
  /\ \A d \in Inodes : d # At.ino => Ents[d] = ents[d]
  /\ At.ino \in Inodes =>
       /\ pc = "count" => Ents[At.ino] = ents[At.ino] \ {Written}
       /\ pc = "drop" => Ents[At.ino] = ents[At.ino] \cup {op.e}
       /\ pc \in {"clear", "wipe", "halted"} => Ents[At.ino] = ents[At.ino] \ {op.e}
BY DEF Ents

LEMMA EntsFinite ==
  ASSUME TypeInv
  PROVE  Finite(Ents)
<1> SUFFICES ASSUME NEW d \in Inodes
             PROVE  IsFiniteSet(Ents[d])
  BY DEF Finite
<1>1. IsFiniteSet(ents[d])
  BY DEF TypeInv, Finite
<1>2. IsFiniteSet(ents[d] \cup {op.e})
  BY <1>1, FS_AddElement
<1>3. ents[d] \ {Written} \subseteq ents[d] /\ ents[d] \ {op.e} \subseteq ents[d]
  OBVIOUS
<1>4. IsFiniteSet(ents[d] \ {Written}) /\ IsFiniteSet(ents[d] \ {op.e})
  BY <1>1, <1>3, FS_Subset
<1> QED BY <1>1, <1>2, <1>4 DEF Ents

LEMMA BudgetType == TypeInv => crashes + spilt \in Int /\ \A i \in Inodes : links[i] \in Int
BY Width DEF TypeInv

LEMMA ZeroUnborn == Zero \subseteq Unborn /\ Unborn \subseteq Inodes
BY DEF Zero, Unborn

(* Commands that take names away, and all parts but the first of one that   *)
(* gives some, have no inode without a name.                                *)
LEMMA NoneUnborn ==
  ASSUME Control,
         pc # "next" \/ op.todo = <<>> \/ op.cmd \in {"rm", "rmdir"} \/ Task.at = "child"
  PROVE  Unborn = Zero
<1>1. pc = "next" /\ op.todo # <<>> /\ Task.do = "link" => op.cmd \in {"mkdir", "cp"}
  BY DEF Control, LinkOK
<1> QED BY <1>1 DEF Unborn, Zero

LEMMA DriftKeep ==
  ASSUME Drift, \A d \in Inodes : Ents'[d] = Ents[d] /\ links'[d] = links[d],
         Unborn' \subseteq Unborn, crashes' = crashes, spilt' = spilt
  PROVE  Drift'
BY DriftSame DEF Drift

LEMMA DriftInit == Init => Drift
<1> SUFFICES ASSUME Init PROVE Drift
  OBVIOUS
<1>1. Control
  BY ControlInit
<1> DEFINE dr == [i \in Inodes |-> 0]
<1>2. dr \in [Inodes -> Int]
  OBVIOUS
<1>3. \A d \in Inodes : Ents[d] = ents[d]
  BY EntsPlain DEF Init
<1>4. /\ ents[Root] = {Entry(Dot, Root), Entry(DotDot, Root)}
      /\ \A d \in Inodes \ {Root} : ents[d] = {}
  <2>1. {Entry(n, Root) : n \in Dots} = {Entry(Dot, Root), Entry(DotDot, Root)}
    BY DEF Dots
  <2> QED BY <2>1, Width DEF Init
<1>5. /\ Entry(Dot, Root) # Entry(DotDot, Root)
      /\ Entry(Dot, Root).ino = Root /\ Entry(DotDot, Root).ino = Root
  <2>1. Entry(Dot, Root).name = Dot /\ Entry(DotDot, Root).name = DotDot
    BY DEF Entry
  <2>2. Entry(Dot, Root).ino = Root /\ Entry(DotDot, Root).ino = Root
    BY DEF Entry
  <2> QED BY <2>1, <2>2, NamespaceAssumption
<1>6. Count(Ents, Root) = 2
  <2>1. Named(Ents, Root) = {<<Root, Entry(Dot, Root)>>} \cup {<<Root, Entry(DotDot, Root)>>}
    <3>1. \A de : de \in Named(Ents, Root)
                    <=> de \in {<<Root, Entry(Dot, Root)>>} \cup {<<Root, Entry(DotDot, Root)>>}
      <4>1. ASSUME NEW d \in Inodes, NEW e \in Ents[d]
            PROVE  d = Root /\ e \in {Entry(Dot, Root), Entry(DotDot, Root)}
        BY <1>3, <1>4
      <4>2. Root \in Inodes /\ Entry(Dot, Root) \in Ents[Root] /\ Entry(DotDot, Root) \in Ents[Root]
        BY <1>3, <1>4, Width
      <4>3. ASSUME NEW de, de \in Named(Ents, Root)
            PROVE  de \in {<<Root, Entry(Dot, Root)>>} \cup {<<Root, Entry(DotDot, Root)>>}
        <5>1. PICK d \in Inodes : \E e \in Ents[d] : de = <<d, e>> /\ e.ino = Root
          BY <4>3, NamedMember
        <5> QED BY <4>1, <5>1
      <4>4. /\ <<Root, Entry(Dot, Root)>> \in Named(Ents, Root)
            /\ <<Root, Entry(DotDot, Root)>> \in Named(Ents, Root)
        BY <1>5, <4>2, NamedMember
      <4> QED BY <4>3, <4>4
    <3> QED BY <3>1, Zenon
  <2>2. <<Root, Entry(DotDot, Root)>> \notin {<<Root, Entry(Dot, Root)>>}
    BY <1>5
  <2>3. IsFiniteSet({<<Root, Entry(Dot, Root)>>}) /\ Cardinality({<<Root, Entry(Dot, Root)>>}) = 1
    BY FS_Singleton
  <2>4. Cardinality({<<Root, Entry(Dot, Root)>>} \cup {<<Root, Entry(DotDot, Root)>>}) = 1 + 1
    BY <2>2, <2>3, FS_AddElement
  <2> QED BY <2>1, <2>4 DEF Count
<1>7. ASSUME NEW i \in Inodes, i # Root
      PROVE  Count(Ents, i) = 0
  <2>1. Named(Ents, i) = {}
    <3>1. ASSUME NEW de, de \in Named(Ents, i)
          PROVE  FALSE
      <4>1. PICK d \in Inodes : \E e \in Ents[d] : de = <<d, e>> /\ e.ino = i
        BY <3>1, NamedMember
      <4> QED BY <1>3, <1>4, <1>5, <1>7, <4>1
    <3> QED BY <3>1
  <2> QED BY <2>1, FS_EmptySet DEF Count
<1>8. \A i \in Inodes : links[i] = Count(Ents, i) /\ Count(Ents, i) + dr[i] = Count(Ents, i)
  BY <1>6, <1>7 DEF Init
<1>9. \A i \in Inodes : links[i] - Count(Ents, i) = 0
  BY <1>6, <1>7, <1>8
<1>10. \A i \in Inodes : Same16(links[i], Count(Ents, i) + dr[i])
  BY <1>8, <1>9, WrapsClosed DEF Same16
<1>11. \A i \in Unborn : dr[i] <= 0 - Count(Ents, i)
  <2>1. \A i \in Unborn : i \in Inodes /\ i # Root
    BY DEF Unborn, Init
  <2> QED BY <1>7, <2>1
<1>12. Size(dr) = 0
  <2>1. Cells([i \in Inodes |-> Abs(dr[i])]) = {}
    <3>1. \A i \in Inodes : Abs(dr[i]) = 0
      BY DEF Abs
    <3>2. [i \in Inodes |-> Abs(dr[i])] \in [Inodes -> Nat]
      BY <3>1
    <3>3. \A c \in Cells([i \in Inodes |-> Abs(dr[i])]) : c[1] \in Inodes /\ c[2] \in 1 .. 0
      BY <3>1, <3>2, CellsAt
    <3> QED BY <3>3
  <2> QED BY <2>1, FS_EmptySet DEF Size
<1>13. crashes + spilt = 0
  BY DEF Init
<1> HIDE DEF dr
<1> QED BY <1>2, <1>10, <1>11, <1>12, <1>13 DEF Drift, Drifted, DriftBy

LEMMA DriftPlain ==
  ASSUME Control, Drift, UNCHANGED <<ents, links, kind>>, crashes' = crashes, spilt' = spilt,
         pc \in {"rest", "mark", "inode", "next"}, pc' \in {"rest", "mark", "inode", "next"},
         pc' = "next" => op'.cmd \in {"rm", "rmdir"} \/ op'.todo = <<>>, Control'
  PROVE  Drift'
<1>1. \A d \in Inodes : Ents[d] = ents[d]
  BY EntsPlain
<1>2. \A d \in Inodes : Ents'[d] = ents'[d]
  BY DEF Ents
<1>3. pc' = "next" /\ op'.todo # <<>> /\ Task'.do = "link" => op'.cmd \in {"mkdir", "cp"}
  BY DEF Control, LinkOK
<1>4. Unborn' = Zero'
  BY <1>3 DEF Unborn, Zero
<1>5. Zero' = Zero
  BY DEF Zero
<1> QED BY <1>1, <1>2, <1>4, <1>5, ZeroUnborn, DriftKeep

LEMMA DriftNewInode == Control /\ Drift /\ PlainNewInode /\ Control' => Drift'
<1> SUFFICES ASSUME Control, Drift, PlainNewInode, Control' PROVE Drift'
  OBVIOUS
<1> DEFINE n == hdl.child.ino
<1>1. n \in marked /\ kind[n] = "none" /\ n \in Inodes
  BY DEF PlainNewInode, Control, StartOK, TypeInv, Chd
<1>2. /\ kind' = [kind EXCEPT ![n] = IF op.cmd = "cp" THEN "file" ELSE "dir"]
      /\ links' = [links EXCEPT ![n] = 0] /\ ents' = [ents EXCEPT ![n] = {}]
      /\ pc = "inode" /\ pc' = "next" /\ UNCHANGED <<hdl, op, spilt, crashes>>
  BY DEF PlainNewInode
<1>3. \A d \in Inodes : Ents[d] = ents[d]
  BY <1>2, EntsPlain
<1>4. \A d \in Inodes : Ents'[d] = ents'[d]
  BY <1>2 DEF Ents
<1>5. ents[n] = {}
  BY <1>1 DEF Control, DiskOK
<1>6. \A d \in Inodes : Ents'[d] = Ents[d]
  <2>1. \A d \in Inodes : ents'[d] = ents[d]
    BY <1>1, <1>2, <1>5 DEF Control, TypeInv
  <2> QED BY <1>3, <1>4, <2>1
<1>7. n \in Unborn /\ Unborn \subseteq Inodes
  BY <1>1 DEF Unborn
<1>8. \A i \in Inodes : links[i] \in Int /\ links'[i] = IF i = n THEN 0 ELSE links[i]
  BY <1>1, <1>2, BudgetType DEF Control, TypeInv
<1>9. Finite(Ents) /\ crashes + spilt \in Int
  BY EntsFinite, BudgetType DEF Control
<1>10. Drifted(Ents, links', Unborn, crashes + spilt)
  BY <1>7, <1>8, <1>9, DriftReset DEF Drift
<1>11. Unborn' \subseteq Unborn
  <2>1. ASSUME NEW i \in Unborn' PROVE i \in Unborn
    <3>1. i \in Inodes /\ (kind'[i] = "none" \/ i = n)
      BY <1>2 DEF Unborn, Chd
    <3>2. i # n => kind'[i] = kind[i]
      BY <1>1, <1>2, <3>1 DEF Control, TypeInv
    <3> QED BY <1>7, <3>1, <3>2 DEF Unborn
  <2> QED BY <2>1
<1> QED BY <1>2, <1>6, <1>10, <1>11, DriftSame DEF Drift

LEMMA DriftWriteEntry == Control /\ Drift /\ PlainWriteEntry => Drift'
<1> SUFFICES ASSUME Control, Drift, PlainWriteEntry PROVE Drift'
  OBVIOUS
<1> DEFINE e == Written
           d == At.ino
<1>1. /\ pc = "next" /\ op.todo # <<>> /\ Task.do = "link" /\ pc' = "count"
      /\ ents' = [ents EXCEPT ![d] = @ \cup {e}] /\ links' = [links EXCEPT ![d] = At.links]
      /\ UNCHANGED <<kind, hdl, op, ghost, crashes>>
  BY DEF PlainWriteEntry, Doing, Written
<1>2. d \in Inodes /\ At.links = links[d]
  BY <1>1, LinkAt
<1>3. links' = links /\ spilt' = spilt /\ crashes' = crashes
  BY <1>1, <1>2 DEF Control, TypeInv, ghost
<1>4. Task' = Task /\ At' = At /\ Written' = Written
  BY <1>1 DEF Task, At, Written
<1>5. ents'[d] = ents[d] \cup {e} /\ \A c \in Inodes \ {d} : ents'[c] = ents[c]
  BY <1>1, <1>2 DEF Control, TypeInv
<1>6. \A c \in Inodes : Ents[c] = ents[c]
  BY <1>1, EntsPlain
<1>7. Ents'[d] = ents'[d] \ {e} /\ \A c \in Inodes \ {d} : Ents'[c] = ents'[c]
  BY <1>1, <1>2, <1>4 DEF Ents
<1>8. Unborn' = Zero /\ Zero \subseteq Unborn /\ Unborn \subseteq Inodes
  BY <1>1, ZeroUnborn DEF Unborn, Zero
<1>9. CASE e \notin ents[d]
  BY <1>3, <1>5, <1>6, <1>7, <1>8, <1>9, DriftKeep
<1>10. CASE e \in ents[d]
  <2>1. Gains(Ents', Ents, d, e)
    BY <1>2, <1>5, <1>6, <1>7, <1>10 DEF Gains
  <2>2. e.ino \in Unborn
    <3>1. e.ino = hdl[Task.to].ino
      BY DEF Written, Entry
    <3>2. CASE \E n \in Names : op.todo \in {MkdirTodo(n), CpTodo(n)}
      <4>1. Task.at = "parent" /\ Task.to = "child"
        BY <3>2, Shapes
      <4>2. e.ino = Chd /\ Chd \in Inodes
        BY <1>1, <3>1, <4>1, LinkAt DEF Chd
      <4> QED BY <1>1, <4>1, <4>2 DEF Unborn
    <3>3. CASE op.todo = Mkdir2 /\ ents[Chd] = {}
      <4>1. Task.at = "child"
        BY <3>3, DotShapes
      <4> QED BY <1>10, <3>3, <4>1 DEF At, Chd
    <3>4. CASE op.todo = Mkdir3 /\ ents[Chd] = {Entry(Dot, Chd)}
      <4>1. Task.at = "child" /\ Task.name = DotDot
        BY <3>4, DotShapes
      <4>2. Entry(DotDot, hdl[Task.to].ino) = Entry(Dot, Chd)
        BY <1>10, <3>4, <4>1 DEF At, Chd, Written
      <4>3. Entry(DotDot, hdl[Task.to].ino).name = DotDot /\ Entry(Dot, Chd).name = Dot
        BY DEF Entry
      <4> QED BY <4>2, <4>3, NamespaceAssumption
    <3> QED BY <1>1, <3>2, <3>3, <3>4 DEF Control, LinkOK
  <2>3. Finite(Ents) /\ crashes + spilt \in Int /\ \A i \in Inodes : links[i] \in Int
    BY EntsFinite, BudgetType DEF Control
  <2>4. Drifted(Ents', links, Unborn, crashes + spilt)
    BY <1>8, <2>1, <2>2, <2>3, DriftTaken DEF Drift
  <2> QED BY <1>3, <1>8, <2>4, DriftSame DEF Drift
<1> QED BY <1>9, <1>10

(* A name that is counted has been written.                                 *)
LEMMA CountGains == Control /\ PlainCountLink => Gains(Ents, Ents', At.ino, Written)
<1> SUFFICES ASSUME Control, PlainCountLink PROVE Gains(Ents, Ents', At.ino, Written)
  OBVIOUS
<1>1. pc = "count" /\ op.todo # <<>> /\ Task.do = "link" /\ Proceed /\ ents' = ents
  BY DEF PlainCountLink, Doing
<1>2. At.ino \in Inodes
  BY <1>1, LinkAt
<1>3. Written \in ents[At.ino]
  <2>1. CASE \E n \in Names : op.todo \in {MkdirTodo(n), CpTodo(n)} /\ Entry(n, Chd) \in ents[Par]
    <3>1. PICK n \in Names : op.todo \in {MkdirTodo(n), CpTodo(n)} /\ Entry(n, Chd) \in ents[Par]
      BY <2>1
    <3>2. Task.at = "parent" /\ Task.to = "child" /\ Task.name = n
      BY <3>1, Shapes
    <3> QED BY <3>1, <3>2 DEF At, Par, Chd, Written
  <2>2. CASE op.todo = Mkdir2 /\ ents[Chd] = {Entry(Dot, Chd)}
    <3>1. Task.at = "child" /\ Task.to = "child" /\ Task.name = Dot
      BY <2>2, DotShapes
    <3> QED BY <2>2, <3>1 DEF At, Chd, Written
  <2>3. CASE op.todo = Mkdir3 /\ ents[Chd] = {Entry(Dot, Chd)} \cup {Entry(DotDot, Par)}
    <3>1. Task.at = "child" /\ Task.to = "parent" /\ Task.name = DotDot
      BY <2>3, DotShapes
    <3> QED BY <2>3, <3>1 DEF At, Par, Chd, Written
  <2> QED BY <1>1, <2>1, <2>2, <2>3 DEF Control, LinkOK
<1>4. Ents[At.ino] = ents[At.ino] \ {Written} /\ \A c \in Inodes \ {At.ino} : Ents[c] = ents[c]
  BY <1>1, <1>2, EntsElse
<1>5. pc' = "next"
  BY <1>1, Proceeds DEF Control
<1>6. \A c \in Inodes : Ents'[c] = ents[c]
  BY <1>1, <1>5 DEF Ents
<1> QED BY <1>2, <1>3, <1>4, <1>6 DEF Gains

LEMMA DriftCountLink == Control /\ Drift /\ PlainCountLink /\ Control' => Drift'
<1> SUFFICES ASSUME Control, Drift, PlainCountLink, Control' PROVE Drift'
  OBVIOUS
<1> DEFINE e == Written
           d == At.ino
<1>1. /\ pc = "count" /\ op.todo # <<>> /\ Task.do = "link" /\ Proceed
      /\ links' = [links EXCEPT ![e.ino] = Inc16(hdl[Task.to].links)]
      /\ UNCHANGED <<kind, ents, ghost, crashes>>
  BY DEF PlainCountLink, Doing, Written, Entry
<1>2. /\ d \in Inodes /\ e.ino \in Inodes /\ hdl[Task.to].links = links[e.ino]
      /\ kind[e.ino] # "none"
  BY <1>1, LinkAt DEF Written, Entry
<1>3. \A i \in Inodes : /\ links[i] \in Int
                        /\ links'[i] = IF i = e.ino THEN Inc16(links[i]) ELSE links[i]
  BY <1>1, <1>2, BudgetType DEF Control, TypeInv
<1>4. pc' = "next" /\ op'.todo = Tail(op.todo)
  BY <1>1, Proceeds DEF Control
<1>5. Gains(Ents, Ents', d, e)
  BY CountGains
<1>6. Unborn = Zero /\ Unborn \subseteq Inodes /\ e.ino \notin Unborn
  BY <1>1, <1>2, NoneUnborn DEF Zero
<1>7. Finite(Ents)
  BY EntsFinite DEF Control
<1>8. Drifted(Ents', links', Unborn, crashes + spilt)
  BY <1>3, <1>5, <1>6, <1>7, DriftCount DEF Drift
<1>9. Unborn' = Zero
  <2>1. op.todo \in {Mkdir2, Mkdir3} \/ \E n \in Names : op.todo \in {MkdirTodo(n), CpTodo(n)}
    BY <1>1 DEF Control, LinkOK
  <2>2. op'.todo \in {<<>>, Mkdir2, Mkdir3}
    BY <1>4, <2>1, Shapes, DotShapes
  <2>3. op'.todo = <<>> \/ Task'.at = "child"
    <3>1. Head(Mkdir2).at = "child" /\ Head(Mkdir3).at = "child"
      BY TaskIs DEF Mkdir2, Mkdir3
    <3> QED BY <2>2, <3>1 DEF Task
  <2> QED BY <1>1, <2>3 DEF Unborn, Zero
<1> QED BY <1>1, <1>6, <1>8, <1>9 DEF Drift, ghost

LEMMA RemoveCmd ==
  ASSUME Control, pc \in {"next"} \cup Unlinking, op.todo # <<>>, Task.do # "link"
  PROVE  op.cmd \in {"rm", "rmdir"}
BY RemoveAt DEF Removing

LEMMA DriftHide == Control /\ Drift /\ Hide /\ Control' => Drift'
<1> SUFFICES ASSUME Control, Drift, Hide, Control' PROVE Drift'
  OBVIOUS
<1>1. /\ pc = "next" /\ op.todo # <<>> /\ Task.do = "unlink" /\ pc' = "drop"
      /\ links' = [links EXCEPT ![At.ino] = At.links]
      /\ UNCHANGED <<kind, hdl, ghost, crashes>>
  BY DEF Hide, Doing
<1>2. At.ino \in Inodes /\ At.links = links[At.ino]
  BY <1>1, RemoveAt DEF Control, RemoveOK
<1>3. links' = links
  BY <1>1, <1>2 DEF Control, TypeInv
<1>4. PICK e \in ents[At.ino] : \E late \in BOOLEAN :
        /\ op' = [op EXCEPT !.e = e, !.late = late]
        /\ ents' = IF late THEN ents ELSE [ents EXCEPT ![At.ino] = @ \ {e}]
  BY DEF Hide
<1>5. PICK late \in BOOLEAN :
        /\ op' = [op EXCEPT !.e = e, !.late = late]
        /\ ents' = IF late THEN ents ELSE [ents EXCEPT ![At.ino] = @ \ {e}]
  BY <1>4
<1>6. op'.e = e /\ op'.todo = op.todo
  BY <1>5 DEF Control, TypeInv
<1>7. At' = At
  BY <1>1, <1>6 DEF At, Task
<1>8. \A c \in Inodes : Ents[c] = ents[c]
  BY <1>1, EntsPlain
<1>9. Ents'[At.ino] = ents'[At.ino] \cup {e} /\ \A c \in Inodes \ {At.ino} : Ents'[c] = ents'[c]
  BY <1>1, <1>2, <1>6, <1>7 DEF Ents
<1>10. ents'[At.ino] \cup {e} = ents[At.ino] /\ \A c \in Inodes \ {At.ino} : ents'[c] = ents[c]
  BY <1>2, <1>4, <1>5 DEF Control, TypeInv
<1>11. Unborn' = Zero /\ Zero \subseteq Unborn
  BY <1>1, ZeroUnborn DEF Unborn, Zero
<1> QED BY <1>1, <1>3, <1>8, <1>9, <1>10, <1>11, DriftKeep DEF ghost

LEMMA DriftClearBit == Control /\ Drift /\ ClearBit => Drift'
<1> SUFFICES ASSUME Control, Drift, ClearBit PROVE Drift'
  OBVIOUS
<1>1. /\ pc = "clear" /\ pc' \in {"wipe", "halted"} /\ op.todo # <<>> /\ Task.do = "unlink"
      /\ UNCHANGED <<kind, links, ents, pwd, hdl, op, ghost, crashes>>
  BY DEF ClearBit, Doing
<1>2. At' = At
  BY <1>1 DEF At, Task
<1>3. \A d \in Inodes : Ents'[d] = Ents[d]
  BY <1>1, <1>2 DEF Ents
<1>4. Unborn' = Zero /\ Zero \subseteq Unborn
  BY <1>1, ZeroUnborn DEF Unborn, Zero
<1> QED BY <1>1, <1>3, <1>4, DriftKeep DEF ghost

LEMMA DriftWipeEntry == Control /\ Drift /\ WipeEntry /\ Control' => Drift'
<1> SUFFICES ASSUME Control, Drift, WipeEntry, Control' PROVE Drift'
  OBVIOUS
<1>1. /\ pc = "wipe" /\ op.todo # <<>> /\ Task.do = "unlink" /\ Proceed
      /\ links' = [links EXCEPT ![At.ino] = Read(At.ino).links]
      /\ ents' = [ents EXCEPT ![At.ino] = @ \ {op.e}]
      /\ UNCHANGED <<kind, spilt, crashes>>
  BY DEF WipeEntry, Doing, ReadBack
<1>2. At.ino \in Inodes
  BY <1>1, RemoveAt DEF Unlinking
<1>3. links' = links
  BY <1>1, <1>2, ReadType DEF Control, TypeInv
<1>4. pc' = "next" /\ op'.cmd \in {"rm", "rmdir"}
  BY <1>1, Proceeds, RemoveCmd DEF Control, Unlinking
<1>5. \A d \in Inodes : Ents'[d] = ents'[d]
  BY <1>4 DEF Ents
<1>6. Ents[At.ino] = ents[At.ino] \ {op.e} /\ \A c \in Inodes \ {At.ino} : Ents[c] = ents[c]
  BY <1>1, <1>2, EntsElse
<1>7. ents'[At.ino] = ents[At.ino] \ {op.e} /\ \A c \in Inodes \ {At.ino} : ents'[c] = ents[c]
  BY <1>1, <1>2 DEF Control, TypeInv
<1>8. \A d \in Inodes : Ents'[d] = Ents[d]
  BY <1>5, <1>6, <1>7
<1>9. Unborn' \subseteq Unborn
  <2>1. op'.todo # <<>> /\ Task'.do = "link" => op'.cmd \in {"mkdir", "cp"}
    BY <1>4 DEF Control, LinkOK
  <2>2. Unborn' = Zero'
    BY <1>4, <2>1 DEF Unborn, Zero
  <2>3. Zero' = Zero
    BY <1>1 DEF Zero
  <2> QED BY <2>2, <2>3, ZeroUnborn
<1> QED BY <1>1, <1>3, <1>8, <1>9, DriftKeep

(* Only directories have entries, so that all of them count.                *)
LEMMA NamingAll ==
  ASSUME Control
  PROVE  \A i : Naming(i) = Named(ents, i) /\ Refs(i) = Count(ents, i)
<1>1. ASSUME NEW i
      PROVE  Naming(i) = Named(ents, i)
  <2>1. \A de, d : d \in Inodes /\ de \in {d} \X ents[d] => d \in Dirs
    BY DEF Control, DiskOK, Dirs
  <2>2. Dirs \subseteq Inodes
    BY DEF Dirs
  <2>3. \A de : de \in UNION {{d} \X ents[d] : d \in Dirs}
                 <=> de \in UNION {{d} \X ents[d] : d \in Inodes}
    BY <2>1, <2>2
  <2> QED BY <2>3 DEF Naming, Named
<1> QED BY <1>1 DEF Refs, Count

LEMMA FewLess ==
  ASSUME NEW E, NEW F, Finite(F), \A d \in Inodes : E[d] \subseteq F[d], NEW i,
         2 * Count(F, i) < U16
  PROVE  2 * Count(E, i) < U16
<1>1. Finite(E)
  BY FS_Subset DEF Finite
<1>2. Count(E, i) <= Count(F, i) /\ Count(E, i) \in Nat /\ Count(F, i) \in Nat
  BY <1>1, CountLess, NamedFinite
<1>3. \A a, b, w \in Nat : a <= b /\ 2 * b < w => 2 * a < w
  BY SMT
<1> QED BY <1>2, <1>3, Width

LEMMA NamingAllNext ==
  Control' => \A i : Naming(i)' = Named(ents', i) /\ Refs(i)' = Count(ents', i)
<1> SUFFICES ASSUME Control', NEW i
             PROVE  Naming(i)' = Named(ents', i) /\ Refs(i)' = Count(ents', i)
  OBVIOUS
<1>1. Naming(i)' = Named(ents', i)
  <2>1. \A de, d : d \in Inodes /\ de \in {d} \X ents'[d] => d \in Dirs'
    BY DEF Control, DiskOK, Dirs
  <2>2. Dirs' \subseteq Inodes
    BY DEF Dirs
  <2>3. \A de : de \in UNION {{d} \X ents'[d] : d \in Dirs'}
                 <=> de \in UNION {{d} \X ents'[d] : d \in Inodes}
    BY <2>1, <2>2
  <2> QED BY <2>3 DEF Naming, Named
<1> QED BY <1>1 DEF Refs, Count

(* The entries without the name whose link is dropped.                      *)
Dropped == [c \in Inodes |-> IF c = At.ino THEN ents[c] \ {op.e} ELSE ents[c]]

LEMMA DropLoses ==
  ASSUME Control, Drift, DropLink
  PROVE  /\ op.e.ino \in Inodes /\ At.ino \in Inodes
         /\ Gains(Dropped, Ents, At.ino, op.e) /\ Finite(Dropped)
         /\ Drifted(Dropped, links', Zero, crashes + spilt)
         /\ \A c \in Inodes : Ents'[c] = IF c = At.ino THEN ents'[c] \ {op.e} ELSE ents'[c]
<1> DEFINE e == op.e
           d == At.ino
<1>1. /\ pc = "drop" /\ op.todo # <<>> /\ Task.do = "unlink" /\ pc' \in {"clear", "wipe"}
      /\ links' = [links EXCEPT ![e.ino] = LinksLeft(e.ino)]
      /\ UNCHANGED <<hdl, op>>
  BY DEF DropLink, Doing
<1>2. e.ino \in Inodes /\ d \in Inodes
  BY <1>1, RemoveAt DEF Control, UnlinkOK, Unlinking, DirEntry
<1>3. \A c \in Inodes :
         /\ links[c] \in Int
         /\ links'[c] = IF c = e.ino THEN (links[c] + U16 - 1) % U16 ELSE links[c]
  BY <1>1, <1>2, BudgetType DEF Control, TypeInv, LinksLeft
<1>4. Ents[d] = ents[d] \cup {e} /\ \A c \in Inodes \ {d} : Ents[c] = ents[c]
  BY <1>1, <1>2, EntsElse
<1>5. Gains(Dropped, Ents, d, e)
  BY <1>2, <1>4 DEF Gains, Dropped
<1>6. Finite(Ents)
  BY EntsFinite DEF Control
<1>7. Unborn = Zero /\ Unborn \subseteq Inodes
  BY <1>1, NoneUnborn DEF Zero
<1>8. At' = At /\ op' = op
  BY <1>1 DEF At, Task
<1>9. \A c \in Inodes : Ents'[c] = IF c = d THEN ents'[c] \ {e} ELSE ents'[c]
  BY <1>1, <1>8 DEF Ents
<1> HIDE DEF e, d
<1>10. Finite(Dropped)
  BY <1>5, <1>6, CountLose
<1>11. Drifted(Dropped, links', Zero, crashes + spilt)
  BY <1>3, <1>5, <1>6, <1>7, DriftDrop DEF Drift
<1> QED BY <1>2, <1>5, <1>9, <1>10, <1>11 DEF e, d

LEMMA DriftDropLink == Control /\ Drift /\ DropLink /\ Control' /\ FewNames' => Drift'
<1> SUFFICES ASSUME Control, Drift, DropLink, Control', FewNames' PROVE Drift'
  OBVIOUS
<1> DEFINE e == op.e
           i == op.e.ino
           d == At.ino
           k == crashes + spilt
<1>1. /\ pc = "drop" /\ op.todo # <<>> /\ Task.do = "unlink"
      /\ links' = [links EXCEPT ![i] = LinksLeft(i)]
      /\ IF LinksLeft(i) = 0
         THEN /\ kind' = [kind EXCEPT ![i] = "none"]
              /\ ents' = [ents EXCEPT ![i] = {}]
              /\ spilt' = spilt + Cardinality(ents[i])
              /\ pc' = "clear"
         ELSE pc' = "wipe" /\ UNCHANGED <<kind, ents, spilt>>
      /\ UNCHANGED <<hdl, op, crashes>>
  BY DEF DropLink, Doing
<1>2. i \in Inodes /\ d \in Inodes
  BY DropLoses
<1>3. k \in Int /\ \A c \in Inodes : links'[c] \in Int
  BY BudgetType, Width DEF Control, TypeInv
<1>4. Drifted(Dropped, links', Zero, k) /\ Finite(Dropped)
  BY DropLoses
<1>5. \A c \in Inodes : Ents'[c] = IF c = d THEN ents'[c] \ {e} ELSE ents'[c]
  BY DropLoses
<1>6. \A c \in Inodes : Dropped[c] = IF c = d THEN ents[c] \ {e} ELSE ents[c]
  BY DEF Dropped
<1>7. CASE LinksLeft(i) # 0
  <2>1. \A c \in Inodes : Ents'[c] = Dropped[c]
    BY <1>1, <1>5, <1>6, <1>7
  <2>2. Unborn' = Zero /\ crashes' + spilt' = k
    BY <1>1, <1>7 DEF Unborn, Zero
  <2> HIDE DEF k
  <2> QED BY <1>4, <2>1, <2>2, DriftSame DEF Drift
<1>8. CASE LinksLeft(i) = 0
  <2>1. ents'[i] = {} /\ \A c \in Inodes \ {i} : ents'[c] = ents[c]
    BY <1>1, <1>2, <1>8 DEF Control, TypeInv
  <2>2. Ents'[i] = {} /\ \A c \in Inodes \ {i} : Ents'[c] = Dropped[c]
    BY <1>2, <1>5, <1>6, <2>1
  <2>3. links'[i] = 0
    BY <1>1, <1>2, <1>8 DEF Control, TypeInv
  <2>4. 2 * Count(Ents', i) < U16
    <3>1. 2 * Count(ents', i) < U16
      <4> HIDE DEF i
      <4> QED BY <1>2, NamingAllNext DEF FewNames
    <3>2. \A c \in Inodes : Ents'[c] \subseteq ents'[c]
      BY <1>5
    <3>3. Finite(ents')
      BY DEF Control, TypeInv
    <3> HIDE DEF i
    <3> QED BY <3>1, <3>2, <3>3, FewLess
  <2>5. Drifted(Ents', links', Zero \cup {i}, k + Cardinality(Dropped[i]))
    <3> HIDE DEF i, k
    <3>1. Zero \subseteq Inodes
      BY DEF Zero
    <3> QED BY <1>2, <1>3, <1>4, <2>2, <2>3, <2>4, <3>1, DriftFree
  <2>6. /\ Cardinality(Dropped[i]) <= Cardinality(ents[i])
        /\ Cardinality(Dropped[i]) \in Nat /\ Cardinality(ents[i]) \in Nat
    <3>1. Dropped[i] \subseteq ents[i] /\ IsFiniteSet(ents[i])
      BY <1>2, <1>6 DEF Control, TypeInv, Finite
    <3> QED BY <3>1, FS_Subset, FS_CardinalityType
  <2>7. k + Cardinality(Dropped[i]) <= crashes' + spilt' /\ k + Cardinality(Dropped[i]) \in Int
        /\ crashes' + spilt' \in Int
    <3>1. crashes' = crashes /\ spilt' = spilt + Cardinality(ents[i]) /\ crashes \in Nat /\ spilt \in Nat
      BY <1>1, <1>8 DEF Control, TypeInv
    <3> HIDE DEF i
    <3> QED BY <2>6, <3>1
  <2>8. Drifted(Ents', links', Zero \cup {i}, crashes' + spilt')
    <3> HIDE DEF i, k
    <3> QED BY <2>5, <2>7, DriftLess
  <2>9. Unborn' \subseteq Zero \cup {i}
    <3>1. Unborn' = {c \in Inodes : kind'[c] = "none"}
      BY <1>1, <1>8 DEF Unborn
    <3>2. \A c \in Inodes : c # i => kind'[c] = kind[c]
      BY <1>1, <1>2, <1>8 DEF Control, TypeInv
    <3> QED BY <3>1, <3>2 DEF Zero
  <2> QED BY <2>8, <2>9, DriftSame DEF Drift
<1> QED BY <1>7, <1>8

LEMMA DriftCrash == Control /\ Drift /\ PlainCrash => Drift'
<1> SUFFICES ASSUME Control, Drift, PlainCrash PROVE Drift'
  OBVIOUS
<1> DEFINE d == At.ino
           k == crashes + spilt
<1>1. /\ pc \in {"mark", "inode", "next", "count", "drop", "clear", "wipe", "halted"}
      /\ crashes' = crashes + 1 /\ pc' = "rest"
      /\ UNCHANGED <<kind, links, spilt>>
  BY DEF PlainCrash, Control, TypeInv
<1>2. \A c \in Inodes : Ents'[c] = ents'[c]
  BY <1>1 DEF Ents
<1>3. Unborn' = Zero /\ Zero \subseteq Unborn /\ Unborn \subseteq Inodes
  BY <1>1, ZeroUnborn DEF Unborn, Zero
<1>4. Finite(Ents) /\ k \in Int /\ k + 1 \in Int /\ k <= k + 1 /\ crashes' + spilt' = k + 1
  BY <1>1, EntsFinite, BudgetType, Width DEF Control, TypeInv
<1>5. \A c \in Inodes : links[c] \in Int
  BY BudgetType DEF Control
<1>6. Drifted(Ents, links, Unborn, k)
  BY DEF Drift
<1>7. Drifted(Ents, links, Unborn, k + 1)
  <2> HIDE DEF k
  <2> QED BY <1>4, <1>6, DriftLess
<1> HIDE DEF k
<1>8. \A x : Gains(Ents, ents', d, x) => Drifted(ents', links, Unborn, k + 1)
  BY <1>3, <1>4, <1>5, <1>6, DriftCrashGain
<1>9. \A x : Gains(ents', Ents, d, x) => Drifted(ents', links, Unborn, k + 1)
  BY <1>3, <1>4, <1>5, <1>6, DriftCrashLose
<1>10. (\A c \in Inodes : ents'[c] = Ents[c]) => Drifted(ents', links, Unborn, k + 1)
  BY <1>7, DriftSame
<1>11. Drifted(ents', links, Unborn, k + 1)
  <2>1. CASE UNCHANGED ents /\ pc \in {"mark", "inode", "next"}
    BY <1>10, <2>1, EntsPlain
  <2>2. CASE /\ Doing("next", "link")
             /\ ents' = [ents EXCEPT ![At.ino] = @ \cup {Entry(NoName, hdl[Task.to].ino)}]
    <3> DEFINE x == Entry(NoName, hdl[Task.to].ino)
    <3>1. d \in Inodes
      BY <2>2, LinkAt DEF Doing
    <3>2. \A c \in Inodes : Ents[c] = ents[c]
      BY <2>2, EntsPlain DEF Doing
    <3>3. ents'[d] = ents[d] \cup {x} /\ \A c \in Inodes \ {d} : ents'[c] = ents[c]
      BY <2>2, <3>1 DEF Control, TypeInv
    <3> HIDE DEF x, d
    <3>4. CASE x \in ents[d]
      BY <1>10, <3>1, <3>2, <3>3, <3>4
    <3>5. CASE x \notin ents[d]
      BY <1>8, <3>1, <3>2, <3>3, <3>5 DEF Gains
    <3> QED BY <3>4, <3>5
  <2>3. CASE UNCHANGED ents /\ pc = "count"
    <3>1. d \in Inodes
      BY <2>3, LinkAt DEF Control, PartOK
    <3>2. Ents[d] = ents[d] \ {Written} /\ \A c \in Inodes \ {d} : Ents[c] = ents[c]
      BY <2>3, <3>1, EntsElse
    <3> HIDE DEF d
    <3>3. CASE Written \notin ents[d]
      BY <1>10, <2>3, <3>1, <3>2, <3>3
    <3>4. CASE Written \in ents[d]
      BY <1>8, <2>3, <3>1, <3>2, <3>4 DEF Gains
    <3> QED BY <3>3, <3>4
  <2>4. ASSUME pc \in {"drop", "clear", "wipe", "halted"}
        PROVE  d \in Inodes
    BY <2>4, RemoveAt DEF Control, PartOK, Unlinking
  <2>5. CASE UNCHANGED ents /\ pc = "drop"
    <3>1. Ents[d] = ents[d] \cup {op.e} /\ \A c \in Inodes \ {d} : Ents[c] = ents[c]
      BY <2>4, <2>5, EntsElse
    <3> HIDE DEF d
    <3>2. CASE op.e \in ents[d]
      BY <1>10, <2>4, <2>5, <3>1, <3>2
    <3>3. CASE op.e \notin ents[d]
      BY <1>9, <2>4, <2>5, <3>1, <3>3 DEF Gains
    <3> QED BY <3>2, <3>3
  <2>6. CASE UNCHANGED ents /\ pc \in {"clear", "wipe", "halted"}
    <3>1. Ents[d] = ents[d] \ {op.e} /\ \A c \in Inodes \ {d} : Ents[c] = ents[c]
      BY <2>4, <2>6, EntsElse
    <3> HIDE DEF d
    <3>2. CASE op.e \notin ents[d]
      BY <1>10, <2>4, <2>6, <3>1, <3>2
    <3>3. CASE op.e \in ents[d]
      BY <1>8, <2>4, <2>6, <3>1, <3>3 DEF Gains
    <3> QED BY <3>2, <3>3
  <2> QED BY <1>1, <2>1, <2>2, <2>3, <2>5, <2>6 DEF PlainCrash, Doing
<1> QED BY <1>1, <1>2, <1>3, <1>4, <1>11, DriftSame DEF Drift

LEMMA DriftStep == Control /\ Drift /\ FewNames' /\ [PlainNext]_PlainVars => Drift'
<1> SUFFICES ASSUME Control, Drift, FewNames', [PlainNext]_PlainVars PROVE Drift'
  OBVIOUS
<1>1. Control'
  BY ControlStep
<1>2. CASE UNCHANGED PlainVars
  <2>1. \A d \in Inodes : Ents'[d] = Ents[d]
    BY <1>2 DEF PlainVars, disk, Ents, At, Task, Written
  <2>2. Unborn' = Unborn
    BY <1>2 DEF PlainVars, disk, Unborn, Task, Chd
  <2> QED BY <1>2, <2>1, <2>2, DriftKeep DEF PlainVars, disk, ghost
<1>3. ASSUME NEW p, NEW n \in Names, Mkdir(p, n)
      PROVE  Drift'
  BY <1>1, <1>3, DriftPlain DEF Mkdir, Begin, AtRest, disk, ghost
<1>4. ASSUME NEW p, NEW n \in Names, Rm(p, n)
      PROVE  Drift'
  <2>1. op'.cmd = "rm" /\ pc = "rest" /\ pc' = "next"
    BY <1>4 DEF Rm, Begin, AtRest, NoOp
  <2> QED BY <1>1, <1>4, <2>1, DriftPlain DEF Rm, Begin, disk, ghost
<1>5. ASSUME NEW p, NEW n \in Names, Rmdir(p, n)
      PROVE  Drift'
  <2>1. op'.cmd = "rmdir" /\ pc = "rest" /\ pc' = "next" /\ UNCHANGED <<disk, ghost, crashes>>
    BY <1>5 DEF Rmdir, Begin, AtRest, NoOp
  <2> QED BY <1>1, <2>1, DriftPlain DEF disk, ghost
<1>6. ASSUME NEW n \in Names, Cp(n)
      PROVE  Drift'
  BY <1>1, <1>6, DriftPlain DEF Cp, Begin, AtRest, disk, ghost
<1>7. CASE MkdirNowhere
  BY <1>1, <1>7, DriftPlain DEF MkdirNowhere, Begin, AtRest, disk, ghost
<1>8. CASE Cd
  BY <1>1, <1>8, DriftPlain DEF Cd, AtRest, disk, ghost
<1>9. CASE Restart
  BY <1>1, <1>9, DriftPlain DEF Restart, disk, ghost
<1>10. CASE Mark
  BY <1>1, <1>10, DriftPlain DEF Mark, ghost
<1>11. CASE MarkFails
  BY <1>1, <1>11, DriftPlain DEF MarkFails, disk, ghost
<1>12. CASE Done
  BY <1>1, <1>12, DriftPlain DEF Done, disk, ghost
<1>13. CASE ReadAgain
  <2>1. /\ pc = "next" /\ op.todo # <<>> /\ Task.do = "reread" /\ Proceed
        /\ UNCHANGED <<disk, ghost, crashes>>
    BY <1>13 DEF ReadAgain, Doing
  <2>2. pc' = "next" /\ op'.cmd \in {"rm", "rmdir"}
    BY <2>1, Proceeds, RemoveCmd DEF Control
  <2> QED BY <1>1, <2>1, <2>2, DriftPlain DEF disk, ghost
<1>14. CASE NoSuchName
  <2>1. /\ pc = "next" /\ op.todo # <<>> /\ Task.do = "unlink" /\ Proceed
        /\ UNCHANGED <<disk, ghost, crashes>>
    BY <1>14 DEF NoSuchName, Doing
  <2>2. pc' = "next" /\ op'.cmd \in {"rm", "rmdir"}
    BY <2>1, Proceeds, RemoveCmd DEF Control
  <2> QED BY <1>1, <2>1, <2>2, DriftPlain DEF disk, ghost
<1>15. CASE PlainNewInode
  BY <1>1, <1>15, DriftNewInode
<1>16. CASE PlainWriteEntry
  BY <1>16, DriftWriteEntry
<1>17. CASE PlainCountLink
  BY <1>1, <1>17, DriftCountLink
<1>18. CASE Hide
  BY <1>1, <1>18, DriftHide
<1>19. CASE DropLink
  BY <1>1, <1>19, DriftDropLink
<1>20. CASE ClearBit
  BY <1>20, DriftClearBit
<1>21. CASE WipeEntry
  BY <1>1, <1>21, DriftWipeEntry
<1>22. CASE PlainCrash
  BY <1>22, DriftCrash
<1> QED BY <1>2, <1>3, <1>4, <1>5, <1>6, <1>7, <1>8, <1>9, <1>10, <1>11, <1>12, <1>13, <1>14,
           <1>15, <1>16, <1>17, <1>18, <1>19, <1>20, <1>21, <1>22 DEF PlainNext

(* What the drift bounds.                                                   *)
LEMMA DriftBound ==
  ASSUME NEW E, NEW L, NEW B, NEW k \in Int, Finite(E), Drifted(E, L, B, k),
         \A i \in Inodes : L[i] \in Int
  PROVE  Cardinality(UNION {{i} \X (1 .. Off(L[i], Count(E, i))) : i \in Inodes}) <= k
<1>1. PICK dr \in [Inodes -> Int] : DriftBy(dr, E, L, B) /\ Size(dr) <= k
  BY DEF Drifted
<1> DEFINE f == [i \in Inodes |-> Off(L[i], Count(E, i))]
           g == [i \in Inodes |-> Abs(dr[i])]
<1>2. \A i \in Inodes : Count(E, i) \in Int
  BY NamedFinite
<1>3. \A i \in Inodes : /\ Off(L[i], Count(E, i)) \in Nat
                        /\ Off(L[i], Count(E, i)) <= Abs(dr[i])
  BY <1>1, <1>2, OffLeast DEF DriftBy
<1>4. \A i \in Inodes : Abs(dr[i]) \in Nat
  BY SMT DEF Abs
<1>5. f \in [Inodes -> Nat] /\ g \in [Inodes -> Nat]
  BY <1>3, <1>4
<1>6. UNION {{i} \X (1 .. Off(L[i], Count(E, i))) : i \in Inodes} = Cells(f)
  BY DEF Cells
<1>7. Cells(f) \subseteq Cells(g)
  <2>1. ASSUME NEW c \in Cells(f) PROVE c \in Cells(g)
    <3>1. c = <<c[1], c[2]>> /\ c[1] \in Inodes /\ c[2] \in 1 .. f[c[1]]
      BY <1>5, CellsAt
    <3>2. f[c[1]] \in Nat /\ g[c[1]] \in Nat /\ f[c[1]] <= g[c[1]]
      BY <1>3, <1>4, <3>1
    <3> HIDE DEF f, g
    <3>3. c[2] \in 1 .. g[c[1]]
      BY <3>1, <3>2
    <3> QED BY <1>5, <3>1, <3>3, CellsAt
  <2> QED BY <2>1
<1>8. IsFiniteSet(Cells(g)) /\ Cardinality(Cells(f)) <= Cardinality(Cells(g))
      /\ Cardinality(Cells(f)) \in Nat /\ Cardinality(Cells(g)) \in Nat
  <2> HIDE DEF f, g
  <2> QED BY <1>5, <1>7, CellsFinite, FS_Subset
<1>9. Cardinality(Cells(g)) <= k
  BY <1>1 DEF Size
<1> HIDE DEF f, g
<1> QED BY <1>6, <1>8, <1>9

DriftInv == astray > 0 \/ (Control /\ CopyOK /\ Drift)

(* LinkDrift for every number of inodes, every set of names and any number  *)
(* of crashes: what a command does to names and link counts, in whatever    *)
(* order, is undone by a crash in one place only, as long as no name is to  *)
(* be written into a free inode.                                            *)
THEOREM DriftIsBounded == Spec /\ []FewNames => []LinkDrift
<1>1. Init => Typed /\ DriftInv
  BY TypedInit, ControlInit, CopyInit, DriftInit DEF DriftInv
<1>2. Typed /\ DriftInv /\ FewNames' /\ [Next]_vars => (Typed /\ DriftInv)'
  <2> SUFFICES ASSUME Typed, DriftInv, FewNames', [Next]_vars
               PROVE  Typed' /\ DriftInv'
    OBVIOUS
  <2>1. Typed'
    BY TypedStep
  <2>2. ASSUME ~(astray' > 0)
        PROVE  Control' /\ CopyOK' /\ Drift'
    BY <2>1, <2>2, Onward, DriftStep DEF DriftInv
  <2> QED BY <2>1, <2>2 DEF DriftInv
<1>3. Typed /\ DriftInv => LinkDrift
  <2> SUFFICES ASSUME Control, Drift, pc = "rest"
               PROVE  Cardinality(UNION {{i} \X (1 .. Off(links[i], Refs(i))) : i \in Inodes})
                        <= crashes + spilt
    BY DEF LinkDrift, DriftInv, Typed, MishapType
  <2>1. Drifted(ents, links, Unborn, crashes + spilt)
    <3>1. \A d \in Inodes : ents[d] = Ents[d]
      BY EntsPlain
    <3> QED BY <3>1, DriftSame DEF Drift
  <2>2. Finite(ents) /\ crashes + spilt \in Int /\ \A i \in Inodes : links[i] \in Int
    BY BudgetType DEF Control, TypeInv
  <2>3. Cardinality(UNION {{i} \X (1 .. Off(links[i], Count(ents, i))) : i \in Inodes})
          <= crashes + spilt
    BY <2>1, <2>2, DriftBound
  <2>4. \A i : Refs(i) = Count(ents, i)
    BY NamingAll
  <2> QED BY <2>3, <2>4
<1> QED BY <1>1, <1>2, <1>3, PTL DEF Spec

-----------------------------------------------------------------------------
(* What holds of the tree as long as there was no crash.                    *)
Creating  == pc \in {"next", "count"} /\ op.todo # <<>> /\ Task.do = "link"
Rmdiring  == op.cmd = "rmdir" /\ op.todo # <<>>

(* An inode without a name yet, or just freed; a directory that is being    *)
(* made or removed.                                                         *)
Unnamed(i) == \/ pc = "inode" /\ i = Chd
              \/ Creating /\ Task.at = "parent" /\ i = Chd
              \/ pc = "clear" /\ i = op.e.ino
Unled(i)   == (Creating \/ Rmdiring) /\ i = Chd

TEntry(d, e) ==
  /\ e.name \in Names \cup Dots
  /\ e.ino \in marked \ leaked /\ kind[e.ino] # "none"
  /\ Entry(Dot, d) \in Ents[d]
  /\ e.name = Dot => e.ino = d
  /\ e.name = DotDot => kind[e.ino] = "dir"
  /\ e.name \in Names => e.ino # Root /\ e.ino # d /\ e.ino \notin dropped

TEntries == \A d \in Inodes : \A e \in Ents[d] : TEntry(d, e)

TUnique ==
  /\ \A c, d \in Inodes : \A x \in Ents[c], y \in Ents[d] :
       x.name \in Names /\ y.name \in Names /\ x.ino = y.ino => c = d /\ x = y
  /\ \A d \in Inodes : \A x, y \in Ents[d] : x.name = DotDot /\ y.name = DotDot => x = y

TNamed ==
  \A i \in marked \ ({Root} \cup leaked \cup dropped) :
     Unnamed(i) \/ \E d \in Inodes : \E e \in Ents[d] : e.name \in Names /\ e.ino = i

TUp ==
  \A d \in Inodes : \A e \in Ents[d] :
     e.name \in Names /\ kind[e.ino] = "dir" /\ ~Unled(e.ino) => Entry(DotDot, d) \in Ents[e.ino]

TDot ==
  \A d \in Inodes \ (torn \cup leaked) : kind[d] = "dir" /\ ~Unled(d) => Entry(Dot, d) \in Ents[d]

(* A mkdir that has led nowhere is about to die.                            *)
Nowhere == pc = "next" /\ op.todo = <<>> /\ hdl.parent = NoHandle

TRest ==
  /\ pc = "rest" => op.todo = <<>>
  /\ Root \in marked \ leaked /\ kind[Root] = "dir" /\ Entry(Dot, Root) \in Ents[Root]
  /\ kind[pwd] = "dir" /\ pwd \in leaked => Nowhere

TCreate ==
  /\ pc \in {"mark", "inode"} /\ op.todo # <<>> => Par \notin torn \cup leaked
  /\ Creating =>
       /\ Par \notin torn \cup leaked /\ Chd \notin leaked \cup dropped /\ Chd # Root
       /\ Task.at = "parent" => \A d \in Inodes : \A e \in Ents[d] : e.ino # Chd
       /\ Task.at = "child" => \E n \in Names : Entry(n, Chd) \in Ents[Par]

(* A directory that has lost its "." cannot be walked, or is not one.       *)
Gone == Chd \in torn \/ kind[Chd] = "none"

TRmdir ==
  Rmdiring =>
    /\ Par # Chd /\ op.first.name \in Names /\ op.first.ino = Chd
    /\ \/ /\ op.todo = RmdirTodo(op.first.name) /\ op.first \in Ents[Par]
          /\ IF pc \in {"next", "drop"} THEN Ents[Chd] = {Entry(Dot, Chd), Entry(DotDot, Par)}
             ELSE Ents[Chd] = {Entry(Dot, Chd)}
       \/ /\ op.todo = Rmdir2(op.first.name) /\ op.first \in Ents[Par]
          /\ IF pc \in {"next", "drop"} THEN Ents[Chd] = {Entry(Dot, Chd)} ELSE Ents[Chd] = {}
       \/ /\ op.todo = Rmdir3(op.first.name) /\ op.first \in Ents[Par]
          /\ Ents[Chd] = {} /\ Gone
       \/ /\ op.todo = RmTodo(op.first.name) /\ Ents[Chd] = {} /\ Gone
          /\ IF pc \in {"next", "drop"}
             THEN op.first \in Ents[Par] /\ (pc = "drop" => op.e = op.first)
             ELSE \A d \in Inodes : \A e \in Ents[d] : e.name \in Names => e.ino # Chd

Tree == TEntries /\ TUnique /\ TNamed /\ TUp /\ TDot /\ TRest /\ TCreate /\ TRmdir /\ spilt = 0

TreeInv == crashes = 0 => Tree

LEMMA EntsExt ==
  (\A d \in Inodes : Ents'[d] = Ents[d]) => Ents' = Ents
<1>1. Ents = [d \in Inodes |-> Ents[d]] /\ Ents' = [d \in Inodes |-> Ents'[d]]
  BY DEF Ents
<1> QED BY <1>1, Zenon

LEMMA TreePlain ==
  ASSUME Tree, Ents' = Ents, marked' = marked, kind' = kind, UNCHANGED ghost,
         ~Creating, ~Rmdiring, pc \notin {"inode", "clear"}, TRest', TCreate', TRmdir'
  PROVE  Tree'
<1>1. UNCHANGED <<torn, leaked, spilt, dropped>>
  BY DEF ghost
<1>2. TEntries'
  BY <1>1 DEF Tree, TEntries, TEntry
<1>3. TUnique'
  BY DEF Tree, TUnique
<1>4. TNamed'
  BY <1>1 DEF Tree, TNamed, Unnamed
<1>5. TUp'
  BY DEF Tree, TUp, Unled
<1>6. TDot'
  BY <1>1 DEF Tree, TDot, Unled
<1> QED BY <1>1, <1>2, <1>3, <1>4, <1>5, <1>6 DEF Tree

LEMMA TreeInit == Init => Tree
<1> SUFFICES ASSUME Init PROVE Tree
  OBVIOUS
<1>1. \A d \in Inodes : Ents[d] = ents[d]
  BY EntsPlain DEF Init
<1>2. /\ Ents[Root] = {Entry(Dot, Root), Entry(DotDot, Root)}
      /\ \A d \in Inodes \ {Root} : Ents[d] = {}
  <2>1. {Entry(n, Root) : n \in Dots} = {Entry(Dot, Root), Entry(DotDot, Root)}
    BY DEF Dots
  <2> QED BY <1>1, <2>1, Width DEF Init
<1>3. /\ Entry(Dot, Root).ino = Root /\ Entry(DotDot, Root).ino = Root
      /\ Entry(Dot, Root).name = Dot /\ Entry(DotDot, Root).name = DotDot
  BY DEF Entry
<1>4. ASSUME NEW d \in Inodes, NEW e \in Ents[d]
      PROVE  /\ d = Root /\ e.ino = Root /\ e.name \in Dots /\ Entry(Dot, d) \in Ents[d]
             /\ e.name \notin Names /\ (e.name = DotDot => e = Entry(DotDot, Root))
  <2>1. d = Root /\ e \in {Entry(Dot, Root), Entry(DotDot, Root)}
    BY <1>2
  <2> QED BY <1>2, <1>3, <2>1, NamespaceAssumption DEF Dots
<1>5. ~Creating /\ ~Rmdiring
  BY DEF Init, Creating, Rmdiring, NoOp
<1>6. TEntries
  BY <1>4 DEF TEntries, TEntry, Init
<1>7. TUnique
  BY <1>4 DEF TUnique
<1>8. TNamed
  BY DEF TNamed, Init
<1>9. TUp /\ TDot
  BY <1>2, <1>4 DEF TUp, TDot, Init
<1>10. TRest
  BY <1>2, Width DEF TRest, Init, NoOp
<1> QED BY <1>5, <1>6, <1>7, <1>8, <1>9, <1>10 DEF Tree, TCreate, TRmdir, Init

(* Where a path leads.                                                      *)
LEMMA ParentsTree ==
  ASSUME Control, Tree, pc = "rest", NEW p \in Parents
  PROVE  p \in Inodes /\ p \notin torn /\ (kind[p] = "dir" => p \notin leaked)
<1>1. /\ p \in Inodes /\ p \notin torn
      /\ p = pwd \/ \E e \in ents[pwd] : p = e.ino
  BY ParentsDir DEF Parents, Control
<1>2. p = pwd /\ kind[p] = "dir" => p \notin leaked
  BY <1>1 DEF Tree, TRest, Nowhere
<1>3. ASSUME NEW e \in ents[pwd] PROVE e.ino \notin leaked
  <2>1. pwd \in Inodes /\ e \in Ents[pwd]
    BY EntsPlain DEF Control, TypeInv
  <2> QED BY <2>1 DEF Tree, TEntries, TEntry
<1> QED BY <1>1, <1>2, <1>3

LEMMA TreeBegin ==
  ASSUME Control, Tree, NEW cmd, NEW todo, NEW handles, NEW first,
         Begin(cmd, todo, handles, first), pc' \in {"mark", "next"}, TCreate', TRmdir'
  PROVE  Tree'
<1> USE DEF Begin
<1>1. /\ pc = "rest" /\ ents' = ents /\ marked' = marked /\ kind' = kind
      /\ pwd' = pwd /\ UNCHANGED ghost
  BY DEF AtRest, disk
<1>2. Ents' = Ents
  <2>1. \A d \in Inodes : Ents[d] = ents[d] /\ Ents'[d] = ents'[d]
    BY <1>1, EntsPlain DEF Ents
  <2> QED BY <1>1, <2>1, EntsExt
<1>3. ~Creating /\ ~Rmdiring
  BY <1>1 DEF Tree, TRest, Creating, Rmdiring
<1>4. TRest'
  BY <1>1, <1>2 DEF Tree, TRest, Nowhere, ghost
<1> QED BY <1>1, <1>2, <1>3, <1>4, TreePlain

LEMMA TreeMkdir ==
  ASSUME Control, Control', Tree, NEW p \in Dirs, NEW n \in Names, Mkdir(p, n)
  PROVE  Tree'
<1>1. /\ pc = "rest" /\ pc' = "mark" /\ p \in Parents /\ UNCHANGED ghost
      /\ hdl' = [NoHandles EXCEPT !.parent = Read(p)] /\ op'.cmd = "mkdir"
  BY DEF Mkdir, Begin, AtRest, NoOp
<1>2. p \in Inodes /\ p \notin torn \cup leaked
  BY <1>1, ParentsTree DEF Dirs
<1>3. hdl'.parent.ino = p
  BY <1>1, <1>2, Handles DEF Control
<1>4. TCreate' /\ TRmdir'
  BY <1>1, <1>2, <1>3 DEF TCreate, TRmdir, Creating, Rmdiring, Par, ghost
<1> QED BY <1>1, <1>4, TreeBegin DEF Mkdir

LEMMA TreeCp ==
  ASSUME Control, Control', Tree, NEW n \in Names, Cp(n), pwd \in Dirs
  PROVE  Tree'
<1>1. /\ pc = "rest" /\ pc' = "mark" /\ pwd \notin torn /\ kind[pwd] = "dir" /\ UNCHANGED ghost
      /\ hdl' = [NoHandles EXCEPT !.parent = Read(pwd)] /\ op'.cmd = "cp"
  BY DEF Cp, Begin, AtRest, NoOp, Dirs
<1>2. pwd \in Inodes /\ pwd \notin torn \cup leaked
  BY <1>1 DEF Tree, TRest, Nowhere, Control, TypeInv
<1>3. hdl'.parent.ino = pwd
  BY <1>1, <1>2, Handles DEF Control
<1>4. TCreate' /\ TRmdir'
  BY <1>1, <1>2, <1>3 DEF TCreate, TRmdir, Creating, Rmdiring, Par, ghost
<1> QED BY <1>1, <1>4, TreeBegin DEF Cp

LEMMA TreeMkdirNowhere == Control /\ Tree /\ MkdirNowhere => Tree'
<1> SUFFICES ASSUME Control, Tree, MkdirNowhere PROVE Tree'
  OBVIOUS
<1>1. pc' = "mark" /\ op'.todo = <<>>
  BY DEF MkdirNowhere, Begin, NoOp
<1>2. TCreate' /\ TRmdir'
  BY <1>1 DEF TCreate, TRmdir, Creating, Rmdiring
<1> QED BY <1>1, <1>2, TreeBegin DEF MkdirNowhere

LEMMA TreeRm ==
  ASSUME Control, Control', Tree, NEW p, NEW n \in Names, Rm(p, n)
  PROVE  Tree'
<1>1. pc' = "next" /\ op'.cmd = "rm"
  BY DEF Rm, Begin, NoOp
<1>2. ~Creating'
  BY <1>1 DEF Creating, Control, LinkOK
<1>3. TCreate' /\ TRmdir'
  BY <1>1, <1>2 DEF TCreate, TRmdir, Rmdiring
<1> QED BY <1>1, <1>3, TreeBegin DEF Rm

(* The directory has its "." and, since it has a name and is not being      *)
(* made, its ".."; with two entries it has no other.                        *)
LEMMA TwoLeft ==
  ASSUME NEW S, IsFiniteSet(S), Cardinality(S) = 2, NEW a \in S, NEW b \in S, a # b
  PROVE  S = {a, b}
<1>1. IsFiniteSet({a}) /\ Cardinality({a}) = 1
  BY FS_Singleton
<1>2. Cardinality({a} \cup {b}) = 1 + 1
  BY <1>1, FS_AddElement
<1>3. {a} \cup {b} \subseteq S
  OBVIOUS
<1>4. {a} \cup {b} = S
  BY <1>2, <1>3, FS_Subset
<1> QED BY <1>4

LEMMA TreeRmdir ==
  ASSUME Control, Control', Tree, NEW p, NEW n \in Names, Rmdir(p, n)
  PROVE  Tree'
<1>1. pc = "rest" /\ pc' = "next" /\ p \in Parents
  BY DEF Rmdir, Begin, AtRest
<1>2. PICK e \in ents[p] :
        /\ e.name = n /\ Removable(e.ino)
        /\ Begin("rmdir", RmdirTodo(n), [parent |-> Read(p), child |-> Read(e.ino)], e)
  BY Zenon DEF Rmdir
<1>3. p \in Inodes /\ kind[p] = "dir"
  BY <1>1, <1>2, ParentsTree DEF Control, DiskOK
<1>4. \A d \in Inodes : Ents[d] = ents[d]
  BY <1>1, EntsPlain
<1>5. e \in Ents[p] /\ e.ino # p /\ e.ino \in Inodes /\ kind[e.ino] = "dir"
  <2>1. e \in Ents[p] /\ e.ino # p /\ e.ino \in Inodes
    BY <1>2, <1>3, <1>4 DEF Tree, TEntries, TEntry, Control, TypeInv
  <2>2. kind[e.ino] # "dir" => ents[e.ino] = {}
    BY <2>1 DEF Control, DiskOK
  <2> QED BY <1>2, <2>1, <2>2, FS_EmptySet DEF Removable
<1>6. ~Creating /\ ~Rmdiring
  BY <1>1 DEF Tree, TRest, Creating, Rmdiring
<1>7. Entry(DotDot, p) \in Ents[e.ino]
  BY <1>2, <1>3, <1>5, <1>6 DEF Tree, TUp, Unled
<1>8. Entry(Dot, e.ino) \in Ents[e.ino]
  BY <1>5, <1>7 DEF Tree, TEntries, TEntry
<1>9. Entry(Dot, e.ino) # Entry(DotDot, p)
  <2>1. Entry(Dot, e.ino).name = Dot /\ Entry(DotDot, p).name = DotDot
    BY DEF Entry
  <2> QED BY <2>1, NamespaceAssumption
<1>10. Ents[e.ino] = {Entry(Dot, e.ino), Entry(DotDot, p)}
  <2>1. Cardinality(Ents[e.ino]) = 2 /\ IsFiniteSet(Ents[e.ino])
    BY <1>2, <1>4, <1>5, EntsFinite DEF Removable, Finite, Control
  <2> QED BY <1>7, <1>8, <1>9, <2>1, TwoLeft
<1>11. /\ hdl' = [parent |-> Read(p), child |-> Read(e.ino)]
       /\ op'.cmd = "rmdir" /\ op'.todo = RmdirTodo(n) /\ op'.first = e
  BY <1>2 DEF Begin, NoOp
<1>12. hdl'.parent.ino = p /\ hdl'.child.ino = e.ino
  BY <1>3, <1>5, <1>11, Handles DEF Control
<1>13. Ents' = Ents
  <2>1. \A d \in Inodes : Ents'[d] = ents'[d]
    BY <1>1 DEF Ents
  <2>2. ents' = ents
    BY <1>2 DEF Begin, disk
  <2> QED BY <1>4, <2>1, <2>2, EntsExt
<1>14. ~Creating'
  BY <1>11 DEF Creating, Control, LinkOK
<1>15. TRmdir'
  BY <1>1, <1>2, <1>5, <1>10, <1>11, <1>12, <1>13 DEF TRmdir, Par, Chd
<1>16. TCreate'
  BY <1>1, <1>14 DEF TCreate
<1> QED BY <1>1, <1>2, <1>15, <1>16, TreeBegin

LEMMA TreeCd == Control /\ Tree /\ Cd => Tree'
<1> SUFFICES ASSUME Control, Tree, Cd PROVE Tree'
  OBVIOUS
<1>1. /\ pc = "rest" /\ pc' = "rest" /\ op' = op /\ hdl' = hdl /\ ents' = ents /\ marked' = marked
      /\ kind' = kind /\ UNCHANGED ghost /\ pwd' \in Parents
  BY DEF Cd, AtRest, disk
<1>2. Ents' = Ents
  <2>1. \A d \in Inodes : Ents[d] = ents[d] /\ Ents'[d] = ents'[d]
    BY <1>1, EntsPlain DEF Ents
  <2> QED BY <1>1, <2>1, EntsExt
<1>3. ~Creating /\ ~Rmdiring /\ ~Creating' /\ ~Rmdiring'
  BY <1>1 DEF Tree, TRest, Creating, Rmdiring
<1>4. kind[pwd'] = "dir" => pwd' \notin leaked
  BY <1>1, ParentsTree
<1>5. TRest' /\ TCreate' /\ TRmdir'
  BY <1>1, <1>2, <1>3, <1>4 DEF Tree, TRest, Nowhere, TCreate, TRmdir, ghost
<1> QED BY <1>1, <1>2, <1>3, <1>5, TreePlain

LEMMA TreeRestart == Control /\ Tree /\ Restart => Tree'
<1> SUFFICES ASSUME Control, Tree, Restart PROVE Tree'
  OBVIOUS
<1>1. /\ pc = "rest" /\ pc' = "rest" /\ op' = op /\ hdl' = hdl /\ ents' = ents /\ marked' = marked
      /\ kind' = kind /\ UNCHANGED ghost /\ pwd' = Root
  BY DEF Restart, disk
<1>2. Ents' = Ents
  <2>1. \A d \in Inodes : Ents[d] = ents[d] /\ Ents'[d] = ents'[d]
    BY <1>1, EntsPlain DEF Ents
  <2> QED BY <1>1, <2>1, EntsExt
<1>3. ~Creating /\ ~Rmdiring /\ ~Creating' /\ ~Rmdiring'
  BY <1>1 DEF Tree, TRest, Creating, Rmdiring
<1>4. TRest' /\ TCreate' /\ TRmdir'
  BY <1>1, <1>2, <1>3 DEF Tree, TRest, Nowhere, TCreate, TRmdir, ghost
<1> QED BY <1>1, <1>2, <1>3, <1>4, TreePlain

LEMMA TreeMarkFails == Control /\ Tree /\ MarkFails => Tree'
<1> SUFFICES ASSUME Control, Tree, MarkFails PROVE Tree'
  OBVIOUS
<1>1. /\ pc = "mark" /\ pc' = "rest" /\ op' = NoOp /\ ents' = ents /\ marked' = marked
      /\ kind' = kind /\ UNCHANGED ghost /\ pwd' \in {pwd, Root}
  BY DEF MarkFails, disk
<1>2. Ents' = Ents
  <2>1. \A d \in Inodes : Ents[d] = ents[d] /\ Ents'[d] = ents'[d]
    BY <1>1, EntsPlain DEF Ents
  <2> QED BY <1>1, <2>1, EntsExt
<1>3. ~Creating /\ ~Rmdiring /\ ~Creating' /\ ~Rmdiring' /\ op'.todo = <<>>
  BY <1>1 DEF Control, StartOK, Creating, Rmdiring, NoOp
<1>4. TRest' /\ TCreate' /\ TRmdir'
  BY <1>1, <1>2, <1>3 DEF Tree, TRest, Nowhere, TCreate, TRmdir, ghost
<1> QED BY <1>1, <1>2, <1>3, <1>4, TreePlain

LEMMA TreeDone == Control /\ Tree /\ Done => Tree'
<1> SUFFICES ASSUME Control, Tree, Done PROVE Tree'
  OBVIOUS
<1>1. /\ pc = "next" /\ op.todo = <<>> /\ pc' = "rest" /\ op' = NoOp /\ ents' = ents
      /\ marked' = marked /\ kind' = kind /\ UNCHANGED ghost
      /\ pwd' = IF hdl.parent = NoHandle THEN Root ELSE pwd
  BY DEF Done, disk
<1>2. Ents' = Ents
  <2>1. \A d \in Inodes : Ents[d] = ents[d] /\ Ents'[d] = ents'[d]
    BY <1>1, EntsPlain DEF Ents
  <2> QED BY <1>1, <2>1, EntsExt
<1>3. ~Creating /\ ~Rmdiring /\ ~Creating' /\ ~Rmdiring' /\ op'.todo = <<>>
  BY <1>1 DEF Creating, Rmdiring, NoOp
<1>4. TRest' /\ TCreate' /\ TRmdir'
  BY <1>1, <1>2, <1>3 DEF Tree, TRest, Nowhere, TCreate, TRmdir, ghost
<1> QED BY <1>1, <1>2, <1>3, <1>4, TreePlain

LEMMA TreeMark == Control /\ Tree /\ Mark => Tree'
<1> SUFFICES ASSUME Control, Tree, Mark PROVE Tree'
  OBVIOUS
<1>1. PICK n \in Inodes \ marked : /\ marked' = marked \cup {n}
                                   /\ hdl' = [hdl EXCEPT !.child = [ino |-> n, links |-> 0]]
  BY DEF Mark
<1>2. /\ pc = "mark" /\ pc' = "inode" /\ op' = op /\ ents' = ents
      /\ kind' = kind /\ UNCHANGED <<torn, leaked, spilt, dropped>> /\ pwd' = pwd
  BY DEF Mark, ghost
<1>3. Ents' = Ents
  <2>1. \A d \in Inodes : Ents[d] = ents[d] /\ Ents'[d] = ents'[d]
    BY <1>2, EntsPlain DEF Ents
  <2> QED BY <1>2, <2>1, EntsExt
<1>4. hdl'.parent = hdl.parent /\ hdl'.child.ino = n
  BY <1>1 DEF Control, TypeInv
<1>5. ~Creating /\ ~Rmdiring /\ ~Creating' /\ ~Rmdiring'
  BY <1>2 DEF Control, StartOK, Creating, Rmdiring
<1>6. TEntries'
  BY <1>1, <1>2, <1>3 DEF Tree, TEntries, TEntry
<1>7. TUnique'
  BY <1>3 DEF Tree, TUnique
<1>8. TNamed'
  BY <1>1, <1>2, <1>3, <1>4, <1>5 DEF Tree, TNamed, Unnamed, Chd
<1>9. TUp' /\ TDot'
  BY <1>2, <1>3, <1>5 DEF Tree, TUp, TDot, Unled
<1>10. TRest'
  BY <1>1, <1>2, <1>3 DEF Tree, TRest, Nowhere
<1>11. TCreate' /\ TRmdir'
  BY <1>2, <1>4, <1>5 DEF Tree, TCreate, TRmdir, Par
<1> QED BY <1>2, <1>6, <1>7, <1>8, <1>9, <1>10, <1>11 DEF Tree

LEMMA TreeNewInode == Control /\ Tree /\ PlainNewInode => Tree'
<1> SUFFICES ASSUME Control, Tree, PlainNewInode PROVE Tree'
  OBVIOUS
<1> DEFINE n == hdl.child.ino
<1>1. n \in marked /\ kind[n] = "none" /\ n \in Inodes /\ n = Chd
  BY DEF PlainNewInode, Control, StartOK, TypeInv, Chd
<1>2. /\ kind' = [kind EXCEPT ![n] = IF op.cmd = "cp" THEN "file" ELSE "dir"]
      /\ links' = [links EXCEPT ![n] = 0] /\ ents' = [ents EXCEPT ![n] = {}]
      /\ torn' = torn \ {n} /\ dropped' = dropped \ {n}
      /\ leaked' = IF op.todo = <<>> THEN leaked \cup {n} ELSE leaked \ {n}
      /\ pc = "inode" /\ pc' = "next" /\ UNCHANGED <<marked, pwd, hdl, op, spilt>>
  BY DEF PlainNewInode
<1>3. Ents' = Ents
  <2>1. \A d \in Inodes : Ents[d] = ents[d] /\ Ents'[d] = ents'[d]
    BY <1>2, EntsPlain DEF Ents
  <2>2. ents[n] = {}
    BY <1>1 DEF Control, DiskOK
  <2>3. \A d \in Inodes : ents'[d] = ents[d]
    BY <1>1, <1>2, <2>2 DEF Control, TypeInv
  <2> QED BY <2>1, <2>3, EntsExt
<1>4. kind'[n] # "none" /\ \A i \in Inodes \ {n} : kind'[i] = kind[i]
  BY <1>1, <1>2 DEF Control, TypeInv
<1>5. marked \subseteq Inodes
  BY DEF Control, TypeInv
<1>6. \A d \in Inodes : \A e \in Ents[d] : e.ino # n /\ e.ino \in Inodes
  BY <1>1, <1>5 DEF Tree, TEntries, TEntry
<1>7. /\ ~Creating /\ ~Rmdiring /\ ~Rmdiring' /\ Chd' = n /\ Par' = Par /\ Task' = Task
      /\ op.todo # <<>> => Task.do = "link" /\ Task.at = "parent" /\ Par # n
  <2>1. op.todo # <<>> => ParentOK /\ \E m \in Names : op.todo \in {MkdirTodo(m), CpTodo(m)}
    BY <1>2 DEF Control, StartOK
  <2>2. op.todo # <<>> => Task.do = "link" /\ Task.at = "parent"
    BY <2>1, Shapes
  <2>3. op.cmd \in {"mkdir", "cp"}
    BY <1>2 DEF Control, StartOK
  <2>4. ~Creating /\ ~Rmdiring /\ ~Rmdiring' /\ Chd' = n /\ Par' = Par /\ Task' = Task
    BY <1>2, <2>3 DEF Creating, Rmdiring, Chd, Par, Task
  <2>5. op.todo # <<>> => Par # n
    BY <1>1, <2>1 DEF ParentOK
  <2> QED BY <2>2, <2>4, <2>5
<1>8. op.todo # <<>> => Creating'
  BY <1>2, <1>7 DEF Creating
<1>9. n # Root
  BY <1>1, <1>2 DEF Tree, TRest
<1>10. TEntries'
  BY <1>2, <1>3, <1>4, <1>6 DEF Tree, TEntries, TEntry
<1>11. TUnique'
  BY <1>3 DEF Tree, TUnique
<1>12. TNamed'
  <2> SUFFICES ASSUME NEW i \in marked \ ({Root} \cup leaked' \cup dropped'), ~Unnamed(i)'
               PROVE  \E d \in Inodes : \E e \in Ents[d] : e.name \in Names /\ e.ino = i
    BY <1>2, <1>3 DEF TNamed
  <2>1. i # n
    BY <1>2, <1>7, <1>8 DEF Unnamed
  <2>2. i \notin leaked \cup dropped /\ ~Unnamed(i)
    BY <1>1, <1>2, <1>7, <2>1 DEF Unnamed
  <2> QED BY <2>2 DEF Tree, TNamed
<1>13. TUp'
  BY <1>3, <1>4, <1>6, <1>7 DEF Tree, TUp, Unled
<1>14. TDot'
  <2> SUFFICES ASSUME NEW d \in Inodes \ (torn' \cup leaked'), kind'[d] = "dir", ~Unled(d)'
               PROVE  Entry(Dot, d) \in Ents[d]
    BY <1>3 DEF TDot
  <2>1. d # n
    BY <1>2, <1>7, <1>8 DEF Unled
  <2>2. d \notin torn \cup leaked /\ kind[d] = "dir" /\ ~Unled(d)
    BY <1>2, <1>4, <1>7, <2>1 DEF Unled
  <2> QED BY <2>2 DEF Tree, TDot
<1>15. TRest'
  <2>1. op.todo = <<>> => Nowhere'
    BY <1>2, NotEmpty DEF Control, StartOK, Nowhere
  <2>2. CASE pwd = n
    BY <1>2, <1>3, <1>4, <1>9, <2>1, <2>2 DEF Tree, TRest, Control, TypeInv
  <2>3. CASE pwd # n
    BY <1>2, <1>3, <1>4, <1>9, <2>3 DEF Tree, TRest, Nowhere, Control, TypeInv
  <2> QED BY <2>2, <2>3
<1>16. TCreate' /\ TRmdir'
  BY <1>2, <1>3, <1>6, <1>7, <1>9 DEF Tree, TCreate, TRmdir, Creating
<1> QED BY <1>2, <1>10, <1>11, <1>12, <1>13, <1>14, <1>15, <1>16 DEF Tree

LEMMA TreeWriteEntry == Control /\ Tree /\ PlainWriteEntry => Tree'
<1> SUFFICES ASSUME Control, Tree, PlainWriteEntry PROVE Tree'
  OBVIOUS
<1> DEFINE e == Written
           d == At.ino
<1>1. /\ pc = "next" /\ op.todo # <<>> /\ Task.do = "link" /\ pc' = "count"
      /\ ents' = [ents EXCEPT ![d] = @ \cup {e}]
      /\ UNCHANGED <<marked, kind, pwd, hdl, op, torn, leaked, spilt, dropped>>
  BY DEF PlainWriteEntry, Doing, Written, ghost
<1>2. d \in Inodes
  BY <1>1, LinkAt
<1>3. Task' = Task /\ At' = At /\ Written' = Written /\ Par' = Par /\ Chd' = Chd
  BY <1>1 DEF Task, At, Written, Par, Chd
<1>4. \A c \in Inodes : Ents[c] = ents[c]
  BY <1>1, EntsPlain
<1>5. e \notin ents[d]
  <2>1. CASE \E n \in Names : op.todo \in {MkdirTodo(n), CpTodo(n)}
    <3>1. Task.at = "parent" /\ Task.to = "child"
      BY <2>1, Shapes
    <3>2. e.ino = Chd
      BY <3>1 DEF Written, Entry, Chd
    <3>3. \A x \in Ents[d] : x.ino # Chd
      BY <1>1, <1>2, <3>1 DEF Tree, TCreate, Creating
    <3> QED BY <1>2, <1>4, <3>2, <3>3
  <2>2. CASE op.todo = Mkdir2 /\ ents[Chd] = {}
    BY <2>2, DotShapes DEF At, Chd
  <2>3. CASE op.todo = Mkdir3 /\ ents[Chd] = {Entry(Dot, Chd)}
    <3>1. Task.at = "child" /\ Task.name = DotDot
      BY <2>3, DotShapes
    <3>2. Entry(DotDot, hdl[Task.to].ino).name = DotDot /\ Entry(Dot, Chd).name = Dot
      BY DEF Entry
    <3> QED BY <2>3, <3>1, <3>2, NamespaceAssumption DEF At, Chd, Written
  <2> QED BY <1>1, <2>1, <2>2, <2>3 DEF Control, LinkOK
<1>6. Ents' = Ents
  <2>1. Ents'[d] = ents'[d] \ {e} /\ \A c \in Inodes \ {d} : Ents'[c] = ents'[c]
    BY <1>1, <1>2, <1>3 DEF Ents
  <2>2. ents'[d] = ents[d] \cup {e} /\ \A c \in Inodes \ {d} : ents'[c] = ents[c]
    BY <1>1, <1>2 DEF Control, TypeInv
  <2>3. \A c \in Inodes : Ents'[c] = Ents[c]
    BY <1>4, <1>5, <2>1, <2>2
  <2> QED BY <2>3, EntsExt
<1>7. Creating /\ Creating' /\ ~Rmdiring /\ ~Rmdiring'
  BY <1>1, <1>3 DEF Creating, Rmdiring, Control, LinkOK
<1>8. TEntries' /\ TUnique'
  BY <1>1, <1>6 DEF Tree, TEntries, TEntry, TUnique
<1>9. TNamed'
  BY <1>1, <1>3, <1>6, <1>7 DEF Tree, TNamed, Unnamed
<1>10. TUp' /\ TDot'
  BY <1>1, <1>3, <1>6, <1>7 DEF Tree, TUp, TDot, Unled
<1>11. TRest' /\ TCreate' /\ TRmdir'
  BY <1>1, <1>3, <1>6, <1>7 DEF Tree, TRest, Nowhere, TCreate, TRmdir
<1> QED BY <1>1, <1>8, <1>9, <1>10, <1>11 DEF Tree

LEMMA TreeReadAgain == Control /\ Control' /\ Tree /\ ReadAgain => Tree'
<1> SUFFICES ASSUME Control, Control', Tree, ReadAgain PROVE Tree'
  OBVIOUS
<1>1. /\ pc = "next" /\ op.todo # <<>> /\ Task.do = "reread" /\ Proceed
      /\ hdl' = [hdl EXCEPT ![Task.at] = Read(At.ino)]
      /\ UNCHANGED <<disk, pwd, torn, leaked, spilt, dropped>>
  BY DEF ReadAgain, Doing, ghost
<1>2. Par' = Par /\ Chd' = Chd
  BY <1>1, RemoveAt, HandleRead DEF Control
<1>3. pc' = "next" /\ op'.cmd = op.cmd /\ op'.todo = Tail(op.todo) /\ op'.first = op.first
  BY <1>1, Proceeds DEF Control
<1>4. ents' = ents /\ marked' = marked /\ kind' = kind
  BY <1>1 DEF disk
<1>5. Ents' = Ents
  <2>1. \A c \in Inodes : Ents[c] = ents[c] /\ Ents'[c] = ents'[c]
    BY <1>1, <1>3, EntsPlain DEF Ents
  <2> QED BY <1>4, <2>1, EntsExt
<1>6. PICK n \in Names : Removing(n)
  BY <1>1, RemoveAt
<1>7. op.cmd = "rmdir" /\ op.todo = Rmdir3(n)
  BY <1>1, <1>6, Shapes DEF Removing
<1>8. Rmdiring /\ ~Creating /\ ~Creating'
  BY <1>1, <1>3, <1>7 DEF Rmdiring, Creating, Control, LinkOK
<1>9. /\ Par # Chd /\ op.first.name \in Names /\ op.first.ino = Chd
      /\ op.todo = Rmdir3(op.first.name) /\ op.first \in Ents[Par] /\ Ents[Chd] = {}
      /\ Gone
  <2>1. op.todo = RmdirTodo(op.first.name) => Task.do = "unlink"
    BY Shapes
  <2>2. op.todo = Rmdir2(op.first.name) => Task.do = "unlink"
    BY Shapes
  <2>3. op.todo = RmTodo(op.first.name) => Task.do = "unlink"
    BY Shapes
  <2> QED BY <1>1, <1>8, <2>1, <2>2, <2>3 DEF Tree, TRmdir
<1>10. op'.todo = RmTodo(op.first.name) /\ op'.todo # <<>>
  BY <1>3, <1>9, Shapes, NotEmpty
<1>11. TRmdir'
  BY <1>1, <1>2, <1>3, <1>5, <1>9, <1>10 DEF TRmdir, Gone, disk
<1>12. Rmdiring'
  BY <1>3, <1>7, <1>10 DEF Rmdiring
<1>13. TEntries' /\ TUnique'
  BY <1>1, <1>4, <1>5 DEF Tree, TEntries, TEntry, TUnique
<1>14. TNamed'
  BY <1>1, <1>3, <1>4, <1>5, <1>8 DEF Tree, TNamed, Unnamed
<1>15. TUp' /\ TDot'
  BY <1>1, <1>2, <1>4, <1>5, <1>8, <1>12 DEF Tree, TUp, TDot, Unled
<1>16. TRest' /\ TCreate'
  BY <1>1, <1>3, <1>4, <1>5, <1>8 DEF Tree, TRest, Nowhere, TCreate
<1> QED BY <1>1, <1>11, <1>13, <1>14, <1>15, <1>16 DEF Tree

LEMMA TreeNoSuchName == Control /\ Control' /\ Tree /\ NoSuchName => Tree'
<1> SUFFICES ASSUME Control, Control', Tree, NoSuchName PROVE Tree'
  OBVIOUS
<1>1. /\ pc = "next" /\ op.todo # <<>> /\ Task.do = "unlink" /\ Proceed
      /\ \A e \in ents[At.ino] : e.name # Task.name
      /\ UNCHANGED <<disk, pwd, hdl, torn, leaked, spilt, dropped>>
  BY DEF NoSuchName, Doing, ghost
<1>2. pc' = "next" /\ op'.cmd = op.cmd /\ op'.todo = Tail(op.todo) /\ op'.first = op.first
  BY <1>1, Proceeds DEF Control
<1>3. \A c \in Inodes : Ents[c] = ents[c]
  BY <1>1, EntsPlain
<1>4. At.ino \in Inodes
  BY <1>1, RemoveAt
<1>5. \A e \in Ents[At.ino] : e.name # Task.name
  BY <1>1, <1>3, <1>4
<1>6. ~Rmdiring
  <2> SUFFICES ASSUME Rmdiring PROVE FALSE
    OBVIOUS
  <2> DEFINE n == op.first.name
  <2>1. /\ Entry(DotDot, Par).name = DotDot /\ Entry(Dot, Chd).name = Dot
    BY DEF Entry
  <2>2. CASE op.todo = RmdirTodo(n) /\ Ents[Chd] = {Entry(Dot, Chd), Entry(DotDot, Par)}
    <3>1. Task.at = "child" /\ Task.name = DotDot
      BY <2>2, Shapes
    <3> QED BY <1>5, <2>1, <2>2, <3>1 DEF At, Chd
  <2>3. CASE op.todo = Rmdir2(n) /\ Ents[Chd] = {Entry(Dot, Chd)}
    <3>1. Task.at = "child" /\ Task.name = Dot
      BY <2>3, Shapes
    <3> QED BY <1>5, <2>1, <2>3, <3>1 DEF At, Chd
  <2>4. CASE op.todo = Rmdir3(n)
    <3>1. Task.do = "reread"
      BY <2>4, Shapes
    <3> QED BY <1>1, <3>1
  <2>5. CASE op.todo = RmTodo(n) /\ op.first \in Ents[Par]
    <3>1. Task.at = "parent" /\ Task.name = n
      BY <2>5, Shapes
    <3> QED BY <1>5, <2>5, <3>1 DEF At, Par
  <2> QED BY <1>1, <2>2, <2>3, <2>4, <2>5 DEF Tree, TRmdir
<1>7. ents' = ents /\ marked' = marked /\ kind' = kind /\ pwd' = pwd /\ UNCHANGED ghost
  BY <1>1 DEF disk, ghost
<1>8. Ents' = Ents
  <2>1. \A c \in Inodes : Ents'[c] = ents'[c]
    BY <1>2 DEF Ents
  <2> QED BY <1>3, <1>7, <2>1, EntsExt
<1>9. ~Creating /\ ~Creating' /\ ~Rmdiring'
  <2>1. op.cmd = "rm"
    BY <1>1, <1>6, RemoveCmd DEF Rmdiring
  <2> QED BY <1>1, <1>2, <2>1 DEF Creating, Rmdiring, Control, LinkOK
<1>10. TRest' /\ TCreate' /\ TRmdir'
  BY <1>1, <1>2, <1>7, <1>8, <1>9 DEF Tree, TRest, Nowhere, TCreate, TRmdir
<1> QED BY <1>1, <1>6, <1>7, <1>8, <1>9, <1>10, TreePlain

(* A stage of rmdir by the name it is to take away.                         *)
LEMMA RmdirTask ==
  ASSUME TRmdir, Rmdiring, Task.do = "unlink"
  PROVE  /\ Task.at = "child" =>
              /\ op.first \in Ents[Par] /\ op.first.ino = Chd /\ op.first.name \in Names
              /\ Par # Chd
         /\ Task.name = DotDot =>
              /\ op.todo = RmdirTodo(op.first.name) /\ Task.at = "child"
              /\ IF pc \in {"next", "drop"} THEN Ents[Chd] = {Entry(Dot, Chd), Entry(DotDot, Par)}
                 ELSE Ents[Chd] = {Entry(Dot, Chd)}
         /\ Task.name = Dot =>
              /\ op.todo = Rmdir2(op.first.name) /\ Task.at = "child"
              /\ IF pc \in {"next", "drop"} THEN Ents[Chd] = {Entry(Dot, Chd)} ELSE Ents[Chd] = {}
         /\ Task.at = "parent" =>
              /\ op.todo = RmTodo(op.first.name) /\ Ents[Chd] = {} /\ Gone
<1> DEFINE n == op.first.name
<1>1. n \in Names /\ n # Dot /\ n # DotDot /\ Dot # DotDot /\ op.first.ino = Chd /\ Par # Chd
  BY NamespaceAssumption DEF TRmdir, Dots
<1>2. CASE op.todo = RmdirTodo(n)
  <2>1. Task.at = "child" /\ Task.name = DotDot
    BY <1>2, Shapes
  <2>2. op.todo \notin {Rmdir2(n), Rmdir3(n), RmTodo(n)}
    BY <1>1, <2>1, Shapes
  <2> QED BY <1>1, <1>2, <2>1, <2>2 DEF TRmdir
<1>3. CASE op.todo = Rmdir2(n)
  <2>1. Task.at = "child" /\ Task.name = Dot
    BY <1>3, Shapes
  <2>2. op.todo \notin {RmdirTodo(n), Rmdir3(n), RmTodo(n)}
    BY <1>1, <2>1, Shapes
  <2> QED BY <1>1, <1>3, <2>1, <2>2 DEF TRmdir
<1>4. CASE op.todo = RmTodo(n)
  <2>1. Task.at = "parent" /\ Task.name = n
    BY <1>4, Shapes
  <2>2. op.todo \notin {RmdirTodo(n), Rmdir2(n), Rmdir3(n)}
    BY <1>1, <2>1, Shapes
  <2> QED BY <1>1, <1>4, <2>1, <2>2 DEF TRmdir
<1>5. op.todo # Rmdir3(n)
  BY Shapes
<1> QED BY <1>2, <1>3, <1>4, <1>5 DEF TRmdir

LEMMA NotCreating ==
  ASSUME Control, op.cmd \in {"rm", "rmdir"}
  PROVE  ~Creating
BY DEF Creating, Control, LinkOK

LEMMA TreeHide == Control /\ Tree /\ Hide => Tree'
<1> SUFFICES ASSUME Control, Tree, Hide PROVE Tree'
  OBVIOUS
<1>1. /\ pc = "next" /\ op.todo # <<>> /\ Task.do = "unlink" /\ pc' = "drop"
      /\ UNCHANGED <<marked, kind, pwd, hdl, torn, leaked, spilt, dropped>>
  BY DEF Hide, Doing, ghost
<1>2. At.ino \in Inodes
  BY <1>1, RemoveAt
<1>3. PICK e \in ents[At.ino] : \E late \in BOOLEAN :
        /\ op.cmd = "rmdir" /\ Task.at = "parent" => e = op.first
        /\ op' = [op EXCEPT !.e = e, !.late = late]
        /\ ents' = IF late THEN ents ELSE [ents EXCEPT ![At.ino] = @ \ {e}]
  BY Zenon DEF Hide
<1>4. PICK late \in BOOLEAN :
        /\ op.cmd = "rmdir" /\ Task.at = "parent" => e = op.first
        /\ op' = [op EXCEPT !.e = e, !.late = late]
        /\ ents' = IF late THEN ents ELSE [ents EXCEPT ![At.ino] = @ \ {e}]
  BY Zenon, <1>3
<1>5. op'.e = e /\ op'.todo = op.todo /\ op'.cmd = op.cmd /\ op'.first = op.first
  BY <1>4 DEF Control, TypeInv
<1>6. Par' = Par /\ Chd' = Chd /\ Task' = Task /\ At' = At
  BY <1>1, <1>5 DEF Par, Chd, At, Task
<1>7. Ents' = Ents
  <2>1. \A c \in Inodes : Ents[c] = ents[c]
    BY <1>1, EntsPlain
  <2>2. Ents'[At.ino] = ents'[At.ino] \cup {e} /\ \A c \in Inodes \ {At.ino} : Ents'[c] = ents'[c]
    BY <1>1, <1>2, <1>5, <1>6 DEF Ents
  <2>3. ents'[At.ino] \cup {e} = ents[At.ino] /\ \A c \in Inodes \ {At.ino} : ents'[c] = ents[c]
    BY <1>2, <1>3, <1>4 DEF Control, TypeInv
  <2> QED BY <2>1, <2>2, <2>3, EntsExt
<1>8. ~Creating /\ ~Creating' /\ Rmdiring' = Rmdiring
  BY <1>1, <1>5, RemoveCmd, NotCreating DEF Creating, Rmdiring
<1>9. TEntries' /\ TUnique'
  BY <1>1, <1>7 DEF Tree, TEntries, TEntry, TUnique
<1>10. TNamed'
  BY <1>1, <1>7, <1>8 DEF Tree, TNamed, Unnamed
<1>11. TUp' /\ TDot'
  BY <1>1, <1>6, <1>7, <1>8 DEF Tree, TUp, TDot, Unled
<1>12. TRest' /\ TCreate'
  BY <1>1, <1>7, <1>8 DEF Tree, TRest, Nowhere, TCreate
<1>13. TRmdir'
  <2>1. op.todo = RmTodo(op.first.name) => Task.at = "parent"
    BY Shapes
  <2> QED BY <1>1, <1>4, <1>5, <1>6, <1>7, <1>8, <2>1 DEF Tree, TRmdir, Rmdiring, Gone
<1> QED BY <1>1, <1>9, <1>10, <1>11, <1>12, <1>13 DEF Tree

LEMMA TreeClearBit == Control /\ Tree /\ ClearBit => Tree'
<1> SUFFICES ASSUME Control, Tree, ClearBit PROVE Tree'
  OBVIOUS
<1>1. /\ pc = "clear" /\ pc' \in {"wipe", "halted"} /\ op.todo # <<>> /\ Task.do = "unlink"
      /\ marked' = marked \ {op.e.ino}
      /\ UNCHANGED <<kind, links, ents, pwd, hdl, op, torn, leaked, spilt, dropped>>
  BY DEF ClearBit, Doing, ghost
<1>2. kind[op.e.ino] = "none"
  BY <1>1 DEF Control, UnlinkOK
<1>3. Par' = Par /\ Chd' = Chd /\ Task' = Task /\ At' = At
  BY <1>1 DEF Par, Chd, At, Task
<1>4. Ents' = Ents
  <2>1. \A c \in Inodes : Ents'[c] = Ents[c]
    BY <1>1, <1>3 DEF Ents
  <2> QED BY <2>1, EntsExt
<1>5. ~Creating /\ ~Creating' /\ Rmdiring' = Rmdiring
  BY <1>1 DEF Creating, Rmdiring
<1>6. TEntries'
  BY <1>1, <1>2, <1>4 DEF Tree, TEntries, TEntry
<1>7. TUnique'
  BY <1>4 DEF Tree, TUnique
<1>8. TNamed'
  BY <1>1, <1>4, <1>5 DEF Tree, TNamed, Unnamed
<1>9. TUp' /\ TDot'
  BY <1>1, <1>3, <1>4, <1>5 DEF Tree, TUp, TDot, Unled
<1>10. TRest' /\ TCreate'
  BY <1>1, <1>2, <1>4, <1>5 DEF Tree, TRest, Nowhere, TCreate
<1>11. TRmdir'
  BY <1>1, <1>3, <1>4, <1>5 DEF Tree, TRmdir, Gone
<1> QED BY <1>1, <1>6, <1>7, <1>8, <1>9, <1>10, <1>11 DEF Tree

LEMMA TreeWipeEntry == Control /\ Control' /\ Tree /\ WipeEntry => Tree'
<1> SUFFICES ASSUME Control, Control', Tree, WipeEntry PROVE Tree'
  OBVIOUS
<1>1. /\ pc = "wipe" /\ op.todo # <<>> /\ Task.do = "unlink" /\ Proceed
      /\ hdl' = [hdl EXCEPT ![Task.at] = Read(At.ino)]
      /\ ents' = [ents EXCEPT ![At.ino] = @ \ {op.e}]
      /\ UNCHANGED <<marked, kind, pwd, leaked, spilt, dropped>>
  BY DEF WipeEntry, Doing, ReadBack
<1>2. At.ino \in Inodes /\ Par' = Par /\ Chd' = Chd
  BY <1>1, RemoveAt, HandleRead DEF Control, Unlinking
<1>3. pc' = "next" /\ op'.cmd = op.cmd /\ op'.todo = Tail(op.todo) /\ op'.first = op.first
  BY <1>1, Proceeds DEF Control
<1>4. Ents' = Ents
  <2>1. \A c \in Inodes : Ents'[c] = ents'[c]
    BY <1>3 DEF Ents
  <2>2. Ents[At.ino] = ents[At.ino] \ {op.e} /\ \A c \in Inodes \ {At.ino} : Ents[c] = ents[c]
    BY <1>1, <1>2, EntsElse
  <2>3. ents'[At.ino] = ents[At.ino] \ {op.e} /\ \A c \in Inodes \ {At.ino} : ents'[c] = ents[c]
    BY <1>1, <1>2 DEF Control, TypeInv
  <2> QED BY <2>1, <2>2, <2>3, EntsExt
<1>5. op.cmd \in {"rm", "rmdir"}
  BY <1>1, RemoveCmd DEF Unlinking
<1>6. ~Creating /\ ~Creating'
  BY <1>3, <1>5, NotCreating DEF Creating, Control, LinkOK
<1>7. torn \subseteq torn' /\ (Task.name = Dot => At.ino \in torn')
  BY DEF WipeEntry, TornBy
<1>8. TEntries' /\ TUnique'
  BY <1>1, <1>4 DEF Tree, TEntries, TEntry, TUnique
<1>9. TNamed'
  BY <1>1, <1>3, <1>4, <1>6 DEF Tree, TNamed, Unnamed
<1>10. TRest' /\ TCreate'
  BY <1>1, <1>3, <1>4, <1>6 DEF Tree, TRest, Nowhere, TCreate
<1>11. CASE ~Rmdiring
  <2>1. ~Rmdiring'
    BY <1>1, <1>3, <1>11 DEF Rmdiring
  <2>2. TUp' /\ TDot' /\ TRmdir'
    BY <1>1, <1>4, <1>6, <1>7, <1>11, <2>1 DEF Tree, TUp, TDot, Unled, TRmdir
  <2> QED BY <1>1, <1>8, <1>9, <1>10, <2>2 DEF Tree
<1>12. CASE Rmdiring
  <2> DEFINE n == op.first.name
  <2>1. n \in Names /\ Par # Chd /\ op.first.ino = Chd
    BY <1>12 DEF Tree, TRmdir
  <2>2. CASE Task.at = "parent"
    <3>1. op.todo = RmTodo(n) /\ Ents[Chd] = {} /\ Gone
      BY <1>1, <1>12, <2>2, RmdirTask DEF Tree
    <3>2. \A d \in Inodes : \A e \in Ents[d] : e.name \in Names => e.ino # Chd
      <4>1. op.todo \notin {RmdirTodo(n), Rmdir2(n), Rmdir3(n)}
        BY <1>1, <2>2, Shapes
      <4> QED BY <1>1, <1>12, <4>1 DEF Tree, TRmdir
    <3>3. op'.todo = <<>> /\ ~Rmdiring'
      BY <1>3, <3>1, Shapes DEF Rmdiring
    <3>4. TUp'
      BY <1>1, <1>4, <1>6, <3>2, <3>3 DEF Tree, TUp, Unled
    <3>5. TDot'
      BY <1>1, <1>4, <1>6, <1>7, <3>1, <3>3 DEF Tree, TDot, Unled, Gone
    <3>6. TRmdir'
      BY <3>3 DEF TRmdir
    <3> QED BY <1>1, <1>8, <1>9, <1>10, <3>4, <3>5, <3>6 DEF Tree
  <2>3. CASE Task.name = DotDot
    <3>1. op.todo = RmdirTodo(n) /\ Ents[Chd] = {Entry(Dot, Chd)} /\ op.first \in Ents[Par]
      BY <1>1, <1>12, <2>3, RmdirTask DEF Tree
    <3>2. op'.todo = Rmdir2(n) /\ op'.todo # <<>>
      BY <1>3, <3>1, Shapes, NotEmpty
    <3>3. TRmdir' /\ Rmdiring'
      BY <1>2, <1>3, <1>4, <1>12, <2>1, <3>1, <3>2 DEF TRmdir, Rmdiring
    <3>4. TUp' /\ TDot'
      BY <1>1, <1>2, <1>4, <1>6, <1>7, <1>12, <3>3 DEF Tree, TUp, TDot, Unled
    <3> QED BY <1>1, <1>8, <1>9, <1>10, <3>3, <3>4 DEF Tree
  <2>4. CASE Task.name = Dot
    <3>1. op.todo = Rmdir2(n) /\ Ents[Chd] = {} /\ op.first \in Ents[Par]
      BY <1>1, <1>12, <2>4, RmdirTask DEF Tree
    <3>2. op'.todo = Rmdir3(n) /\ op'.todo # <<>>
      BY <1>3, <3>1, Shapes, NotEmpty
    <3>3. At.ino = Chd
      BY <3>1, Shapes DEF At, Chd
    <3>4. TRmdir' /\ Rmdiring'
      BY <1>2, <1>3, <1>4, <1>7, <1>12, <2>1, <2>4, <3>1, <3>2, <3>3 DEF TRmdir, Rmdiring, Gone
    <3>5. TUp' /\ TDot'
      BY <1>1, <1>2, <1>4, <1>6, <1>7, <1>12, <3>4 DEF Tree, TUp, TDot, Unled
    <3> QED BY <1>1, <1>8, <1>9, <1>10, <3>4, <3>5 DEF Tree
  <2>5. Task.at = "parent" \/ Task.name \in Dots
    BY <1>1, <1>12, Shapes DEF Tree, TRmdir, Dots
  <2> QED BY <2>2, <2>3, <2>4, <2>5 DEF Dots
<1> QED BY <1>11, <1>12

(* What follows from each name that a command gives.                        *)
LEMMA TreeCountLink == Control /\ Control' /\ Tree /\ PlainCountLink => Tree'
<1> SUFFICES ASSUME Control, Control', Tree, PlainCountLink PROVE Tree'
  OBVIOUS
<1> DEFINE e == Written
           d == At.ino
<1>1. /\ pc = "count" /\ op.todo # <<>> /\ Task.do = "link" /\ Proceed
      /\ hdl' = [hdl EXCEPT ![Task.to].links = Inc16(@)]
      /\ UNCHANGED <<marked, kind, pwd, torn, leaked, spilt, dropped>>
  BY DEF PlainCountLink, Doing, ghost
<1>2. pc' = "next" /\ op'.cmd = op.cmd /\ op'.todo = Tail(op.todo) /\ Task' = Head(op'.todo)
  BY <1>1, Proceeds DEF Control, Task
<1>3. /\ Par \in Inodes /\ Chd \in Inodes /\ kind[Par] = "dir" /\ kind[Chd] # "none" /\ Chd # Par
      /\ Task.to \in {"parent", "child"} /\ hdl \in [parent : Handle, child : Handle]
  BY <1>1, LinkAt DEF Control, TypeInv
<1>4. Par' = Par /\ Chd' = Chd
  BY <1>1, <1>3 DEF Par, Chd, Handle
<1>5. Gains(Ents, Ents', d, e)
  BY CountGains
<1>6. d \in Inodes /\ e \in Ents'[d] /\ \A c \in Inodes : Ents[c] \subseteq Ents'[c]
  BY <1>5 DEF Gains
<1>7. \A c \in Inodes : \A x \in Ents'[c] : x \in Ents[c] \/ (c = d /\ x = e)
  BY <1>5 DEF Gains
<1>8. /\ Creating /\ ~Rmdiring /\ ~Rmdiring' /\ Par \notin torn \cup leaked
      /\ Chd \notin leaked \cup dropped /\ Chd # Root
  BY <1>1, <1>2 DEF Creating, Rmdiring, Control, LinkOK, Tree, TCreate
<1>9. Chd \in marked /\ Par \in marked /\ Entry(Dot, Par) \in Ents[Par]
  BY <1>3, <1>8 DEF Control, DiskOK, Tree, TDot, Unled
<1>10. /\ e.name = Task.name /\ e.ino = hdl[Task.to].ino
  BY DEF Written, Entry
<1> HIDE DEF e, d
<1>11. ASSUME \A c, x : c = d /\ x = e => TEntry(c, x)', TUnique', TNamed', TUp', TDot', TCreate'
       PROVE  Tree'
  <2>1. TEntries'
    <3>1. ASSUME NEW c \in Inodes, NEW x \in Ents[c]
          PROVE  TEntry(c, x)'
      BY <1>1, <1>6 DEF Tree, TEntries, TEntry
    <3> QED BY <1>7, <1>11, <3>1 DEF TEntries
  <2>2. TRest'
    BY <1>1, <1>2, <1>6 DEF Tree, TRest, Nowhere, Control, TypeInv
  <2>3. TRmdir'
    BY <1>8 DEF TRmdir
  <2> QED BY <1>1, <1>11, <2>1, <2>2, <2>3 DEF Tree
<1>12. \A c \in Inodes : \A x \in Ents[c] : x.ino \in Inodes
  BY DEF Tree, TEntries, TEntry, Control, TypeInv
<1>13. CASE \E n \in Names : \/ op.todo = MkdirTodo(n)
                             \/ op.todo = CpTodo(n) /\ kind[Chd] = "file"
  <2>1. PICK n \in Names : \/ op.todo = MkdirTodo(n)
                           \/ op.todo = CpTodo(n) /\ kind[Chd] = "file"
    BY <1>13
  <2>2. Task.at = "parent" /\ Task.to = "child" /\ Task.name = n
    BY <2>1, Shapes
  <2>3. d = Par /\ e.ino = Chd /\ e.name = n
    BY <1>10, <2>2 DEF d, At, Par, Chd
  <2>4. \A c \in Inodes : \A x \in Ents[c] : x.ino # Chd
    BY <1>8, <2>2 DEF Tree, TCreate
  <2>5. \/ Creating' /\ Task'.at = "child"
        \/ ~Creating' /\ kind[Chd] = "file"
    <3>1. CASE op.todo = MkdirTodo(n)
      <4>1. op'.todo = Mkdir2
        BY <1>2, <3>1, Shapes
      <4> QED BY <1>2, <4>1, DotShapes DEF Creating
    <3>2. CASE op.todo = CpTodo(n) /\ kind[Chd] = "file"
      <4>1. op'.todo = <<>>
        BY <1>2, <3>2, Shapes
      <4> QED BY <3>2, <4>1 DEF Creating
    <3> QED BY <2>1, <3>1, <3>2
  <2>6. \A c, x : c = d /\ x = e => TEntry(c, x)'
    BY <1>1, <1>3, <1>6, <1>8, <1>9, <2>3, NamespaceAssumption DEF TEntry, Dots
  <2>7. TUnique'
    BY <1>7, <2>3, <2>4, NamespaceAssumption DEF Tree, TUnique, Dots
  <2>8. TNamed'
    BY <1>1, <1>2, <1>4, <1>6, <1>8, <2>3 DEF Tree, TNamed, Unnamed
  <2>9. TUp'
    BY <1>1, <1>4, <1>6, <1>7, <1>8, <1>12, <2>3, <2>4, <2>5 DEF Tree, TUp, Unled
  <2>10. TDot'
    BY <1>1, <1>4, <1>6, <1>8, <2>5 DEF Tree, TDot, Unled
  <2>11. TCreate'
    <3>1. e = Entry(n, Chd)
      BY <2>2, <2>3 DEF e, Written, Chd
    <3> QED BY <1>1, <1>2, <1>4, <1>6, <1>8, <2>3, <2>5, <3>1 DEF TCreate
  <2> QED BY <1>11, <2>6, <2>7, <2>8, <2>9, <2>10, <2>11
<1>14. CASE op.todo = Mkdir2
  <2>1. Task.at = "child" /\ Task.to = "child" /\ Task.name = Dot
    BY <1>14, DotShapes
  <2>2. d = Chd /\ e.ino = Chd /\ e.name = Dot /\ e = Entry(Dot, Chd)
    BY <1>10, <2>1 DEF d, At, Chd, e, Written
  <2>3. Creating' /\ Task'.at = "child"
    <3>1. op'.todo = Mkdir3
      BY <1>2, <1>14, DotShapes
    <3> QED BY <1>2, <3>1, DotShapes DEF Creating
  <2>4. \A c, x : c = d /\ x = e => TEntry(c, x)'
    BY <1>1, <1>3, <1>6, <1>8, <1>9, <2>2, NamespaceAssumption DEF TEntry, Dots
  <2>5. TUnique'
    BY <1>7, <2>2, NamespaceAssumption DEF Tree, TUnique, Dots
  <2>6. TNamed'
    BY <1>1, <1>2, <1>4, <1>6, <1>8, <2>1 DEF Tree, TNamed, Unnamed
  <2>7. TUp'
    BY <1>1, <1>4, <1>6, <1>7, <1>8, <1>12, <2>2, <2>3, NamespaceAssumption DEF Tree, TUp, Unled, Dots
  <2>8. TDot'
    BY <1>1, <1>4, <1>6, <1>8, <2>3 DEF Tree, TDot, Unled
  <2>9. TCreate'
    BY <1>1, <1>2, <1>3, <1>4, <1>6, <1>8, <2>1, <2>3 DEF Tree, TCreate
  <2> QED BY <1>11, <2>4, <2>5, <2>6, <2>7, <2>8, <2>9
<1>15. CASE op.todo = Mkdir3
  <2>1. Task.at = "child" /\ Task.to = "parent" /\ Task.name = DotDot
    BY <1>15, DotShapes
  <2>2. d = Chd /\ e.ino = Par /\ e.name = DotDot /\ e = Entry(DotDot, Par)
    BY <1>10, <2>1 DEF d, At, Chd, Par, e, Written
  <2>3. ~Creating'
    <3>1. op'.todo = <<>>
      BY <1>2, <1>15, DotShapes
    <3> QED BY <3>1 DEF Creating
  <2>4. Ents[Chd] = {Entry(Dot, Chd)}
    <3>1. ents[Chd] = {Entry(Dot, Chd)} \cup {Entry(DotDot, Par)}
      <4>1. op.todo # Mkdir2 /\ \A n \in Names : op.todo \notin {MkdirTodo(n), CpTodo(n)}
        BY <2>1, Shapes, DotShapes, NamespaceAssumption
      <4> QED BY <1>1, <4>1 DEF Control, LinkOK
    <3>2. Entry(Dot, Chd) # Entry(DotDot, Par)
      <4>1. Entry(Dot, Chd).name = Dot /\ Entry(DotDot, Par).name = DotDot
        BY DEF Entry
      <4> QED BY <4>1, NamespaceAssumption
    <3>3. Ents[Chd] = ents[Chd] \ {e}
      BY <1>1, <1>3, <2>2, EntsElse DEF d, e
    <3> QED BY <2>2, <3>1, <3>2, <3>3
  <2>5. Entry(Dot, Chd).name = Dot
    BY DEF Entry
  <2>6. \A c, x : c = d /\ x = e => TEntry(c, x)'
    BY <1>1, <1>3, <1>6, <1>8, <1>9, <2>2, <2>4, NamespaceAssumption DEF TEntry, Dots
  <2>7. TUnique'
    <3>1. \A x \in Ents[Chd] : x.name # DotDot
      BY <2>4, <2>5, NamespaceAssumption
    <3> QED BY <1>7, <2>2, <3>1, NamespaceAssumption DEF Tree, TUnique, Dots
  <2>8. TNamed'
    BY <1>1, <1>2, <1>4, <1>6, <1>8, <2>1 DEF Tree, TNamed, Unnamed
  <2>9. TUp'
    <3>1. PICK n \in Names : Entry(n, Chd) \in Ents[Par]
      BY <1>8, <2>1 DEF Tree, TCreate
    <3>2. Entry(n, Chd).name \in Names /\ Entry(n, Chd).ino = Chd
      BY DEF Entry
    <3>3. ASSUME NEW c \in Inodes, NEW x \in Ents[c], x.name \in Names, x.ino = Chd
          PROVE  c = Par
      BY <1>3, <3>1, <3>2, <3>3 DEF Tree, TUnique
    <3> QED BY <1>1, <1>4, <1>6, <1>7, <1>12, <2>2, <3>3, NamespaceAssumption DEF Tree, TUp, Unled, Dots
  <2>10. TDot'
    BY <1>1, <1>4, <1>6, <2>4 DEF Tree, TDot, Unled
  <2>11. TCreate'
    BY <1>2, <2>3 DEF TCreate
  <2> QED BY <1>11, <2>6, <2>7, <2>8, <2>9, <2>10, <2>11
<1> QED BY <1>1, <1>13, <1>14, <1>15 DEF Control, LinkOK

(* No drift at all.                                                         *)
LEMMA SameEqual ==
  ASSUME NEW a \in 0 .. U16 - 1, NEW b \in 0 .. U16 - 1, Same16(a, b)
  PROVE  a = b
<1>1. a - b \in Wraps
  BY DEF Same16
<1>2. a - b # 0 => a - b >= U16 \/ a - b <= 0 - U16
  BY <1>1, WrapsApart
<1> QED BY <1>2, Width

LEMMA DriftNone ==
  ASSUME NEW E, NEW L, NEW B, Finite(E), Drifted(E, L, B, 0)
  PROVE  /\ \A i \in Inodes : Same16(L[i], Count(E, i))
         /\ \A i \in B \cap Inodes : Count(E, i) = 0
<1>1. PICK dr \in [Inodes -> Int] : DriftBy(dr, E, L, B) /\ Size(dr) <= 0
  BY DEF Drifted
<1> DEFINE g == [i \in Inodes |-> Abs(dr[i])]
<1>2. \A i \in Inodes : Abs(dr[i]) \in Nat
  BY SMT DEF Abs
<1>3. g \in [Inodes -> Nat]
  BY <1>2
<1>4. Cells(g) = {}
  <2>1. IsFiniteSet(Cells(g)) /\ Cardinality(Cells(g)) \in Nat
    <3> HIDE DEF g
    <3> QED BY <1>3, CellsFinite
  <2>2. Cardinality(Cells(g)) <= 0
    BY <1>1 DEF Size
  <2> HIDE DEF g
  <2> QED BY <2>1, <2>2, FS_EmptySet
<1>5. ASSUME NEW i \in Inodes PROVE dr[i] = 0
  <2>1. g[i] = 0
    <3> HIDE DEF g
    <3>1. g[i] \in Nat /\ (g[i] # 0 => 1 \in 1 .. g[i])
      BY <1>3
    <3>2. 1 \notin 1 .. g[i]
      BY <1>3, <1>4, CellsAt
    <3> QED BY <3>1, <3>2
  <2>2. Abs(dr[i]) = 0 /\ dr[i] \in Int
    BY <2>1
  <2> QED BY <2>2, SMT DEF Abs
<1>6. \A i \in Inodes : Count(E, i) \in Nat
  BY NamedFinite
<1>7. \A i \in Inodes : Count(E, i) + dr[i] = Count(E, i)
  BY <1>5, <1>6
<1> QED BY <1>1, <1>5, <1>6, <1>7 DEF DriftBy

(* A count is zero when there is no name.                                   *)
LEMMA CountZero ==
  ASSUME NEW E, Finite(E), NEW i
  PROVE  Count(E, i) = 0 <=> \A c \in Inodes : \A x \in E[c] : x.ino # i
<1>1. Count(E, i) = 0 <=> Named(E, i) = {}
  BY NamedFinite, FS_EmptySet DEF Count
<1>2. ASSUME Named(E, i) = {}, NEW c \in Inodes, NEW x \in E[c]
      PROVE  x.ino # i
  <2>1. x.ino = i => <<c, x>> \in Named(E, i)
    BY NamedMember
  <2> QED BY <1>2, <2>1
<1>3. ASSUME \A c \in Inodes : \A x \in E[c] : x.ino # i
      PROVE  Named(E, i) = {}
  <2>1. \A de : de \notin Named(E, i)
    BY <1>3, NamedMember
  <2> QED BY <2>1
<1> QED BY <1>1, <1>2, <1>3

(* A link count reaches zero with the last name.                            *)
LEMMA LastName ==
  ASSUME Control, Control', Drift, FewNames, DropLink, crashes = 0, spilt = 0
  PROVE  LinksLeft(op.e.ino) = 0 <=> \A c \in Inodes : \A x \in Dropped[c] : x.ino # op.e.ino
<1> DEFINE i == op.e.ino
<1>1. /\ i \in Inodes /\ Finite(Dropped) /\ Drifted(Dropped, links', Zero, 0)
  BY DropLoses, Width
<1>2. links'[i] = LinksLeft(i) /\ links'[i] \in 0 .. U16 - 1
  BY <1>1 DEF DropLink, Control, TypeInv
<1>3. Same16(links'[i], Count(Dropped, i))
  BY <1>1, DriftNone
<1>4. Count(Dropped, i) \in 0 .. U16 - 1
  <2>1. Finite(ents) /\ \A c \in Inodes : Dropped[c] \subseteq ents[c]
    BY DEF Control, TypeInv, Dropped
  <2>2. 2 * Count(ents, i) < U16
    BY <1>1, NamingAll DEF FewNames
  <2> HIDE DEF i
  <2>3. 2 * Count(Dropped, i) < U16 /\ Count(Dropped, i) \in Nat
    BY <1>1, <2>1, <2>2, FewLess, NamedFinite
  <2> QED BY <2>3, Width
<1>5. LinksLeft(i) = Count(Dropped, i)
  <2> HIDE DEF i
  <2> QED BY <1>2, <1>3, <1>4, SameEqual
<1> QED BY <1>1, <1>5, CountZero

(* The name that a command is taking away.                                  *)
TakesName ==
  /\ At.ino = Par /\ op.e.name \in Names
  /\ Rmdiring => /\ op.todo = RmTodo(op.first.name) /\ op.e = op.first /\ Par # Chd
                 /\ op.first.ino = Chd /\ op.first.name \in Names
                 /\ Ents[Chd] = {} /\ Gone

TakesDots ==
  /\ Rmdiring /\ At.ino = Chd /\ Par # Chd
  /\ op.first \in Ents[Par] /\ op.first.ino = Chd /\ op.first.name \in Names
  /\ \/ /\ op.todo = RmdirTodo(op.first.name) /\ op.e = Entry(DotDot, Par)
        /\ Ents[Chd] = {Entry(Dot, Chd), Entry(DotDot, Par)}
     \/ /\ op.todo = Rmdir2(op.first.name) /\ op.e = Entry(Dot, Chd)
        /\ Ents[Chd] = {Entry(Dot, Chd)}

LEMMA Takes ==
  ASSUME Control, Tree, pc = "drop", op.todo # <<>>, Task.do = "unlink"
  PROVE  /\ At.ino \in Inodes /\ Par \in Inodes /\ op.e \in Ents[At.ino]
         /\ TakesName \/ TakesDots
<1>1. At.ino \in Inodes /\ Par \in Inodes
  BY RemoveAt DEF Unlinking
<1>2. op.e \in Ents[At.ino]
  BY <1>1, EntsElse
<1>3. op.e.name = Task.name
  BY DEF Control, UnlinkOK, Unlinking
<1>4. CASE ~Rmdiring
  <2>1. PICK n \in Names : Removing(n)
    BY RemoveAt DEF Unlinking
  <2>2. op.todo = RmTodo(n)
    BY <1>4, <2>1 DEF Removing, Rmdiring
  <2>3. Task.at = "parent" /\ Task.name = n
    BY <2>2, Shapes
  <2> QED BY <1>1, <1>2, <1>3, <1>4, <2>3 DEF TakesName, At, Par
<1>5. CASE Rmdiring
  <2>1. op.first.name \in Names /\ op.first.ino = Chd /\ Par # Chd
    BY <1>5 DEF Tree, TRmdir
  <2>2. /\ Entry(Dot, Chd).name = Dot /\ Entry(DotDot, Par).name = DotDot
    BY DEF Entry
  <2>3. CASE Task.at = "parent"
    <3>1. op.todo = RmTodo(op.first.name) /\ Ents[Chd] = {} /\ Gone
      BY <1>5, <2>3, RmdirTask DEF Tree
    <3>2. Task.name = op.first.name
      BY <3>1, Shapes
    <3>3. op.e = op.first
      <4>1. op.todo \notin {RmdirTodo(op.first.name), Rmdir2(op.first.name), Rmdir3(op.first.name)}
        BY <2>1, <2>3, Shapes
      <4> QED BY <1>5, <4>1 DEF Tree, TRmdir
    <3> QED BY <1>1, <1>2, <1>3, <2>1, <2>3, <3>1, <3>2, <3>3 DEF TakesName, At, Par
  <2>4. CASE Task.name = DotDot
    <3>1. /\ op.todo = RmdirTodo(op.first.name) /\ Task.at = "child" /\ op.first \in Ents[Par]
          /\ Ents[Chd] = {Entry(Dot, Chd), Entry(DotDot, Par)}
      BY <1>5, <2>4, RmdirTask DEF Tree
    <3>2. At.ino = Chd
      BY <3>1 DEF At, Chd
    <3>3. op.e = Entry(DotDot, Par)
      BY <1>2, <1>3, <2>2, <2>4, <3>1, <3>2, NamespaceAssumption
    <3> QED BY <1>1, <1>2, <1>5, <2>1, <3>1, <3>2, <3>3 DEF TakesDots
  <2>5. CASE Task.name = Dot
    <3>1. /\ op.todo = Rmdir2(op.first.name) /\ Task.at = "child" /\ op.first \in Ents[Par]
          /\ Ents[Chd] = {Entry(Dot, Chd)}
      BY <1>5, <2>5, RmdirTask DEF Tree
    <3>2. At.ino = Chd
      BY <3>1 DEF At, Chd
    <3> QED BY <1>1, <1>2, <1>5, <2>1, <3>1, <3>2 DEF TakesDots
  <2>6. Task.at = "parent" \/ Task.name \in Dots
    BY <1>5, Shapes DEF Tree, TRmdir, Dots
  <2> QED BY <2>3, <2>4, <2>5, <2>6 DEF Dots
<1> QED BY <1>4, <1>5

(* A freed inode had no entries, so that only the name goes.                *)
LEMMA DropEnts ==
  ASSUME Control, Control', Drift, FewNames, Tree, DropLink, crashes = 0
  PROVE  Ents' = Dropped /\ spilt' = 0
<1> DEFINE i == op.e.ino
           d == At.ino
<1>1. /\ pc = "drop" /\ op.todo # <<>> /\ Task.do = "unlink" /\ spilt = 0
      /\ IF LinksLeft(i) = 0
         THEN ents' = [ents EXCEPT ![i] = {}] /\ spilt' = spilt + Cardinality(ents[i])
         ELSE UNCHANGED <<ents, spilt>>
  BY DEF DropLink, Doing, Tree
<1>2. /\ i \in Inodes /\ d \in Inodes /\ Gains(Dropped, Ents, d, op.e)
      /\ \A c \in Inodes : Ents'[c] = IF c = d THEN ents'[c] \ {op.e} ELSE ents'[c]
  BY DropLoses
<1>3. ASSUME LinksLeft(i) = 0 PROVE ents[i] = {}
  <2> SUFFICES ASSUME NEW x \in ents[i] PROVE FALSE
    OBVIOUS
  <2>1. \A c \in Inodes : \A y \in Dropped[c] : y.ino # i
    BY <1>1, <1>3, LastName
  <2>2. x \in Ents[i]
    BY <1>1, <1>2, EntsElse
  <2>3. Entry(Dot, i) \in Ents[i] /\ Entry(Dot, i).ino = i /\ Entry(Dot, i).name = Dot
    BY <1>2, <2>2 DEF Tree, TEntries, TEntry, Entry
  <2>4. i = d /\ op.e = Entry(Dot, i)
    BY <1>2, <2>1, <2>3 DEF Gains
  <2>5. TakesDots /\ Par \in Inodes
    <3>1. op.e.name \notin Names
      BY <2>3, <2>4, NamespaceAssumption DEF Dots
    <3> QED BY <1>1, <3>1, Takes DEF TakesName
  <2>6. op.first \in Dropped[Par] /\ op.first.ino = i
    BY <1>2, <2>4, <2>5 DEF TakesDots, Gains
  <2> QED BY <2>1, <2>5, <2>6
<1>4. \A c \in Inodes : ents'[c] = ents[c]
  <2>1. LinksLeft(i) = 0 => ents'[i] = {} /\ \A c \in Inodes \ {i} : ents'[c] = ents[c]
    BY <1>1, <1>2 DEF Control, TypeInv
  <2> QED BY <1>1, <1>2, <1>3, <2>1
<1>5. spilt' = 0
  <2>1. LinksLeft(i) = 0 => Cardinality(ents[i]) = 0
    BY <1>3, FS_EmptySet
  <2> QED BY <1>1, <2>1
<1>6. \A c \in Inodes : Ents'[c] = Dropped[c]
  BY <1>2, <1>4 DEF Dropped
<1>7. Ents' = [c \in Inodes |-> Ents'[c]] /\ Dropped = [c \in Inodes |-> Dropped[c]]
  BY DEF Ents, Dropped
<1>8. Ents' = Dropped
  BY <1>6, <1>7, Zenon
<1> QED BY <1>5, <1>8

LEMMA ChildOf ==
  ASSUME Control, pc \in Unlinking, op.cmd = "rmdir", op.todo # <<>>, Task.do = "unlink"
  PROVE  Chd \in Inodes
BY DEF Control, RemoveOK

LEMMA TreeDropLink ==
  ASSUME Control, Control', Drift, FewNames, Tree, DropLink, crashes = 0
  PROVE  Tree'
<1> DEFINE e == op.e
           i == op.e.ino
           d == At.ino
<1>1. /\ pc = "drop" /\ op.todo # <<>> /\ Task.do = "unlink"
      /\ IF LinksLeft(i) = 0
         THEN /\ kind' = [kind EXCEPT ![i] = "none"] /\ pc' = "clear" /\ dropped' = dropped
              /\ torn' = torn \ {i}
         ELSE /\ pc' = "wipe" /\ kind' = kind /\ torn' = torn
              /\ dropped' = IF Task.name \in Names /\ kind[i] = "dir"
                            THEN dropped \cup {i} ELSE dropped
      /\ UNCHANGED <<marked, pwd, hdl, op, leaked>>
  BY DEF DropLink, Doing
<1>2. Par' = Par /\ Chd' = Chd /\ Task' = Task /\ At' = At
  BY <1>1 DEF Par, Chd, At, Task
<1>3. Ents' = Dropped /\ spilt' = 0
  BY DropEnts
<1>4. i \in Inodes /\ d \in Inodes /\ Gains(Ents', Ents, d, e)
  BY <1>3, DropLoses
<1>5. /\ e \in Ents[d] /\ Ents'[d] = Ents[d] \ {e} /\ \A c \in Inodes : Ents'[c] \subseteq Ents[c]
      /\ \A c \in Inodes \ {d} : Ents'[c] = Ents[c]
  BY <1>4 DEF Gains
<1>6. LinksLeft(i) = 0 <=> \A c \in Inodes : \A x \in Ents'[c] : x.ino # i
  BY <1>3, LastName DEF Tree
<1>7. Par \in Inodes /\ (TakesName \/ TakesDots)
  BY <1>1, Takes
<1>8. e.name = Task.name
  BY <1>1 DEF Control, UnlinkOK, Unlinking
<1>9. ~Creating /\ ~Creating' /\ Rmdiring' = Rmdiring
  BY <1>1 DEF Creating, Rmdiring
<1>10. \A c \in Inodes : c # i => kind'[c] = kind[c]
  BY <1>1, <1>4 DEF Control, TypeInv
<1>11. \A c \in Inodes : kind'[c] # "none" => kind'[c] = kind[c]
  BY <1>1, <1>4 DEF Control, TypeInv
<1>12. \A c \in Inodes : \A x \in Ents'[c] : x.ino \in Inodes /\ kind'[x.ino] = kind[x.ino]
  <2>1. \A c \in Inodes : \A x \in Ents'[c] : x.ino \in Inodes
    BY <1>5 DEF Tree, TEntries, TEntry, Control, TypeInv
  <2> QED BY <1>1, <1>6, <1>10, <2>1
<1>13. /\ \A a, b : Entry(a, b).name = a /\ Entry(a, b).ino = b
       /\ Dot # DotDot /\ Dot \notin Names /\ DotDot \notin Names
  BY NamespaceAssumption DEF Entry, Dots
<1>14. ASSUME NEW c \in Inodes, Entry(Dot, c) \in Ents[c], Entry(Dot, c) \notin Ents'[c]
       PROVE  TakesDots /\ c = Chd /\ e = Entry(Dot, Chd) /\ Ents'[c] = {}
  <2>1. c = d /\ e = Entry(Dot, c)
    BY <1>5, <1>14
  <2>2. TakesDots
    BY <1>7, <1>13, <2>1 DEF TakesName
  <2>3. c = Chd /\ Ents[Chd] = {Entry(Dot, Chd)}
    BY <1>13, <2>1, <2>2 DEF TakesDots
  <2> QED BY <1>5, <2>1, <2>2, <2>3
<1>15. TEntries'
  <2> SUFFICES ASSUME NEW c \in Inodes, NEW x \in Ents'[c]
               PROVE  TEntry(c, x)'
    BY DEF TEntries
  <2>1. x \in Ents[c] /\ TEntry(c, x)
    BY <1>5 DEF Tree, TEntries
  <2>2. kind'[x.ino] = kind[x.ino]
    BY <1>12
  <2>3. Entry(Dot, c) \in Ents'[c]
    BY <1>14, <2>1 DEF TEntry
  <2>4. x.name \in Names => x.ino \notin dropped'
    <3>1. ASSUME x.name \in Names, x.ino \notin dropped, x.ino \in dropped' PROVE FALSE
      <4>1. x.ino = i /\ e.name \in Names
        BY <1>1, <1>8, <3>1
      <4>2. c = d /\ x = e
        BY <1>4, <1>5, <2>1, <3>1, <4>1 DEF Tree, TUnique
      <4> QED BY <1>5, <4>2
    <3> QED BY <2>1, <3>1 DEF TEntry
  <2> QED BY <1>1, <2>1, <2>2, <2>3, <2>4 DEF TEntry
<1>16. TUnique'
  BY <1>5 DEF Tree, TUnique
<1>17. TNamed'
  <2> SUFFICES ASSUME NEW j \in marked \ ({Root} \cup leaked \cup dropped'), ~Unnamed(j)'
               PROVE  \E c \in Inodes : \E x \in Ents'[c] : x.name \in Names /\ x.ino = j
    BY <1>1 DEF TNamed
  <2>1. j \notin dropped /\ ~Unnamed(j)
    BY <1>1, <1>9 DEF Unnamed
  <2>2. PICK c \in Inodes : \E x \in Ents[c] : x.name \in Names /\ x.ino = j
    BY <2>1 DEF Tree, TNamed
  <2>3. PICK x \in Ents[c] : x.name \in Names /\ x.ino = j
    BY <2>2
  <2>4. CASE x \in Ents'[c]
    BY <2>3, <2>4
  <2>5. CASE x \notin Ents'[c]
    <3>1. c = d /\ x = e /\ j = i /\ e.name \in Names
      BY <1>5, <2>3, <2>5
    <3>2. LinksLeft(i) # 0
      BY <1>1, <3>1 DEF Unnamed
    <3>3. kind[i] # "dir"
      BY <1>1, <1>8, <3>1, <3>2
    <3>4. PICK c2 \in Inodes : \E y \in Ents'[c2] : y.ino = i
      BY <1>6, <3>2
    <3>5. PICK y \in Ents'[c2] : y.ino = i
      BY <3>4
    <3>6. y \in Ents[c2] /\ y.name \in Names \cup Dots
          /\ (y.name = Dot => c2 = i) /\ y.name # DotDot
      BY <1>5, <3>3, <3>5 DEF Tree, TEntries, TEntry
    <3>7. y.name # Dot
      <4>1. y \in ents[c2]
        BY <1>3, <3>5 DEF Dropped
      <4> QED BY <1>4, <3>3, <3>6, <4>1 DEF Control, DiskOK
    <3> QED BY <3>1, <3>5, <3>6, <3>7 DEF Dots
  <2> QED BY <2>4, <2>5
<1>18. TUp'
  <2> SUFFICES ASSUME NEW c \in Inodes, NEW x \in Ents'[c], x.name \in Names,
                      kind'[x.ino] = "dir", ~Unled(x.ino)'
               PROVE  Entry(DotDot, c) \in Ents'[x.ino]
    BY DEF TUp
  <2>1. ~Unled(x.ino) /\ x.ino \in Inodes
    BY <1>2, <1>9, <1>12 DEF Unled
  <2>2. Entry(DotDot, c) \in Ents[x.ino]
    BY <1>5, <1>12, <2>1 DEF Tree, TUp
  <2>3. Entry(DotDot, c) = e /\ x.ino = d => Unled(x.ino)
    BY <1>7, <1>13 DEF TakesName, TakesDots, Unled
  <2> QED BY <1>5, <2>1, <2>2, <2>3
<1>19. TDot'
  <2> SUFFICES ASSUME NEW c \in Inodes \ (torn' \cup leaked), kind'[c] = "dir", ~Unled(c)'
               PROVE  Entry(Dot, c) \in Ents'[c]
    BY <1>1 DEF TDot
  <2>1. ~Unled(c) /\ kind[c] = "dir" /\ c \notin torn
    <3>1. LinksLeft(i) = 0 => kind'[i] = "none"
      BY <1>1, <1>4 DEF Control, TypeInv
    <3> QED BY <1>1, <1>2, <1>9, <1>11, <3>1 DEF Unled
  <2>2. Entry(Dot, c) \in Ents[c]
    BY <2>1 DEF Tree, TDot
  <2> QED BY <1>14, <2>1, <2>2 DEF Unled, TakesDots
<1>20. TRest'
  <2>1. /\ Root \in Inodes /\ Root \in marked \ leaked /\ kind[Root] = "dir"
        /\ Entry(Dot, Root) \in Ents[Root]
    BY Width DEF Tree, TRest
  <2>2. Entry(Dot, Root) \in Ents'[Root]
    <3>1. TakesDots => Root # Chd
      BY <1>7 DEF TakesDots, Tree, TEntries, TEntry
    <3> QED BY <1>14, <2>1, <3>1
  <2>3. kind'[Root] = "dir"
    BY <1>12, <1>13, <2>1, <2>2
  <2>4. kind'[pwd] = "dir" => pwd \notin leaked
    BY <1>1, <1>11 DEF Tree, TRest, Nowhere, Control, TypeInv
  <2> QED BY <1>1, <2>1, <2>2, <2>3, <2>4 DEF TRest
<1>21. TCreate'
  BY <1>1, <1>9 DEF TCreate
<1>22. TRmdir'
  <2> SUFFICES ASSUME Rmdiring PROVE TRmdir'
    BY <1>9 DEF TRmdir
  <2>1. CASE TakesName
    <3>1. \A c \in Inodes : \A x \in Ents'[c] : x.name \in Names => x.ino # Chd
      <4> SUFFICES ASSUME NEW c \in Inodes, NEW x \in Ents'[c], x.name \in Names, x.ino = Chd
                   PROVE  FALSE
        OBVIOUS
      <4>1. c = d /\ x = e
        BY <1>4, <1>5, <2>1 DEF TakesName, Tree, TUnique
      <4> QED BY <1>5, <4>1
    <3>2. Ents'[Chd] = {}
      <4>1. Chd \in Inodes
        BY <1>1, ChildOf DEF Rmdiring, Unlinking
      <4> QED BY <1>5, <2>1, <4>1 DEF TakesName
    <3>3. Gone'
      <4>1. Chd \in Inodes /\ (kind[Chd] = "none" => kind'[Chd] = "none")
        BY <1>1, <1>11, ChildOf DEF Rmdiring, Unlinking
      <4>2. LinksLeft(i) = 0 => kind'[i] = "none"
        BY <1>1, <1>4 DEF Control, TypeInv
      <4> QED BY <1>1, <1>2, <2>1, <4>1, <4>2 DEF TakesName, Gone
    <3> QED BY <1>1, <1>2, <2>1, <3>1, <3>2, <3>3 DEF TakesName, TRmdir
  <2>2. CASE TakesDots
    <3>1. op.first \in Ents'[Par]
      BY <1>5, <1>7, <2>2 DEF TakesDots
    <3>2. CASE op.todo = RmdirTodo(op.first.name) /\ e = Entry(DotDot, Par)
               /\ Ents[Chd] = {Entry(Dot, Chd), Entry(DotDot, Par)}
      <4>1. Entry(Dot, Chd) # Entry(DotDot, Par)
        BY <1>13
      <4>2. Ents'[Chd] = {Entry(Dot, Chd)}
        BY <1>5, <2>2, <3>2, <4>1 DEF TakesDots
      <4> QED BY <1>1, <1>2, <2>2, <3>1, <3>2, <4>2 DEF TakesDots, TRmdir
    <3>3. CASE op.todo = Rmdir2(op.first.name) /\ e = Entry(Dot, Chd)
               /\ Ents[Chd] = {Entry(Dot, Chd)}
      <4>1. Ents'[Chd] = {}
        BY <1>5, <2>2, <3>3 DEF TakesDots
      <4> QED BY <1>1, <1>2, <2>2, <3>1, <3>3, <4>1 DEF TakesDots, TRmdir
    <3> QED BY <2>2, <3>2, <3>3 DEF TakesDots
  <2> QED BY <1>7, <2>1, <2>2
<1> QED BY <1>3, <1>15, <1>16, <1>17, <1>18, <1>19, <1>20, <1>21, <1>22 DEF Tree

LEMMA TreeStep ==
  ASSUME Control, Drift, FewNames, TreeInv, [PlainNext]_PlainVars
  PROVE  TreeInv'
<1> SUFFICES ASSUME crashes' = 0 PROVE Tree'
  BY DEF TreeInv
<1>1. Control'
  BY ControlStep
<1>2. crashes \in Nat
  BY DEF Control, TypeInv
<1>3. CASE PlainCrash
  <2>1. crashes' = crashes + 1
    BY <1>3 DEF PlainCrash
  <2> QED BY <1>2, <2>1
<1>4. CASE UNCHANGED PlainVars
  <2>1. Tree
    BY <1>4 DEF TreeInv, PlainVars
  <2>2. Ents' = Ents
    BY <1>4 DEF PlainVars, disk, Ents, At, Task, Written
  <2>3. UNCHANGED <<marked, kind, pwd, hdl, pc, op, torn, leaked, spilt, dropped>>
    BY <1>4 DEF PlainVars, disk, ghost
  <2>4. Creating' = Creating /\ Rmdiring' = Rmdiring /\ Par' = Par /\ Chd' = Chd /\ Task' = Task
    BY <2>3 DEF Creating, Rmdiring, Par, Chd, Task
  <2>5. TEntries' /\ TUnique' /\ TUp' /\ TDot'
    BY <2>1, <2>2, <2>3, <2>4 DEF Tree, TEntries, TEntry, TUnique, TUp, TDot, Unled
  <2>6. TNamed' /\ TRest' /\ TCreate' /\ TRmdir'
    BY <2>1, <2>2, <2>3, <2>4 DEF Tree, TNamed, Unnamed, TRest, Nowhere, TCreate, TRmdir, Gone
  <2> QED BY <2>1, <2>3, <2>5, <2>6 DEF Tree
<1>5. CASE PlainNext /\ ~PlainCrash
  <2>1. crashes' = crashes
    BY <1>5 DEF PlainNext, Cd, MkdirNowhere, Restart, Mkdir, Rm, Rmdir, Cp, Mark, MarkFails, PlainNewInode,
                Done, PlainWriteEntry, PlainCountLink, ReadAgain, NoSuchName, Hide, DropLink, ClearBit,
                WipeEntry, Begin
  <2>2. crashes = 0 /\ Tree
    BY <2>1 DEF TreeInv
  <2>3. CASE \E p \in Inodes, n \in Names : (Mkdir(p, n) /\ p \in Dirs) \/ Rm(p, n) \/ Rmdir(p, n)
    BY <1>1, <2>2, <2>3, TreeMkdir, TreeRm, TreeRmdir
  <2>4. CASE \E n \in Names : Cp(n) /\ pwd \in Dirs
    BY <1>1, <2>2, <2>4, TreeCp
  <2>5. CASE DropLink
    BY <1>1, <2>2, <2>5, TreeDropLink
  <2> QED BY <1>1, <1>5, <2>2, <2>3, <2>4, <2>5, TreeCd, TreeMkdirNowhere, TreeRestart, TreeMark,
             TreeMarkFails, TreeNewInode, TreeDone, TreeWriteEntry, TreeCountLink, TreeReadAgain,
             TreeNoSuchName, TreeHide, TreeClearBit, TreeWipeEntry DEF PlainNext
<1> QED BY <1>3, <1>4, <1>5

(* At rest the entries are what they seem.                                  *)
LEMMA AtRestTree ==
  ASSUME Control, Tree, pc = "rest"
  PROVE  /\ \A d \in Inodes : Ents[d] = ents[d]
         /\ \A i : ~Unnamed(i) /\ ~Unled(i)
<1>1. op.todo = <<>>
  BY DEF Tree, TRest
<1> QED BY <1>1, EntsPlain DEF Unnamed, Unled, Creating, Rmdiring

LEMMA SoundLinks ==
  ASSUME Control, Drift, FewNames, Tree, pc = "rest", crashes = 0
  PROVE  \A i \in Inodes : links[i] = Refs(i) /\ (Refs(i) > 0 => i \in marked)
<1> SUFFICES ASSUME NEW i \in Inodes
             PROVE  links[i] = Refs(i) /\ (Refs(i) > 0 => i \in marked)
  OBVIOUS
<1>1. Refs(i) = Count(ents, i) /\ Finite(ents) /\ Count(ents, i) \in Nat
  BY NamingAll, NamedFinite DEF Control, TypeInv
<1>2. \A d \in Inodes : Ents[d] = ents[d]
  BY AtRestTree
<1>3. Drifted(ents, links, Unborn, 0)
  <2>1. crashes + spilt = 0
    BY DEF Tree
  <2> QED BY <1>2, <2>1, DriftSame DEF Drift
<1>4. Same16(links[i], Count(ents, i))
  BY <1>1, <1>3, DriftNone
<1>5. Count(ents, i) \in 0 .. U16 - 1 /\ links[i] \in 0 .. U16 - 1
  <2>1. 2 * Count(ents, i) < U16
    BY <1>1 DEF FewNames
  <2> QED BY <1>1, <2>1, Width DEF Control, TypeInv
<1>6. Count(ents, i) # 0 => i \in marked
  <2>1. \A d \in Inodes : \A e \in ents[d] : e.ino \in marked
    BY <1>2 DEF Tree, TEntries, TEntry
  <2> QED BY <1>1, <2>1, CountZero
<1> QED BY <1>1, <1>4, <1>5, <1>6, SameEqual

LEMMA TreeShaped ==
  ASSUME Control, Tree, pc = "rest", NEW i \in marked \ ({Root} \cup leaked)
  PROVE  LET named == {de \in Naming(i) : de[2].name \notin Dots}
         IN  /\ Cardinality(named) = IF i \in dropped THEN 0 ELSE 1
             /\ \A de \in named : i \in Dirs => Entry(DotDot, de[1]) \in ents[i]
<1> DEFINE named == {de \in Naming(i) : de[2].name \notin Dots}
<1>1. i \in Inodes /\ Naming(i) = Named(ents, i)
  BY NamingAll DEF Control, TypeInv
<1>2. /\ \A d \in Inodes : Ents[d] = ents[d]
      /\ ~Unnamed(i) /\ ~Unled(i)
  BY AtRestTree
<1>3. ASSUME NEW de \in named
      PROVE  /\ de = <<de[1], de[2]>> /\ de[1] \in Inodes /\ de[2] \in Ents[de[1]]
             /\ de[2].ino = i /\ de[2].name \in Names
  <2>1. /\ de = <<de[1], de[2]>> /\ de[1] \in Inodes /\ de[2] \in ents[de[1]]
        /\ de[2].ino = i
    BY <1>1, NamedAt
  <2>2. de[2].name \in Names \cup Dots
    BY <1>2, <2>1 DEF Tree, TEntries, TEntry
  <2> QED BY <1>2, <2>1, <2>2
<1>4. ASSUME i \in dropped
      PROVE  Cardinality(named) = 0
  <2>1. \A de : de \notin named
    <3> HIDE DEF named
    <3> QED BY <1>3, <1>4 DEF Tree, TEntries, TEntry
  <2>2. named = {}
    BY <2>1
  <2> QED BY <2>2, FS_EmptySet
<1>5. ASSUME i \notin dropped
      PROVE  Cardinality(named) = 1
  <2>1. PICK d \in Inodes : \E e \in Ents[d] : e.name \in Names /\ e.ino = i
    BY <1>2, <1>5 DEF Tree, TNamed
  <2>2. PICK e \in Ents[d] : e.name \in Names /\ e.ino = i
    BY <2>1
  <2>3. <<d, e>> \in named
    <3>1. <<d, e>> \in Named(ents, i)
      BY <1>2, <2>2, NamedMember
    <3>2. <<d, e>>[2].name \notin Dots
      BY <2>2, NamespaceAssumption
    <3> QED BY <1>1, <3>1, <3>2
  <2>4. \A de \in named : de = <<d, e>>
    <3> HIDE DEF named
    <3> TAKE de \in named
    <3>1. de[1] = d /\ de[2] = e
      BY <1>3, <2>2 DEF Tree, TUnique
    <3> QED BY <1>3, <3>1
  <2>5. named = {<<d, e>>}
    BY <2>3, <2>4
  <2> QED BY <2>5, FS_Singleton
<1>6. \A de \in named : i \in Dirs => Entry(DotDot, de[1]) \in ents[i]
  <2> HIDE DEF named
  <2> TAKE de \in named
  <2> QED BY <1>1, <1>2, <1>3 DEF Tree, TUp, Dirs
<1> QED BY <1>4, <1>5, <1>6

(* The inode whose last link is gone is marked, so that deallocate_inode    *)
(* finds its bit.                                                           *)
Clearable == crashes = 0 => pc # "halted" /\ (pc = "clear" => op.e.ino \in marked)

LEMMA ClearStep ==
  ASSUME Typed, Control, Drift, FewNames, TreeInv, Clearable, [PlainNext]_PlainVars
  PROVE  Clearable'
<1> SUFFICES ASSUME crashes' = 0
             PROVE  pc' # "halted" /\ (pc' = "clear" => op'.e.ino \in marked')
  BY DEF Clearable
<1>1. crashes \in Nat
  BY DEF Control, TypeInv
<1>2. CASE PlainCrash
  <2>1. crashes' = crashes + 1
    BY <1>2 DEF PlainCrash
  <2> QED BY <1>1, <2>1
<1>3. CASE UNCHANGED PlainVars
  BY <1>3 DEF PlainVars, disk, Clearable
<1>4. CASE DropLink
  <2>1. /\ pc = "drop" /\ op.todo # <<>> /\ Task.do = "unlink" /\ pc' \in {"clear", "wipe"}
        /\ UNCHANGED <<marked, op, crashes>>
    BY <1>4 DEF DropLink, Doing
  <2>2. Tree
    BY <2>1 DEF TreeInv
  <2>3. At.ino \in Inodes /\ op.e \in Ents[At.ino]
    BY <2>1, <2>2, Takes
  <2>4. op.e.ino \in marked
    BY <2>2, <2>3 DEF Tree, TEntries, TEntry
  <2> QED BY <2>1, <2>4
<1>5. CASE ClearBit
  <2>1. pc = "clear" /\ crashes' = crashes
        /\ pc' = IF op.e.ino \in marked THEN "wipe" ELSE "halted"
    BY <1>5 DEF ClearBit, Doing
  <2> QED BY <2>1 DEF Clearable
<1>6. CASE \/ \E p \in Inodes, n \in Names : Mkdir(p, n) \/ Rm(p, n) \/ Rmdir(p, n)
           \/ \E n \in Names : Cp(n)
  <2>1. pc' \in {"mark", "next"}
    BY <1>6, Zenon DEF Mkdir, Rm, Rmdir, Cp
  <2> QED BY <2>1
<1>7. CASE Cd \/ MkdirNowhere \/ Restart \/ Mark \/ MarkFails \/ PlainNewInode \/ Done
  BY <1>7 DEF Cd, AtRest, MkdirNowhere, Restart, Mark, MarkFails, PlainNewInode, Done
<1>8. CASE PlainWriteEntry \/ PlainCountLink \/ ReadAgain \/ NoSuchName \/ WipeEntry
  BY <1>8 DEF PlainWriteEntry, PlainCountLink, ReadAgain, NoSuchName, WipeEntry, Proceed
<1>9. CASE Hide
  <2>1. pc' = "drop"
    BY <1>9 DEF Hide
  <2> QED BY <2>1
<1> QED BY <1>2, <1>3, <1>4, <1>5, <1>6, <1>7, <1>8, <1>9 DEF PlainNext

SoundInv == astray > 0 \/ (Control /\ CopyOK /\ Drift /\ TreeInv /\ Clearable)

LEMMA TreeAlways ==
  Spec /\ []FewNames => [](Typed /\ SoundInv /\ FewNames)
<1>1. Init => Typed /\ SoundInv
  BY TypedInit, ControlInit, CopyInit, DriftInit, TreeInit DEF SoundInv, TreeInv, Clearable, Init
<1>2. Typed /\ SoundInv /\ FewNames /\ FewNames' /\ [Next]_vars => (Typed /\ SoundInv)'
  <2> SUFFICES ASSUME Typed, SoundInv, FewNames, FewNames', [Next]_vars
               PROVE  Typed' /\ SoundInv'
    OBVIOUS
  <2>1. Typed'
    BY TypedStep
  <2>2. ASSUME ~(astray' > 0)
        PROVE  Control' /\ CopyOK' /\ Drift' /\ TreeInv' /\ Clearable'
    <3>1. Control /\ CopyOK /\ Control' /\ CopyOK' /\ [PlainNext]_PlainVars /\ ~(astray > 0)
      BY <2>1, <2>2, Onward DEF SoundInv
    <3>2. Drift /\ TreeInv /\ Clearable
      BY <3>1 DEF SoundInv
    <3> QED BY <3>1, <3>2, DriftStep, TreeStep, ClearStep
  <2> QED BY <2>1, <2>2 DEF SoundInv
<1> QED BY <1>1, <1>2, PTL DEF Spec

LEMMA SoundNow ==
  Typed /\ SoundInv /\ astray = 0 => Control /\ Drift /\ TreeInv /\ Clearable
BY DEF SoundInv

(* LinksSound for every number of inodes and names: until the first crash or*)
(* the first name that is to be written into a free inode, every command    *)
(* leaves each link count at the number of entries that name the inode, and *)
(* no name stands for a free one.                                           *)
THEOREM LinksAreSound == Spec /\ []FewNames => []LinksSound
<1>1. Typed /\ SoundInv /\ FewNames => LinksSound
  BY SoundNow, SoundLinks DEF TreeInv, LinksSound
<1> QED BY <1>1, TreeAlways, PTL

(* TreeShape likewise: one name for every inode in use, and ".." back to    *)
(* where it is.                                                             *)
THEOREM TreeIsShaped == Spec /\ []FewNames => []TreeShape
<1>1. Typed /\ SoundInv /\ FewNames => TreeShape
  BY SoundNow, TreeShaped DEF TreeInv, TreeShape
<1> QED BY <1>1, TreeAlways, PTL

(* HaltsExplained likewise: that ASSERT does not fail before.               *)
THEOREM HaltsAreExplained == Spec /\ []FewNames => []HaltsExplained
<1>1. Typed /\ SoundInv => HaltsExplained
  BY SoundNow DEF Typed, TypeInv, MishapType, Clearable, HaltsExplained
<1> QED BY <1>1, TreeAlways, PTL
=============================================================================
