---------------------------- MODULE ListsProofs -----------------------------
(***************************************************************************)
(* Linked is an invariant of Lists for every set of elements.  All ways to *)
(* put an element in join it to the two neighbours of its place, and all   *)
(* ways to take one out join its neighbours: one lemma about rings each.   *)
(***************************************************************************)
EXTENDS Lists, TLAPS

(* Where the element at the place j of a sequence was before another came   *)
(* to the place i (j # i), or went from it; and the neighbours that the new *)
(* element gets.                                                            *)
Came(i, j)  == IF j < i THEN j ELSE j - 1
Went(i, j)  == IF j < i THEN j ELSE j + 1
Left(i, n)  == IF i = 1 THEN n ELSE i - 1
Right(i, n) == IF i = n + 1 THEN 1 ELSE i

(* The neighbours in a ring are places of it. *)
LEMMA RingPlaces ==
  ASSUME NEW n \in Nat \ {0}, NEW i \in 1 .. n
  PROVE  Behind(i, n) \in 1 .. n /\ Before(i, n) \in 1 .. n
BY DEF Behind, Before

(* The places of a ring that an element comes into. *)
LEMMA CamePlaces ==
  ASSUME NEW n \in Nat \ {0}, NEW i \in 1 .. n + 1
  PROVE  /\ Left(i, n) \in 1 .. n /\ Right(i, n) \in 1 .. n
         /\ Behind(i, n + 1) # i /\ Came(i, Behind(i, n + 1)) = Right(i, n)
         /\ Before(i, n + 1) # i /\ Came(i, Before(i, n + 1)) = Left(i, n)
<1>1. /\ Left(i, n) \in 1 .. n /\ Right(i, n) \in 1 .. n
  BY DEF Left, Right
<1>2. Behind(i, n + 1) # i /\ Came(i, Behind(i, n + 1)) = Right(i, n)
  BY DEF Behind, Came, Right
<1>3. Before(i, n + 1) # i /\ Came(i, Before(i, n + 1)) = Left(i, n)
  BY DEF Before, Came, Left
<1> QED BY <1>1, <1>2, <1>3

(* The neighbours of the others: the new element for two of them.           *)
LEMMA CameNeighbours ==
  ASSUME NEW n \in Nat \ {0}, NEW i \in 1 .. n + 1, NEW j \in 1 .. n + 1, j # i
  PROVE  /\ Came(i, j) \in 1 .. n
         /\ Came(i, j) = Left(i, n) => Behind(j, n + 1) = i
         /\ Came(i, j) # Left(i, n) => /\ Behind(j, n + 1) # i
                                       /\ Came(i, Behind(j, n + 1)) = Behind(Came(i, j), n)
         /\ Came(i, j) = Right(i, n) => Before(j, n + 1) = i
         /\ Came(i, j) # Right(i, n) => /\ Before(j, n + 1) # i
                                        /\ Came(i, Before(j, n + 1)) = Before(Came(i, j), n)
<1>1. Came(i, j) \in 1 .. n
  BY DEF Came
<1>2. Came(i, j) = Left(i, n) => Behind(j, n + 1) = i
  BY DEF Came, Left, Behind
<1>3. ASSUME Came(i, j) # Left(i, n)
      PROVE  Behind(j, n + 1) # i /\ Came(i, Behind(j, n + 1)) = Behind(Came(i, j), n)
  <2>1. CASE j < i
    BY <1>3, <2>1 DEF Came, Left, Behind
  <2>2. CASE j > i
    BY <1>3, <2>2 DEF Came, Left, Behind
  <2> QED BY <2>1, <2>2
<1>4. Came(i, j) = Right(i, n) => Before(j, n + 1) = i
  BY DEF Came, Right, Before
<1>5. ASSUME Came(i, j) # Right(i, n)
      PROVE  Before(j, n + 1) # i /\ Came(i, Before(j, n + 1)) = Before(Came(i, j), n)
  <2>1. CASE j < i
    BY <1>5, <2>1 DEF Came, Right, Before
  <2>2. CASE j > i
    BY <1>5, <2>2 DEF Came, Right, Before
  <2> QED BY <2>1, <2>2
<1> QED BY <1>1, <1>2, <1>3, <1>4, <1>5

(* The places of a ring of two or more that an element goes from.           *)
LEMMA WentNeighbours ==
  ASSUME NEW n \in Nat \ {0, 1}, NEW i \in 1 .. n, NEW j \in 1 .. n - 1
  PROVE  /\ Went(i, j) \in 1 .. n
         /\ Went(i, j) = Before(i, n) => Went(i, Behind(j, n - 1)) = Behind(i, n)
         /\ Went(i, j) # Before(i, n) => Went(i, Behind(j, n - 1)) = Behind(Went(i, j), n)
         /\ Went(i, j) = Behind(i, n) => Went(i, Before(j, n - 1)) = Before(i, n)
         /\ Went(i, j) # Behind(i, n) => Went(i, Before(j, n - 1)) = Before(Went(i, j), n)
<1>1. Went(i, j) \in 1 .. n
  BY DEF Went
<1>2. Went(i, j) = Before(i, n) => Went(i, Behind(j, n - 1)) = Behind(i, n)
  BY DEF Went, Before, Behind
<1>3. ASSUME Went(i, j) # Before(i, n)
      PROVE  Went(i, Behind(j, n - 1)) = Behind(Went(i, j), n)
  <2>1. CASE j < i
    BY <1>3, <2>1 DEF Went, Before, Behind
  <2>2. CASE ~(j < i)
    BY <1>3, <2>2 DEF Went, Before, Behind
  <2> QED BY <2>1, <2>2
<1>4. Went(i, j) = Behind(i, n) => Went(i, Before(j, n - 1)) = Before(i, n)
  BY DEF Went, Before, Behind
<1>5. ASSUME Went(i, j) # Behind(i, n)
      PROVE  Went(i, Before(j, n - 1)) = Before(Went(i, j), n)
  <2>1. CASE j < i
    BY <1>5, <2>1 DEF Went, Before, Behind
  <2>2. CASE ~(j < i)
    BY <1>5, <2>2 DEF Went, Before, Behind
  <2> QED BY <2>1, <2>2
<1> QED BY <1>1, <1>2, <1>3, <1>4, <1>5

(* A sequence that an element is put into. *)
LEMMA InsertedType ==
  ASSUME NEW s \in Seq(Elem), NEW i \in 1 .. Len(s) + 1, NEW e \in Elem
  PROVE  /\ Inserted(s, i, e) \in Seq(Elem)
         /\ Len(Inserted(s, i, e)) = Len(s) + 1
         /\ Inserted(s, i, e)[i] = e
         /\ \A j \in 1 .. Len(s) + 1 : j # i => Inserted(s, i, e)[j] = s[Came(i, j)]
<1> DEFINE t == Inserted(s, i, e)
<1>1. Len(s) \in Nat /\ \A j \in 1 .. Len(s) : s[j] \in Elem
  OBVIOUS
<1>2. t = [j \in 1 .. Len(s) + 1 |-> IF j = i THEN e ELSE s[Came(i, j)]]
  BY <1>1 DEF Inserted, Came
<1>3. \A j \in 1 .. Len(s) + 1 : j # i => Came(i, j) \in 1 .. Len(s)
  BY <1>1 DEF Came
<1>4. t \in [1 .. Len(s) + 1 -> Elem]
  BY <1>1, <1>2, <1>3
<1>5. t \in Seq(Elem) /\ Len(t) = Len(s) + 1
  BY <1>1, <1>4
<1> QED BY <1>2, <1>5

(* A sequence that an element is taken out of. *)
LEMMA DeletedType ==
  ASSUME NEW s \in Seq(Elem), NEW i \in 1 .. Len(s)
  PROVE  /\ Deleted(s, i) \in Seq(Elem)
         /\ Len(Deleted(s, i)) = Len(s) - 1
         /\ \A j \in 1 .. Len(s) - 1 : Deleted(s, i)[j] = s[Went(i, j)]
<1> DEFINE t == Deleted(s, i)
<1>1. Len(s) \in Nat \ {0} /\ \A j \in 1 .. Len(s) : s[j] \in Elem
  OBVIOUS
<1>2. t = [j \in 1 .. Len(s) - 1 |-> s[Went(i, j)]]
  BY <1>1 DEF Deleted, Went
<1>3. \A j \in 1 .. Len(s) - 1 : Went(i, j) \in 1 .. Len(s)
  BY <1>1 DEF Went
<1>4. t \in [1 .. Len(s) - 1 -> Elem]
  BY <1>1, <1>2, <1>3
<1>5. t \in Seq(Elem) /\ Len(t) = Len(s) - 1
  BY <1>1, <1>4
<1> QED BY <1>2, <1>5

(* An element joined to the neighbours of its place closes the ring again.  *)
LEMMA InsertRing ==
  ASSUME NEW s \in Seq(Elem), NEW i \in 1 .. Len(s) + 1, NEW e \in Elem \ In(s),
         NEW nxt, NEW prv, NEW nxt2, NEW prv2,
         Len(s) \in Nat \ {0}, Ring(s, nxt, prv),
         NEW a, a = s[Left(i, Len(s))], NEW b, b = s[Right(i, Len(s))],
         nxt2[a] = e, nxt2[e] = b, \A x \in Elem \ {a, e} : nxt2[x] = nxt[x],
         prv2[b] = e, prv2[e] = a, \A x \in Elem \ {b, e} : prv2[x] = prv[x]
  PROVE  Ring(Inserted(s, i, e), nxt2, prv2)
<1> DEFINE n == Len(s)
           t == Inserted(s, i, e)
<1>1. n \in Nat \ {0} /\ i \in 1 .. n + 1
  OBVIOUS
<1>2. \A j \in 1 .. n : s[j] \in Elem /\ s[j] # e
  BY DEF In
<1>3. Len(t) = n + 1 /\ t[i] = e /\ \A j \in 1 .. n + 1 : j # i => t[j] = s[Came(i, j)]
  BY InsertedType, ZenonT(60)
<1>4. /\ \A j, k \in 1 .. n : s[j] = s[k] => j = k
      /\ \A j \in 1 .. n : nxt[s[j]] = s[Behind(j, n)] /\ prv[s[j]] = s[Before(j, n)]
  BY DEF Ring
<1>5. /\ a = s[Left(i, n)] /\ b = s[Right(i, n)] /\ Left(i, n) \in 1 .. n /\ Right(i, n) \in 1 .. n
      /\ Behind(i, n + 1) # i /\ Came(i, Behind(i, n + 1)) = Right(i, n)
      /\ Before(i, n + 1) # i /\ Came(i, Before(i, n + 1)) = Left(i, n)
      /\ Behind(i, n + 1) \in 1 .. n + 1 /\ Before(i, n + 1) \in 1 .. n + 1
  <2>1. n + 1 \in Nat \ {0}
    BY <1>1
  <2> HIDE DEF n
  <2> QED BY <1>1, <2>1, CamePlaces, RingPlaces DEF n
<1> HIDE DEF t, n
<1>6. ASSUME NEW j \in 1 .. n + 1, NEW k \in 1 .. n + 1, t[j] = t[k]
      PROVE  j = k
  <2>1. \A l \in 1 .. n + 1 : l # i => Came(i, l) \in 1 .. n
    BY <1>1, CameNeighbours
  <2>2. CASE j = i \/ k = i
    BY <1>2, <1>3, <1>6, <2>1, <2>2
  <2>3. CASE j # i /\ k # i
    <3>1. Came(i, j) = Came(i, k)
      BY <1>3, <1>4, <1>6, <2>1, <2>3
    <3> QED BY <1>1, <2>3, <3>1 DEF Came
  <2> QED BY <2>2, <2>3
<1>7. nxt2[t[i]] = t[Behind(i, n + 1)] /\ prv2[t[i]] = t[Before(i, n + 1)]
  BY <1>3, <1>5
<1>8. ASSUME NEW j \in 1 .. n + 1, j # i
      PROVE  nxt2[t[j]] = t[Behind(j, n + 1)] /\ prv2[t[j]] = t[Before(j, n + 1)]
  <2> DEFINE m == Came(i, j)
  <2>1. /\ m \in 1 .. n
        /\ m = Left(i, n) => Behind(j, n + 1) = i
        /\ m # Left(i, n) => /\ Behind(j, n + 1) # i
                             /\ Came(i, Behind(j, n + 1)) = Behind(m, n)
        /\ m = Right(i, n) => Before(j, n + 1) = i
        /\ m # Right(i, n) => /\ Before(j, n + 1) # i
                              /\ Came(i, Before(j, n + 1)) = Before(m, n)
    BY <1>1, <1>8, CameNeighbours, ZenonT(60)
  <2>2. Behind(j, n + 1) \in 1 .. n + 1 /\ Before(j, n + 1) \in 1 .. n + 1
    <3>1. n + 1 \in Nat \ {0}
      BY <1>1
    <3> QED BY <3>1, RingPlaces
  <2>3. t[j] = s[m] /\ s[m] \in Elem \ {e}
    BY <1>2, <1>3, <1>8, <2>1
  <2> HIDE DEF m
  <2>4. nxt2[s[m]] = t[Behind(j, n + 1)]
    <3>1. CASE m = Left(i, n)
      BY <1>3, <1>5, <2>1, <3>1
    <3>2. CASE m # Left(i, n)
      <4>1. s[m] # a
        BY <1>4, <1>5, <2>1, <3>2
      <4>2. t[Behind(j, n + 1)] = s[Behind(m, n)]
        BY <1>3, <2>1, <2>2, <3>2
      <4> QED BY <1>4, <2>1, <2>3, <4>1, <4>2
    <3> QED BY <3>1, <3>2
  <2>5. prv2[s[m]] = t[Before(j, n + 1)]
    <3>1. CASE m = Right(i, n)
      BY <1>3, <1>5, <2>1, <3>1
    <3>2. CASE m # Right(i, n)
      <4>1. s[m] # b
        BY <1>4, <1>5, <2>1, <3>2
      <4>2. t[Before(j, n + 1)] = s[Before(m, n)]
        BY <1>3, <2>1, <2>2, <3>2
      <4> QED BY <1>4, <2>1, <2>3, <4>1, <4>2
    <3> QED BY <3>1, <3>2
  <2> QED BY <2>3, <2>4, <2>5
<1>9. Len(t) = n + 1
  BY <1>3
<1>10. \A j \in 1 .. n + 1 : nxt2[t[j]] = t[Behind(j, n + 1)] /\ prv2[t[j]] = t[Before(j, n + 1)]
  BY <1>7, <1>8
<1> QED BY <1>6, <1>9, <1>10 DEF Ring, t

(* When an element goes, its neighbours close the ring.                     *)
LEMMA DeleteRing ==
  ASSUME NEW s \in Seq(Elem), NEW i \in 1 .. Len(s),
         NEW nxt, NEW prv, NEW nxt2, NEW prv2,
         Len(s) \in Nat \ {0, 1}, Ring(s, nxt, prv),
         NEW a, a = s[Before(i, Len(s))], NEW b, b = s[Behind(i, Len(s))],
         nxt2[a] = b, \A x \in Elem \ {a} : nxt2[x] = nxt[x],
         prv2[b] = a, \A x \in Elem \ {b} : prv2[x] = prv[x]
  PROVE  Ring(Deleted(s, i), nxt2, prv2)
<1> DEFINE n == Len(s)
           t == Deleted(s, i)
<1>1. n \in Nat \ {0, 1} /\ i \in 1 .. n
  OBVIOUS
<1>2. \A j \in 1 .. n : s[j] \in Elem
  OBVIOUS
<1>3. Len(t) = n - 1 /\ \A j \in 1 .. n - 1 : t[j] = s[Went(i, j)]
  BY DeletedType
<1>4. /\ \A j, k \in 1 .. n : s[j] = s[k] => j = k
      /\ \A j \in 1 .. n : nxt[s[j]] = s[Behind(j, n)] /\ prv[s[j]] = s[Before(j, n)]
  BY DEF Ring
<1>5. a = s[Before(i, n)] /\ b = s[Behind(i, n)]
  OBVIOUS
<1> HIDE DEF t, n
<1>6. Before(i, n) \in 1 .. n /\ Behind(i, n) \in 1 .. n
  <2>1. n \in Nat \ {0}
    BY <1>1
  <2> QED BY <1>1, <2>1, RingPlaces
<1>7. ASSUME NEW j \in 1 .. n - 1, NEW k \in 1 .. n - 1, t[j] = t[k]
      PROVE  j = k
  <2>1. Went(i, j) \in 1 .. n /\ Went(i, k) \in 1 .. n
    BY <1>1, WentNeighbours
  <2>2. Went(i, j) = Went(i, k)
    BY <1>3, <1>4, <1>7, <2>1
  <2> QED BY <1>1, <2>2 DEF Went
<1>8. ASSUME NEW j \in 1 .. n - 1
      PROVE  nxt2[t[j]] = t[Behind(j, n - 1)] /\ prv2[t[j]] = t[Before(j, n - 1)]
  <2> DEFINE m == Went(i, j)
  <2>1. /\ m \in 1 .. n
        /\ m = Before(i, n) => Went(i, Behind(j, n - 1)) = Behind(i, n)
        /\ m # Before(i, n) => Went(i, Behind(j, n - 1)) = Behind(m, n)
        /\ m = Behind(i, n) => Went(i, Before(j, n - 1)) = Before(i, n)
        /\ m # Behind(i, n) => Went(i, Before(j, n - 1)) = Before(m, n)
    BY <1>1, WentNeighbours
  <2>2. Behind(j, n - 1) \in 1 .. n - 1 /\ Before(j, n - 1) \in 1 .. n - 1
    <3>1. n - 1 \in Nat \ {0}
      BY <1>1
    <3> QED BY <3>1, RingPlaces
  <2>3. /\ t[j] = s[m] /\ s[m] \in Elem
        /\ t[Behind(j, n - 1)] = s[Went(i, Behind(j, n - 1))]
        /\ t[Before(j, n - 1)] = s[Went(i, Before(j, n - 1))]
    BY <1>2, <1>3, <2>1, <2>2
  <2> HIDE DEF m
  <2>4. nxt2[s[m]] = t[Behind(j, n - 1)]
    <3>1. CASE m = Before(i, n)
      BY <1>5, <2>1, <2>3, <3>1
    <3>2. CASE m # Before(i, n)
      <4>1. s[m] # a
        BY <1>4, <1>5, <1>6, <2>1, <3>2
      <4> QED BY <1>4, <2>1, <2>3, <3>2, <4>1
    <3> QED BY <3>1, <3>2
  <2>5. prv2[s[m]] = t[Before(j, n - 1)]
    <3>1. CASE m = Behind(i, n)
      BY <1>5, <2>1, <2>3, <3>1
    <3>2. CASE m # Behind(i, n)
      <4>1. s[m] # b
        BY <1>4, <1>5, <1>6, <2>1, <3>2
      <4> QED BY <1>4, <2>1, <2>3, <3>2, <4>1
    <3> QED BY <3>1, <3>2
  <2> QED BY <2>3, <2>4, <2>5
<1>9. Len(t) = n - 1
  BY <1>3
<1> QED BY <1>7, <1>8, <1>9 DEF Ring, t

(* What Linked says of the ends of a list that is not empty.                *)
LEMMA Ends ==
  ASSUME Linked, holder # Null
  PROVE  /\ Len(list) \in Nat \ {0} /\ list \in Seq(Elem)
         /\ holder \in Elem /\ holder = list[1]
         /\ prev[holder] \in Elem /\ prev[holder] = list[Len(list)]
         /\ next[prev[holder]] = holder
         /\ \A i \in 1 .. Len(list) : list[i] \in Elem
<1>1. list \in Seq(Elem) /\ list # <<>> /\ holder = list[1]
  BY DEF Linked, TypeOK
<1>2. Len(list) \in Nat \ {0} /\ \A i \in 1 .. Len(list) : list[i] \in Elem
  BY <1>1
<1>3. prev[list[1]] = list[Len(list)] /\ next[list[Len(list)]] = list[1]
  BY <1>2 DEF Linked, Ring, Before, Behind
<1> QED BY <1>1, <1>2, <1>3

(* An element in the list: its neighbours are elements too.                 *)
LEMMA Inside ==
  ASSUME Linked, NEW i \in 1 .. Len(list)
  PROVE  /\ Len(list) \in Nat \ {0} /\ list \in Seq(Elem) /\ list # <<>>
         /\ list[i] \in Elem /\ holder = list[1] /\ holder \in Elem
         /\ next[list[i]] = list[Behind(i, Len(list))] /\ next[list[i]] \in Elem
         /\ prev[list[i]] = list[Before(i, Len(list))] /\ prev[list[i]] \in Elem
         /\ \A j, k \in 1 .. Len(list) : list[j] = list[k] => j = k
<1>1. list \in Seq(Elem) /\ Len(list) \in Nat \ {0} /\ list # <<>>
  BY DEF Linked, TypeOK
<1>2. \A j \in 1 .. Len(list) : list[j] \in Elem
  BY <1>1
<1>3. /\ next[list[i]] = list[Behind(i, Len(list))] /\ prev[list[i]] = list[Before(i, Len(list))]
      /\ \A j, k \in 1 .. Len(list) : list[j] = list[k] => j = k
  BY DEF Linked, Ring
<1>4. Behind(i, Len(list)) \in 1 .. Len(list) /\ Before(i, Len(list)) \in 1 .. Len(list)
  BY <1>1 DEF Behind, Before
<1>5. holder = list[1]
  BY <1>1 DEF Linked
<1> QED BY <1>1, <1>2, <1>3, <1>4, <1>5

(* The first element of an empty list. *)
LEMMA FirstStep ==
  ASSUME Linked, NEW e \in Elem, PutFirst(e)
  PROVE  Linked'
<1>1. list = <<>> /\ TypeOK
  <2>1. TypeOK /\ (list # <<>> => list[1] \in Elem)
    BY DEF Linked, TypeOK
  <2> QED BY <2>1, ListAssumption DEF Linked, PutFirst
<1>2. list' = <<e>>
  <2>1. list' \in Seq(Elem) /\ Len(list') = 1 /\ list'[1] = e
    <3>1. list \in Seq(Elem) /\ Len(list) = 0 /\ list' = Inserted(list, 1, e)
      BY <1>1 DEF PutFirst
    <3>4. list \in Seq(Elem)
      BY <3>1
    <3>2. PICK k \in 1 .. Len(list) + 1 : k = 1
      BY <3>1
    <3>3. /\ Inserted(list, k, e) \in Seq(Elem)
          /\ Len(Inserted(list, k, e)) = Len(list) + 1
          /\ Inserted(list, k, e)[k] = e
      BY <3>4, InsertedType
    <3> QED BY <3>1, <3>2, <3>3
  <2> QED BY <2>1
<1>3. /\ next' \in [Elem -> Elem \cup {Null}] /\ next'[e] = e
      /\ prev' \in [Elem -> Elem \cup {Null}] /\ prev'[e] = e
  BY <1>1 DEF PutFirst, TypeOK
<1>4. Ring(list', next', prev')
  BY <1>2, <1>3 DEF Ring, Behind, Before
<1>5. holder' = list'[1] /\ list' # <<>>
  BY <1>2 DEF PutFirst
<1>6. list' \in Seq(Elem)
  BY <1>2
<1> QED BY <1>3, <1>4, <1>5, <1>6 DEF Linked, TypeOK

(* An element is put into a list that is not empty, at the place i.         *)
Puts(e, i) ==
  /\ list' = Inserted(list, i, e)
  /\ next' = [next EXCEPT ![e] = list[Right(i, Len(list))], ![list[Left(i, Len(list))]] = e]
  /\ prev' = [prev EXCEPT ![e] = list[Left(i, Len(list))], ![list[Right(i, Len(list))]] = e]
  /\ holder' = IF i = 1 THEN e ELSE holder

LEMMA InsertStep ==
  ASSUME Linked, holder # Null, NEW e \in Elem, New(e), NEW i \in 1 .. Len(list) + 1,
         Puts(e, i)
  PROVE  Linked'
<1> DEFINE a == list[Left(i, Len(list))]
           b == list[Right(i, Len(list))]
<1>1. /\ Len(list) \in Nat \ {0} /\ list \in Seq(Elem) /\ holder = list[1]
      /\ \A j \in 1 .. Len(list) : list[j] \in Elem
  BY Ends
<1>2. /\ list' \in Seq(Elem) /\ Len(list') = Len(list) + 1
      /\ list'[i] = e
      /\ \A j \in 1 .. Len(list) + 1 : j # i => list'[j] = list[Came(i, j)]
  BY <1>1, InsertedType DEF Puts
<1>3. e \notin In(list) /\ a \in Elem \ {e} /\ b \in Elem \ {e}
  <2>1. e \notin In(list)
    BY DEF New
  <2>2. (IF i = 1 THEN Len(list) ELSE i - 1) \in 1 .. Len(list)
        /\ (IF i = Len(list) + 1 THEN 1 ELSE i) \in 1 .. Len(list)
    BY <1>1
  <2> QED BY <1>1, <2>1, <2>2 DEF In, Left, Right
<1>4. next \in [Elem -> Elem \cup {Null}] /\ prev \in [Elem -> Elem \cup {Null}]
  BY DEF Linked, TypeOK
<1>5. /\ next' \in [Elem -> Elem \cup {Null}] /\ prev' \in [Elem -> Elem \cup {Null}]
      /\ next'[a] = e /\ next'[e] = b /\ \A x \in Elem \ {a, e} : next'[x] = next[x]
      /\ prev'[b] = e /\ prev'[e] = a /\ \A x \in Elem \ {b, e} : prev'[x] = prev[x]
  BY <1>3, <1>4 DEF Puts
<1>6. Ring(list, next, prev) /\ Len(list) \in Nat \ {0}
  BY <1>1 DEF Linked
<1>7. Ring(list', next', prev')
  <2>1. list \in Seq(Elem) /\ e \in Elem \ In(list)
    BY <1>1, <1>3
  <2>2. Ring(Inserted(list, i, e), next', prev')
    BY <1>5, <1>6, <2>1, InsertRing
  <2> QED BY <2>2 DEF Puts
<1>8. holder' = list'[1] /\ list' # <<>>
  <2>1. PICK k \in 1 .. Len(list) + 1 : k = 1
    BY <1>1
  <2>2. i # k => Came(i, k) = 1
    BY <1>1, <2>1 DEF Came
  <2> QED BY <1>1, <1>2, <2>1, <2>2 DEF Puts
<1> QED BY <1>2, <1>5, <1>7, <1>8 DEF Linked, TypeOK

LEMMA DeleteStep ==
  ASSUME Linked, NEW i \in 1 .. Len(list), delete_elem(i)
  PROVE  Linked'
<1> DEFINE n == Len(list)
           x == list[i]
           a == list[Before(i, n)]
           b == list[Behind(i, n)]
<1>0. list' = Deleted(list, i)
  BY DEF delete_elem
<1>1. /\ n \in Nat \ {0} /\ list \in Seq(Elem) /\ list # <<>>
      /\ x \in Elem /\ holder = list[1] /\ holder \in Elem
      /\ next[x] = b /\ b \in Elem /\ prev[x] = a /\ a \in Elem
      /\ \A j, k \in 1 .. n : list[j] = list[k] => j = k
  BY Inside
<1>2. x = holder <=> i = 1
  BY <1>1
<1>3. /\ list' \in Seq(Elem) /\ Len(list') = n - 1
      /\ \A j \in 1 .. n - 1 : list'[j] = list[Went(i, j)]
      /\ list' = Deleted(list, i)
  BY <1>0, <1>1, DeletedType
<1>4. next \in [Elem -> Elem \cup {Null}] /\ prev \in [Elem -> Elem \cup {Null}]
  BY DEF Linked, TypeOK
<1>5. Ring(list, next, prev)
  BY DEF Linked
<1>6. CASE n = 1
  <2>1. i = 1 /\ x = holder /\ a = holder
    BY <1>1, <1>6 DEF Before
  <2>2. holder' = Null /\ next' = next /\ prev' = prev
    BY <1>1, <2>1 DEF delete_elem
  <2>3. list' = <<>>
    BY <1>3, <1>6
  <2>4. Ring(list', next', prev')
    <3>1. Len(list') = 0
      BY <2>3
    <3> QED BY <3>1 DEF Ring
  <2>5. TypeOK'
    BY <1>3, <1>4, <2>2 DEF TypeOK
  <2> QED BY <2>2, <2>3, <2>4, <2>5 DEF Linked
<1>7. CASE n > 1
  <2>1. /\ next' = [next EXCEPT ![a] = b] /\ prev' = [prev EXCEPT ![b] = a]
        /\ holder' = IF i = 1 THEN b ELSE holder
    <3>1. CASE i = 1
      <4>1. a # holder
        BY <1>1, <1>7, <3>1 DEF Before
      <4> QED BY <1>1, <1>2, <3>1, <4>1 DEF delete_elem
    <3>2. CASE i # 1
      BY <1>1, <1>2, <3>2 DEF delete_elem
    <3> QED BY <3>1, <3>2
  <2>2. /\ next' \in [Elem -> Elem \cup {Null}] /\ prev' \in [Elem -> Elem \cup {Null}]
        /\ next'[a] = b /\ \A y \in Elem \ {a} : next'[y] = next[y]
        /\ prev'[b] = a /\ \A y \in Elem \ {b} : prev'[y] = prev[y]
    BY <1>1, <1>4, <2>1
  <2>6. Len(list) \in Nat \ {0, 1}
    BY <1>1, <1>7
  <2>3. Ring(list', next', prev')
    BY <1>1, <1>3, <1>5, <2>2, <2>6, DeleteRing
  <2>4. holder' = list'[1] /\ list' # <<>>
    <3>1. list'[1] = list[Went(i, 1)] /\ list' # <<>>
      BY <1>3, <2>6
    <3>2. CASE i = 1
      BY <1>1, <2>1, <2>6, <3>1, <3>2 DEF Behind, Went
    <3>3. CASE i # 1
      BY <1>1, <2>1, <3>1, <3>3 DEF Went
    <3> QED BY <3>2, <3>3
  <2> QED BY <1>3, <2>2, <2>3, <2>4 DEF Linked, TypeOK
<1>8. n = 1 \/ n > 1
  <2>1. n \in Nat \ {0}
    BY <1>1
  <2> HIDE DEF n
  <2> QED BY <2>1
<1> QED BY <1>6, <1>7, <1>8

(* The pointers of the lists of libs/lists.h always lead round the elements *)
(* that were put in and not taken out, for every set of elements.           *)
THEOREM ListsLinked == Spec => []Linked
<1>1. Init => Linked
  BY DEF Init, Linked, TypeOK, Ring
<1>2. ASSUME Linked, [Next]_vars
      PROVE  Linked'
  <2>1. ASSUME NEW e \in Elem, PutFirst(e)
        PROVE  Linked'
    BY <1>2, <2>1, FirstStep
  <2>2. ASSUME NEW e \in Elem, prepend_list(e)
        PROVE  Linked'
    <3>1. New(e) /\ holder # Null
      BY <2>2 DEF prepend_list
    <3>2. /\ Len(list) \in Nat \ {0} /\ holder = list[1]
          /\ prev[holder] = list[Len(list)] /\ prev[holder] \in Elem /\ holder \in Elem
      BY <1>2, <3>1, Ends
    <3>3. next \in [Elem -> Elem \cup {Null}] /\ prev \in [Elem -> Elem \cup {Null}]
      BY <1>2 DEF Linked, TypeOK
    <3>4. e # holder
      BY <3>1, <3>2 DEF New, In
    <3>5. /\ next' = [next EXCEPT ![e] = holder, ![prev[holder]] = e]
          /\ prev' = [prev EXCEPT ![e] = prev[holder], ![holder] = e]
      BY <2>2, <3>2, <3>3, <3>4 DEF prepend_list
    <3>6. PICK k \in 1 .. Len(list) + 1 :
             k = 1 /\ prev[holder] = list[Left(k, Len(list))] /\ holder = list[Right(k, Len(list))]
      BY <3>2 DEF Left, Right
    <3>7. holder' = e /\ list' = Inserted(list, 1, e)
      BY <2>2 DEF prepend_list
    <3>8. Puts(e, k)
      BY <3>5, <3>6, <3>7 DEF Puts
    <3> QED BY <1>2, <3>1, <3>8, InsertStep
  <2>3. ASSUME NEW e \in Elem, append_list(e)
        PROVE  Linked'
    <3>1. New(e) /\ holder # Null
      BY <2>3 DEF append_list
    <3>2. /\ Len(list) \in Nat \ {0} /\ holder = list[1] /\ next[prev[holder]] = holder
          /\ prev[holder] = list[Len(list)] /\ prev[holder] \in Elem
      BY <1>2, <3>1, Ends
    <3>3. /\ next' = [next EXCEPT ![e] = holder, ![prev[holder]] = e]
          /\ prev' = [prev EXCEPT ![e] = prev[holder], ![holder] = e]
      BY <2>3, <3>2 DEF append_list
    <3>4. PICK k \in 1 .. Len(list) + 1 :
             /\ k = Len(list) + 1 /\ k # 1
             /\ prev[holder] = list[Left(k, Len(list))] /\ holder = list[Right(k, Len(list))]
      BY <3>2 DEF Left, Right
    <3>5. holder' = holder /\ list' = Inserted(list, Len(list) + 1, e)
      BY <2>3 DEF append_list
    <3>6. Puts(e, k)
      BY <3>3, <3>4, <3>5 DEF Puts
    <3> QED BY <1>2, <3>1, <3>6, InsertStep
  <2>4. ASSUME NEW e \in Elem, NEW i \in 1 .. Len(list), insert_before(e, i)
        PROVE  Linked'
    <3>1. /\ Len(list) \in Nat \ {0} /\ holder = list[1] /\ holder \in Elem
          /\ prev[list[i]] = list[Before(i, Len(list))]
          /\ \A j, k \in 1 .. Len(list) : list[j] = list[k] => j = k
      BY <1>2, Inside
    <3>2. New(e) /\ holder # Null
      BY <2>4, <3>1, ListAssumption DEF insert_before
    <3>3. /\ next' = [next EXCEPT ![e] = list[i], ![prev[list[i]]] = e]
          /\ prev' = [prev EXCEPT ![e] = prev[list[i]], ![list[i]] = e]
          /\ list' = Inserted(list, i, e)
          /\ holder' = HolderBefore(e, list[i])
      BY <2>4 DEF insert_before
    <3>4. holder' = IF i = 1 THEN e ELSE holder
      BY <3>1, <3>3 DEF HolderBefore
    <3>5. i \in 1 .. Len(list) + 1 /\ i # Len(list) + 1
      BY <3>1
    <3>6. prev[list[i]] = list[Left(i, Len(list))] /\ list[i] = list[Right(i, Len(list))]
      BY <3>1, <3>5 DEF Before, Left, Right
    <3>7. Puts(e, i)
      BY <3>3, <3>4, <3>6 DEF Puts
    <3> QED BY <1>2, <3>2, <3>5, <3>7, InsertStep
  <2>5. ASSUME NEW e \in Elem, NEW i \in 1 .. Len(list), insert_after(e, i)
        PROVE  Linked'
    <3>1. /\ Len(list) \in Nat \ {0} /\ holder \in Elem
          /\ next[list[i]] = list[Behind(i, Len(list))]
      BY <1>2, Inside
    <3>2. New(e) /\ holder # Null
      BY <2>5, <3>1, ListAssumption DEF insert_after
    <3>3. /\ next' = [next EXCEPT ![e] = next[list[i]], ![list[i]] = e]
          /\ prev' = [prev EXCEPT ![e] = list[i], ![next[list[i]]] = e]
          /\ list' = Inserted(list, i + 1, e)
          /\ holder' = holder
      BY <2>5 DEF insert_after
    <3>4. PICK k \in 1 .. Len(list) + 1 :
             /\ k = i + 1 /\ k # 1
             /\ list[i] = list[Left(k, Len(list))] /\ next[list[i]] = list[Right(k, Len(list))]
      BY <3>1 DEF Behind, Left, Right
    <3>5. Puts(e, k)
      BY <3>3, <3>4 DEF Puts
    <3> QED BY <1>2, <3>2, <3>5, InsertStep
  <2>6. ASSUME NEW i \in 1 .. Len(list), delete_elem(i)
        PROVE  Linked'
    BY <1>2, <2>6, DeleteStep
  <2>7. CASE UNCHANGED vars
    BY <1>2, <2>7 DEF Linked, TypeOK, vars
  <2> QED BY <1>2, <2>1, <2>2, <2>3, <2>4, <2>5, <2>6, <2>7 DEF Next
<1> QED BY <1>1, <1>2, PTL DEF Spec
=============================================================================
