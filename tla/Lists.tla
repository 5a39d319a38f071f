------------------------------- MODULE Lists --------------------------------
(***************************************************************************)
(* The intrusive circular lists of libs/lists.h: each macro is the         *)
(* sequence of its assignments to the pointers in the elements and to the  *)
(* holder, which points to the first element.  Elements that are not in    *)
(* the list keep the pointers they had; nothing resets them.               *)
(***************************************************************************)
EXTENDS Integers, Sequences

CONSTANTS Elem,   \* the list_head_t structures there are
          Null    \* the null pointer

ASSUME ListAssumption == Null \notin Elem

VARIABLES
  next, prev,   \* the pointers of the elements
  holder,       \* *list_holder
  list          \* ghost: the elements that should be in the list, in order

vars == <<next, prev, holder, list>>

In(s)  == {s[i] : i \in 1 .. Len(s)}
New(e) == e \in Elem \ In(list)

(* What the operations do to a sequence: e comes to the place i, or what is *)
(* at the place i goes.                                                     *)
Inserted(s, i, e) ==
  [j \in 1 .. Len(s) + 1 |-> IF j < i THEN s[j] ELSE IF j = i THEN e ELSE s[j - 1]]
Deleted(s, i) == [j \in 1 .. Len(s) - 1 |-> IF j < i THEN s[j] ELSE s[j + 1]]

Init ==
  /\ next = [e \in Elem |-> Null] /\ prev = [e \in Elem |-> Null]
  /\ holder = Null /\ list = <<>>

-----------------------------------------------------------------------------
(* The new element is alone: the same in prepend_list and append_list.      *)
PutFirst(e) ==
  /\ New(e) /\ holder = Null
  /\ holder' = e
  /\ next' = [next EXCEPT ![e] = e]
  /\ prev' = [prev EXCEPT ![e] = e]
  /\ list' = Inserted(list, 1, e)

prepend_list(e) ==
  /\ New(e) /\ holder # Null
  /\ LET first == holder
         last  == prev[holder]
     IN  /\ prev' = [prev EXCEPT ![first] = e, ![e] = last]
         /\ next' = [next EXCEPT ![e] = first, ![last] = e]
  /\ holder' = e
  /\ list' = Inserted(list, 1, e)

append_list(e) ==
  /\ New(e) /\ holder # Null
  /\ LET last == prev[holder]
     IN  /\ prev' = [prev EXCEPT ![e] = last, ![next[last]] = e]
         /\ next' = [next EXCEPT ![e] = next[last], ![last] = e]
  /\ holder' = holder
  /\ list' = Inserted(list, Len(list) + 1, e)

(* Deviation: the holder stays with the second element.                     *)
M_HolderBefore(e, x) == holder

HolderBefore(e, x) == IF x = holder THEN e ELSE holder

(* Before and after the element at the place i.                             *)
insert_before(e, i) ==
  /\ New(e)
  /\ LET x == list[i]
     IN  /\ next' = [next EXCEPT ![e] = x, ![prev[x]] = e]
         /\ prev' = [prev EXCEPT ![e] = prev[x], ![x] = e]
         /\ holder' = HolderBefore(e, x)
  /\ list' = Inserted(list, i, e)

insert_after(e, i) ==
  /\ New(e)
  /\ LET x == list[i]
     IN  /\ next' = [next EXCEPT ![e] = next[x], ![x] = e]
         /\ prev' = [prev EXCEPT ![e] = x, ![next[x]] = e]
  /\ holder' = holder
  /\ list' = Inserted(list, i + 1, e)

(* Out of a list of one the element goes without a trace; otherwise its     *)
(* neighbours are joined, and the holder moves on if it was the first.      *)
delete_elem(i) ==
  /\ LET x     == list[i]
         first == holder
         last  == prev[holder]
     IN  IF x = first
         THEN IF first = last
              THEN holder' = Null /\ UNCHANGED <<next, prev>>
              ELSE /\ next' = [next EXCEPT ![last] = next[first]]
                   /\ prev' = [prev EXCEPT ![next[first]] = last]
                   /\ holder' = next[first]
         ELSE /\ next' = [next EXCEPT ![prev[x]] = next[x]]
              /\ prev' = [prev EXCEPT ![next[x]] = prev[x]]
              /\ holder' = holder
  /\ list' = Deleted(list, i)

Next ==
  \/ \E e \in Elem :
        \/ PutFirst(e) \/ prepend_list(e) \/ append_list(e)
        \/ \E i \in 1 .. Len(list) : insert_before(e, i) \/ insert_after(e, i)
  \/ \E i \in 1 .. Len(list) : delete_elem(i)

Spec == Init /\ [][Next]_vars

-----------------------------------------------------------------------------
TypeOK ==
  /\ next \in [Elem -> Elem \cup {Null}] /\ prev \in [Elem -> Elem \cup {Null}]
  /\ list \in Seq(Elem)

(* The places before and behind i in a ring of n. *)
Before(i, n) == IF i = 1 THEN n ELSE i - 1
Behind(i, n) == IF i = n THEN 1 ELSE i + 1

Ring(s, nxt, prv) ==
  /\ \A i, j \in 1 .. Len(s) : s[i] = s[j] => i = j
  /\ \A i \in 1 .. Len(s) : /\ nxt[s[i]] = s[Behind(i, Len(s))]
                            /\ prv[s[i]] = s[Before(i, Len(s))]

(* After any series of operations the pointers lead round the elements that *)
(* are in the list, forwards and backwards, beginning with the first one;   *)
(* what the pointers of a deleted element say does no harm when it is put   *)
(* back.                                                                    *)
Linked ==
  TypeOK /\ holder = (IF list = <<>> THEN Null ELSE list[1]) /\ Ring(list, next, prev)
=============================================================================
