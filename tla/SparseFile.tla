----------------------------- MODULE SparseFile -----------------------------
(***************************************************************************)
(* What a file of fs/ext2.c promises to the commands that use it: a sparse *)
(* array of words and a size.  A write request changes nothing but the     *)
(* words it names, is complete when it ends, and may be cut short by a     *)
(* crash; removing the file leaves it empty.  No promise holds any more    *)
(* for a file that has been damaged.                                       *)
(***************************************************************************)
EXTENDS Integers

CONSTANTS Words, Limit, Requests   \* values, words of the largest file, write requests

VARIABLES
  content, size,
  req,      \* the write request in progress
  aborts,   \* how many requests a crash has cut short, reads and removals too
  damaged   \* nothing is promised from here on
file == <<content, size, req, aborts>>
vars == <<file, damaged>>

NoRequest == [off |-> 0, len |-> 0, val |-> 0]
Named(r) == r.off .. r.off + r.len - 1
Larger(a, b) == IF a >= b THEN a ELSE b

Init == content = [o \in 0 .. Limit - 1 |-> 0] /\ size = 0 /\ req = NoRequest
        /\ aborts = 0 /\ damaged = FALSE

Begin(r) == req = NoRequest /\ req' = r /\ UNCHANGED <<content, size, aborts>>

(* Some of the words of the request, in any order.                          *)
Put == /\ req # NoRequest
       /\ LET old == content
              new == content'
          IN  /\ DOMAIN new = DOMAIN old
              /\ \A o \in DOMAIN old :
                    new[o] = old[o] \/ (o \in Named(req) /\ new[o] = req.val)
       /\ UNCHANGED <<size, req, aborts>>

(* The size never passes the end of the request, and never shrinks.         *)
Grow == /\ req # NoRequest
        /\ size' \in size .. Larger(size, req.off + req.len)
        /\ UNCHANGED <<content, req, aborts>>

End == /\ req # NoRequest
       /\ LET now == content IN \A o \in Named(req) : now[o] = req.val
       /\ size' = Larger(size, req.off + req.len)
       /\ req' = NoRequest
       /\ UNCHANGED <<content, aborts>>

Abort == req' = NoRequest /\ aborts' = aborts + 1 /\ UNCHANGED <<content, size>>

Remove == /\ req = NoRequest
          /\ content' = [o \in 0 .. Limit - 1 |-> 0] /\ size' = 0
          /\ UNCHANGED <<req, aborts>>

Deed == (\E r \in Requests : Begin(r)) \/ Put \/ Grow \/ End \/ Abort \/ Remove

(* A file is damaged in a write, or by a crash in its removal, which does   *)
(* not touch what it holds.                                                 *)
Damage ==
  /\ damaged' = TRUE
  /\ \/ req # NoRequest /\ UNCHANGED <<req, aborts>>
     \/ req = NoRequest /\ Abort

Next == \/ Deed /\ UNCHANGED damaged
        \/ Damage
        \/ damaged /\ damaged'
Spec == Init /\ [][Next]_vars
=============================================================================
