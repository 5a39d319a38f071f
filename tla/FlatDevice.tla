----------------------------- MODULE FlatDevice -----------------------------
(***************************************************************************)
(* What a device file promises to fs/ext2.c: an array of bytes.  A write   *)
(* changes no byte but its own, and has stored all of them when it ends,   *)
(* unless the process was killed before.  The bytes that a write asks for  *)
(* beyond the end of the device are not its own.                           *)
(***************************************************************************)
EXTENDS Integers

CONSTANTS
  Positions,   \* of bytes
  Requests     \* writes: [at |-> the positions written, val |-> the value]

VARIABLES
  content,
  req,       \* the write request in progress
  killed     \* the last operation was not brought to its end
vars == <<content, req, killed>>

NoRequest == [at |-> {}, val |-> -1]

Init == content = [p \in Positions |-> 0] /\ req = NoRequest /\ ~killed

Begin(r) == req = NoRequest /\ ~killed /\ req' = r /\ UNCHANGED <<content, killed>>

(* Some of the bytes of the request, in any order.                          *)
Put == /\ req # NoRequest
       /\ \A p \in Positions :
             content'[p] = content[p] \/ (p \in req.at /\ content'[p] = req.val)
       /\ UNCHANGED <<req, killed>>

End == /\ req # NoRequest
       /\ \A p \in req.at : content[p] = req.val
       /\ req' = NoRequest
       /\ UNCHANGED <<content, killed>>

Kill    == ~killed /\ killed' /\ req' = NoRequest /\ UNCHANGED content
Restart == killed /\ ~killed' /\ UNCHANGED <<content, req>>

Next == (\E r \in Requests : Begin(r)) \/ Put \/ End \/ Kill \/ Restart
Spec == Init /\ [][Next]_vars
=============================================================================
