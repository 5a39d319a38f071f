------------------------------ MODULE DirNames ------------------------------
(***************************************************************************)
(* What a directory of fs/ext2.c promises to the commands that use it: a   *)
(* set of names, each with the inode it stands for.  A name may be there   *)
(* more than once, with different inodes.  Adding or removing one happens  *)
(* at a single moment, a crash comes before or after it, and the end of a  *)
(* request says truly whether it was done.  No promise holds any more for  *)
(* a directory that has been damaged.                                      *)
(***************************************************************************)
EXTENDS Integers

CONSTANTS Names, Inodes, NoName   \* names, the inodes they may stand for, no name

VARIABLES
  entries,   \* the [name, ino] pairs
  req,       \* the request in progress
  aborts,    \* requests and walks that a crash has ended
  damaged    \* nothing is promised from here on

vars == <<entries, req, aborts, damaged>>

Asked(k, n, i, d) == [kind |-> k, name |-> n, ino |-> i, done |-> d]

Quiet == Asked("none", NoName, 0, FALSE)
Entry(n, i) == [name |-> n, ino |-> i]

Init == entries = {} /\ req = Quiet /\ aborts = 0 /\ damaged = FALSE

Begin(k, n, i) ==
  /\ req = Quiet
  /\ req' = Asked(k, n, i, FALSE)
  /\ UNCHANGED <<entries, aborts, damaged>>

Add ==
  /\ req.kind = "create" /\ ~req.done
  /\ entries' = entries \cup {Entry(req.name, req.ino)}
  /\ req' = Asked(req.kind, req.name, req.ino, TRUE)
  /\ UNCHANGED <<aborts, damaged>>

(* One of the entries that bear the name. *)
Remove ==
  /\ req.kind = "unlink" /\ ~req.done
  /\ \E e \in entries : e.name = req.name /\ entries' = entries \ {e}
  /\ req' = Asked(req.kind, req.name, req.ino, TRUE)
  /\ UNCHANGED <<aborts, damaged>>

(* A request ends when it is done; one to remove a name also when there is  *)
(* no such name; one to add a name may be refused.                          *)
End ==
  /\ req # Quiet
  /\ \/ req.done
     \/ req.kind = "create"
     \/ \A e \in entries : e.name # req.name
  /\ req' = Quiet
  /\ UNCHANGED <<entries, aborts, damaged>>

(* A crash, before or after the moment.                                     *)
Abort == req' = Quiet /\ aborts' = aborts + 1 /\ UNCHANGED <<entries, damaged>>

(* A directory is damaged when a crash ends a creation that is not done, or *)
(* by a removal: that of its first entry.                                   *)
Damage ==
  /\ damaged' = TRUE
  /\ \/ req.kind = "create" /\ ~req.done /\ aborts' = aborts + 1
     \/ req.kind = "unlink" /\ req'.done /\ aborts' = aborts

Next == \/ \E k \in {"create", "unlink"}, n \in Names, i \in Inodes \cup {0} : Begin(k, n, i)
        \/ Add \/ Remove \/ End \/ Abort \/ Damage
        \/ damaged /\ damaged'

Spec == Init /\ [][Next]_vars
=============================================================================
