------------------------------- MODULE MCDir --------------------------------
(***************************************************************************)
(* A small directory for Ext2Dir: behind "." and ".." the first block of   *)
(* nine units has room for one short entry, and the second one for three   *)
(* short or two long ones.                                                 *)
(***************************************************************************)
EXTENDS Ext2Dir

SomeNames == {".", "..", "a", "lo"}
SomeNeeds == [n \in SomeNames |-> IF n = "lo" THEN 4 ELSE 3]
=============================================================================
