---------------------------- MODULE MCInodeAlloc ----------------------------
(* Two groups of three inodes for Ext2InodeAlloc: one to be had in the      *)
(* root's group, two in the other.                                          *)
EXTENDS Ext2InodeAlloc
SomeReserved == {1, 6}
=============================================================================
