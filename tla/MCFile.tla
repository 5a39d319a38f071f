------------------------------- MODULE MCFile -------------------------------
(***************************************************************************)
(* Small files for Ext2File: one direct entry and two words per block, so  *)
(* that 1, 2, 4 and 8 blocks lie in the four modes and 30 words fill them. *)
(***************************************************************************)
EXTENDS Ext2File

Request(o, n, v) == [off |-> o, len |-> n, val |-> v]

(* Within a block, which an earlier request may have half filled; from the  *)
(* direct into the single indirect blocks; across two index blocks of the   *)
(* double indirect tree; in the triple one.                                 *)
SomeWrites == {Request(2, 2, 1), Request(0, 3, 2), Request(8, 4, 1), Request(15, 2, 2)}
SomeReads  == {Request(0, 6, 0), Request(9, 8, 0)}

(* One long write each: direct, single and double indirect.                 *)
FullWrites == {Request(0, 3, 1), Request(2, 4, 3), Request(6, 3, 2)}
=============================================================================
