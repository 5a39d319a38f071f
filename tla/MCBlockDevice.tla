---------------------------- MODULE MCBlockDevice ----------------------------
(***************************************************************************)
(* Requests for BlockDevice, with sectors of three bytes, of which the     *)
(* first is before the volume, and an image of the eight sectors below     *)
(* INT_MAX.  Writes of one byte, across two bounds of sectors, of a whole  *)
(* sector, of part of one; across the end of /dev/ide; across INT_MAX with *)
(* a whole sector and with part of one behind it; where the position wraps *)
(* to the beginning of the image.  Reads inside the image, through both    *)
(* files, and across INT_MAX.                                              *)
(***************************************************************************)
EXTENDS BlockDevice

Request(minor, o, len, val) == [minor |-> minor, off |-> o, len |-> len, val |-> val]

SomeWrites == {Request(1, 1, 1, 1), Request(1, 2, 5, 2), Request(1, 3, 3, 1),
               Request(0, 1, 1, 2), Request(0, 2, 2, 1),
               Request(1, 20, 4, 2), Request(1, 19, 3, 1), Request(1, 45, 1, 2)}
SomeReads  == {Request(1, 1, 6, 0), Request(0, 0, 12, 0), Request(1, 19, 4, 0)}

(* A write of /dev/ide across its end.                                      *)
LostWrites == {Request(0, 2, 2, 1)}
=============================================================================
