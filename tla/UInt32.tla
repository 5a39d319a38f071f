------------------------------- MODULE UInt32 -------------------------------
(***************************************************************************)
(* The arithmetic of uint32_t, as far as it differs from that of Integers. *)
(***************************************************************************)
EXTENDS Integers

CONSTANT U32     \* the number of uint32_t values, 2^32 in the program

ASSUME U32Assumption == U32 \in Nat \ {0}

(* uint32_t subtraction of values that are themselves below U32. *)
Sub32(a, b) == IF a >= b THEN a - b ELSE U32 + a - b
=============================================================================
