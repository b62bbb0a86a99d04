----------------------------- MODULE TableSizes -----------------------------
(***************************************************************************)
(* What all arrays of tables.c begin with.                                 *)
(***************************************************************************)
EXTENDS Naturals

CONSTANT StartSize  \* TALBE_START_SIZE

ASSUME StartSizeAssumption == StartSize \in Nat \ {0}
=============================================================================
