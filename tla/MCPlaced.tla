------------------------------ MODULE MCPlaced ------------------------------
(***************************************************************************)
(* The program "placed" of MCKernel, in which no queue is fed from above.  *)
(***************************************************************************)
EXTENDS MCKernel

ASSUME PlacedAssumption == NoPushFromAbove
=============================================================================
