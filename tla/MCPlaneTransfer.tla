-------------------------- MODULE MCPlaneTransfer --------------------------
(***************************************************************************)
(* Small instances of PlaneTransfer.                                       *)
(***************************************************************************)
EXTENDS PlaneTransfer, TLC

CONSTANTS a, b, c, t1, t2, t3

TransferSymmetry == Permutations(Transfers)
=============================================================================
