-------------------------- MODULE MCEvidenceLedger --------------------------
(***************************************************************************)
(* A small instance of EvidenceLedger.                                     *)
(***************************************************************************)
EXTENDS EvidenceLedger, TLC

CONSTANTS i1, i2

IdentitySymmetry == Permutations(Identities)
=============================================================================
