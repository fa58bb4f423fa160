--------------------------- MODULE MCRemoteAccess ---------------------------
(***************************************************************************)
(* Small instances of RemoteAccess.                                        *)
(***************************************************************************)
EXTENDS RemoteAccess, TLC

CONSTANTS owner, guest, n1, n2, m1

(* Outcomes that every release reads, and that of a Jet Trash Command.     *)
Plain == m1 :> 1
Trashing == m1 :> 13

ConnectionSymmetry == Permutations(Connections)
=============================================================================
