---------------------------- MODULE MCManagedRun ----------------------------
(***************************************************************************)
(* Small instances of ManagedRun.                                          *)
(***************************************************************************)
EXTENDS ManagedRun

CONSTANTS t1, t2, t3, r1, r2, c1, c2

TwoUser == t1 :> "user" @@ t2 :> "user"
UserAndRetries == t1 :> "user" @@ t2 :> "auto_continue" @@ t3 :> "auto_continue"
(* For instances whose Turns all have one source.                          *)
RunTurnSymmetry == Permutations(Runs) \union Permutations(Turns)
(* For UserAndRetries.                                                     *)
ControlSymmetry == Permutations(Controls) \union Permutations({t2, t3})
=============================================================================
