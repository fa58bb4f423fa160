--------------------------- MODULE MCEffectOutbox ---------------------------
(***************************************************************************)
(* Small instances of EffectOutbox.                                        *)
(***************************************************************************)
EXTENDS EffectOutbox, TLC

CONSTANTS e1, e2, e3, w1, w2

(* One row for each way of handling an attempt: the generic sweep with     *)
(* retries (a promotion to a branch), a Git delivery and a Utility job.    *)
MixedKind == e1 :> "PromoteWorkspace" @@ e2 :> "GitDelivery" @@ e3 :> "Utility"
MixedSafety == e1 :> "idempotent" @@ e2 :> "ambiguous" @@ e3 :> "ambiguous"
MixedAttempts == e1 :> 2 @@ e2 :> 1 @@ e3 :> 1

(* Two ambiguous rows of one kind, so that a sweep comes back to a row     *)
(* after a long call for another one, and an extension change.             *)
LaunchKind == e1 :> "StartRun" @@ e2 :> "StartRun" @@ e3 :> "ChangeExtension"
LaunchSafety == e1 :> "ambiguous" @@ e2 :> "ambiguous" @@ e3 :> "ambiguous"
LaunchAttempts == e1 :> 1 @@ e2 :> 1 @@ e3 :> 1

WorkerSymmetry == Permutations(Workers)
=============================================================================
