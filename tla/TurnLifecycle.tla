---------------------------- MODULE TurnLifecycle ----------------------------
(***************************************************************************)
(* What a client of a Conversation is promised about its Turns, whatever   *)
(* happens to jetd, the Crafts and the helpers: input waits in the order   *)
(* of its admission, one Turn at a time owns execution and it is the       *)
(* oldest, user input only leaves the queue by execution or by its own     *)
(* withdrawal, and an outcome is given once.                               *)
(***************************************************************************)
EXTENDS Subsequence, SequencesExt

CONSTANTS Turns, Source, NoTurn

VARIABLES
    status,   \* what the journal last said of every Turn
    waiting,  \* the queued Turns, oldest first
    owner     \* the Turn that owns execution

vars == <<status, waiting, owner>>

Outcomes == {"completed", "failed", "canceled"}

Init ==
    /\ status = [t \in Turns |-> "absent"]
    /\ waiting = <<>>
    /\ owner = NoTurn

(* Automatic input may be displaced by the admission of t.                 *)
Displace(t, gone) ==
    /\ gone \subseteq {u \in ToSet(waiting) : Source[u] # "user"}
    /\ \A u \in gone : Source[t] \in {"user", Source[u]}

(* The others wait in the order they did.                                  *)
Without(gone) == Sub(waiting, {i \in DOMAIN waiting : waiting[i] \notin gone})
After(t, gone) == Append(Without(gone), t)

Admitted(t, gone) ==
    [u \in Turns |-> IF u = t THEN "queued"
                     ELSE IF u \in gone
                     THEN (IF Source[t] = "user" THEN "canceled" ELSE "superseded")
                     ELSE status[u]]

Admit(t) ==
    \E gone \in SUBSET Turns :
        /\ status[t] = "absent"
        /\ Displace(t, gone)
        /\ status' = Admitted(t, gone)
        /\ waiting' = After(t, gone)
        /\ UNCHANGED owner

(* Starting a Run admits input and gives execution to the oldest.          *)
AdmitAndClaim(t) ==
    \E gone \in SUBSET Turns :
        /\ status[t] = "absent" /\ owner = NoTurn
        /\ Displace(t, gone)
        /\ owner' = Head(After(t, gone))
        /\ waiting' = Tail(After(t, gone))
        /\ status' = [Admitted(t, gone) EXCEPT ![owner'] = "active"]

Withdraw(t) ==
    /\ status[t] = "queued" /\ Source[t] = "user"
    /\ status' = [status EXCEPT ![t] = "withdrawn"]
    /\ waiting' = Without({t})
    /\ UNCHANGED owner

Claim ==
    /\ owner = NoTurn /\ waiting # <<>>
    /\ owner' = Head(waiting)
    /\ waiting' = Tail(waiting)
    /\ status' = [status EXCEPT ![owner'] = "active"]

(* Delivery became uncertain: the Turn keeps execution to itself.          *)
Doubt ==
    /\ owner # NoTurn /\ status[owner] = "active"
    /\ status' = [status EXCEPT ![owner] = "outcome_unknown"]
    /\ UNCHANGED <<waiting, owner>>

Settle(outcome) ==
    /\ owner # NoTurn
    /\ status' = [status EXCEPT ![owner] = outcome]
    /\ owner' = NoTurn
    /\ UNCHANGED waiting

Next ==
    \/ \E t \in Turns : Admit(t) \/ AdmitAndClaim(t) \/ Withdraw(t)
    \/ Claim \/ Doubt
    \/ \E outcome \in Outcomes : Settle(outcome)

Spec == Init /\ [][Next]_vars
=============================================================================
