------------------------------ MODULE TurnQueue ------------------------------
(***************************************************************************)
(* The durable Turn queue of one Conversation (jet-core/src/turn/queue.rs  *)
(* and the settlement of turn/dispatch.rs) as operations on its entries.   *)
(* A prompt is its Turn; the byte bound on all prompts together is the     *)
(* same check as the bound on their number and is left out.                *)
(***************************************************************************)
EXTENDS Subsequence, SequencesExt

CONSTANTS
    Turns,      \* inputs, each admitted at most once
    Runs,       \* Run identities
    Source,     \* Source[t]: "user", "schedule" or "auto_continue"
    QueueLimit, \* entries a queue may hold (128 in the code)
    NoTurn, NoRun

ASSUME QueueAssumption ==
    /\ Source \in [Turns -> {"user", "schedule", "auto_continue"}]
    /\ QueueLimit \in Nat \ {0}
    /\ NoTurn \notin Turns
    /\ NoRun \notin Runs

(* What a TurnChanged Event says of a Turn, "absent" before the first.     *)
Statuses == {"absent", "queued", "active", "completed", "failed", "canceled",
             "outcome_unknown", "superseded", "withdrawn"}

Claims == {"active", "outcome_unknown"}
Entry == [turn : Turns, state : {"queued"} \union Claims, run : Runs \union {NoRun}]

(* Mutant: an automatic retry takes the place of user input.               *)
Replaced_Any(e, t) ==
    e.state = "queued" /\ (Source[e.turn] = Source[t] \/ Source[t] = "auto_continue")

(* A queued entry gives way to newer automatic input of its own source, and*)
(* an automatic retry gives way to the user.                               *)
Replaced(e, t) ==
    /\ e.state = "queued"
    /\ IF Source[t] = "user" THEN Source[e.turn] = "auto_continue"
       ELSE Source[e.turn] = Source[t]

Kept(q, t) == Sub(q, {i \in DOMAIN q : ~Replaced(q[i], t)})
Displaced(q, t) == {q[i].turn : i \in {j \in DOMAIN q : Replaced(q[j], t)}}

(* The state a displaced entry ends in.                                    *)
DisplacedState(t) == IF Source[t] = "user" THEN "canceled" ELSE "superseded"

(* The bound is checked against what stays, before anything is written.    *)
Admissible(q, t) == Len(Kept(q, t)) < QueueLimit
prepare(q, t) == Append(Kept(q, t), [turn |-> t, state |-> "queued", run |-> NoRun])

position(q, t) == {i \in DOMAIN q : q[i].turn = t}
withdraw(q, t) == RemoveAt(q, Min(position(q, t)))

ready(q) == q # <<>> /\ \A i \in DOMAIN q : q[i].state = "queued"

(* Mutant: the newest input is claimed.                                    *)
claimed_Last(q) == Len(q)

(* The entry a claim takes.                                                *)
claimed(q) == 1

claim(q, r) == [q EXCEPT ![claimed(q)] = [@ EXCEPT !.state = "active", !.run = r]]

(* The entries that belong to Run r: settle takes the first of them.       *)
Owned(q, r) == {i \in DOMAIN q : q[i].run = r}

active_turn(q, r) ==
    IF \E i \in Owned(q, r) : q[i].state = "active"
    THEN q[CHOOSE i \in Owned(q, r) : q[i].state = "active"].turn
    ELSE NoTurn

(* Mutant: a settled entry stays in the queue.                             *)
settle_Keeps(q, i, state) == [q EXCEPT ![i] = [@ EXCEPT !.state = state]]

(* An unknown outcome stays in the queue and holds it; any other leaves.   *)
settle(q, i, state) ==
    IF state = "outcome_unknown" THEN [q EXCEPT ![i] = [@ EXCEPT !.state = state]]
    ELSE RemoveAt(q, i)
=============================================================================
