---------------------------- MODULE PlaneTransfer ----------------------------
(***************************************************************************)
(* Moving the Home Plane of one Conversation (jet-core plane_transfer/,    *)
(* jet-store authority/): prepare on the source, import on the target,     *)
(* relinquish on the source, commit on the target, or abort.               *)
(*                                                                         *)
(* Clients carry bundles and Authority fences between Planes that never    *)
(* talk to each other; a document that was answered once may be presented  *)
(* any number of times, at any later moment and in any order.  A fence is  *)
(* appended to a file beside the database before the relinquishing         *)
(* transaction commits, and is reapplied at every start.                   *)
(***************************************************************************)
EXTENDS Integers, FiniteSets

CONSTANTS
    Planes,
    Origin,         \* the Plane the Conversation was created on
    Transfers,      \* bound: the transfers that are ever recorded
    NoRow,
    NoTransfer,
    LateBundles,    \* may a bundle be presented to a Plane that has deleted
                    \* the Conversation since it imported it?
    MaxTurns,       \* bound on the turns the Conversation completes
    MaxFaults       \* bound on restarts and on commits that fail

Authorities == {"home", "prepared", "relinquished"}
Trash == {"none", "forgotten", "transferred"}

(* What a Plane stores of the Conversation and of a transfer.              *)
Rows == [authority : Authorities, epoch : Nat, content : Nat, busy : BOOLEAN, trash : Trash]
TransferRows ==
    [role : {"source", "target"}, phase : {"prepared", "relinquished", "committed"},
     peer : Planes, retired : Nat, content : Nat]

ASSUME TransferAssumption ==
    /\ NoRow \notin Rows /\ NoRow \notin TransferRows
    /\ Origin \in Planes
    /\ NoTransfer \notin Transfers
    /\ LateBundles \in BOOLEAN
    /\ MaxTurns \in Nat /\ MaxFaults \in Nat

VARIABLES
    conversations,  \* per Plane, its row of the Conversation
    transfers,      \* ... its rows of transfers
    fences,         \* ... the epochs its ledger says it has retired
    deleted,        \* the Planes whose Deletion ledger names the Conversation
    preparing,      \* per Plane, the prepare between its read and its write
    bundles,        \* what the clients hold: the bundles answered so far ...
    documents,      \* ... and the fences
    written,        \* history: the turns the Conversation has completed ...
    unseen,         \* ... those of them completed between a prepare's read
                    \* and its write, on its Plane
    faults

stores == <<conversations, transfers>>
ledgers == <<fences, deleted>>
clients == <<bundles, documents>>
vars == <<conversations, transfers, fences, deleted, preparing, bundles, documents,
          written, unseen, faults>>

NoPlan == [transfer |-> NoTransfer, target |-> Origin, recorded |-> FALSE, content |-> 0]
NoTransfers == [t \in Transfers |-> NoRow]

Held(p) == conversations[p] /= NoRow
Is(p, authority) == Held(p) /\ conversations[p].authority = authority
Recorded(p, t, role) == transfers[p][t] /= NoRow /\ transfers[p][t].role = role

-----------------------------------------------------------------------------
(* Work on the Conversation.                                               *)

open_plane_transfer(p) ==
    {t \in Transfers : transfers[p][t] /= NoRow /\ transfers[p][t].phase = "prepared"}
Frozen(p) == \E t \in open_plane_transfer(p) : Recorded(p, t, "source")

(* Mutant: a prepared transfer does not freeze the Conversation.           *)
require_authoritative_Unfrozen(p) == Is(p, "home")
require_authoritative(p) == Is(p, "home") /\ ~Frozen(p)
has_live_work(p) == conversations[p].busy

Changes(p, row) == conversations' = [conversations EXCEPT ![p] = row]

(* A turn is admitted by a Command, or by a schedule.                      *)
Admits(p) ==
    /\ require_authoritative(p) /\ ~has_live_work(p)
    /\ Changes(p, [conversations[p] EXCEPT !.busy = TRUE])
    /\ UNCHANGED <<transfers, ledgers, preparing, clients, written, unseen, faults>>

(* It is completed by a Run.  The workers that start Runs for schedules    *)
(* and for queued turns do not take the gate of the Commands: a Run may    *)
(* start and end while a transfer is being prepared.                       *)
Completes(p) ==
    /\ Held(p) /\ has_live_work(p)
    /\ written < MaxTurns /\ written' = written + 1
    /\ unseen' = IF preparing[p] = NoPlan THEN unseen ELSE unseen + 1
    /\ Changes(p, [conversations[p] EXCEPT !.busy = FALSE, !.content = @ + 1])
    /\ UNCHANGED <<transfers, ledgers, preparing, clients, faults>>

(* It expires in the queue or is withdrawn.                                *)
Withdrawn(p) ==
    /\ Held(p) /\ has_live_work(p)
    /\ Changes(p, [conversations[p] EXCEPT !.busy = FALSE])
    /\ UNCHANGED <<transfers, ledgers, preparing, clients, written, unseen, faults>>

-----------------------------------------------------------------------------
(* Jet Trash.                                                              *)

forget(p) ==
    /\ Held(p) /\ conversations[p].trash = "none"
    /\ ~Frozen(p) /\ ~has_live_work(p)
    /\ preparing[p] = NoPlan
    /\ Changes(p, [conversations[p] EXCEPT !.trash = "forgotten"])
    /\ UNCHANGED <<transfers, ledgers, preparing, clients, written, unseen, faults>>

(* The sweep of a retention policy or of an Autodelete rule asks neither   *)
(* for a prepared transfer nor for the gate of the Commands.               *)
stage_if_unprotected(p) ==
    /\ Held(p) /\ conversations[p].trash = "none"
    /\ ~has_live_work(p)
    /\ Changes(p, [conversations[p] EXCEPT !.trash = "forgotten"])
    /\ UNCHANGED <<transfers, ledgers, preparing, clients, written, unseen, faults>>

restore(p) ==
    /\ Held(p) /\ conversations[p].trash = "forgotten"
    /\ preparing[p] = NoPlan
    /\ Changes(p, [conversations[p] EXCEPT !.trash = "none"])
    /\ UNCHANGED <<transfers, ledgers, preparing, clients, written, unseen, faults>>

StillHeld(p) ==
    IF LateBundles THEN bundles ELSE {b \in bundles : b.target /= p}

(* The grace period ends: the row goes, with its transfers, and the        *)
(* Deletion ledger names it.                                               *)
TombstoneExpires(p) ==
    /\ Held(p) /\ conversations[p].trash /= "none"
    /\ ~has_live_work(p)
    /\ Changes(p, NoRow)
    /\ transfers' = [transfers EXCEPT ![p] = NoTransfers]
    /\ deleted' = deleted \union {p}
    /\ bundles' = StillHeld(p)
    /\ UNCHANGED <<fences, preparing, documents, written, unseen, faults>>

-----------------------------------------------------------------------------
(* prepare_plane_transfer, on the source p.                                *)

Fresh == {t \in Transfers : \A p \in Planes : preparing[p].transfer /= t /\ transfers[p][t] = NoRow}
             \ ({b.transfer : b \in bundles} \union {d.transfer : d \in documents})

(* plan: the open transfer to the same target is continued, one to another *)
(* target refuses, and otherwise a new identity is chosen.                 *)
Continues(p, q) ==
    {[transfer |-> t, target |-> q, recorded |-> TRUE, content |-> conversations[p].content] :
        t \in {t \in open_plane_transfer(p) : Recorded(p, t, "source") /\ transfers[p][t].peer = q}}
Begins(p, q) ==
    IF open_plane_transfer(p) = {} /\ ~has_live_work(p) /\ conversations[p].trash = "none"
    THEN {[transfer |-> t, target |-> q, recorded |-> FALSE, content |-> conversations[p].content] :
            t \in Transfers}
    ELSE {}
plan(p, q) ==
    IF Is(p, "home") /\ p /= q THEN Continues(p, q) \union Begins(p, q) ELSE {}

(* The bundle is captured in one read ...                                  *)
PrepareReads(p, q) ==
    /\ preparing[p] = NoPlan
    /\ \E new \in plan(p, q) :
        /\ new.recorded \/ new.transfer \in Fresh
        /\ preparing' = [preparing EXCEPT ![p] = new]
    /\ UNCHANGED <<stores, ledgers, clients, written, unseen, faults>>

(* ... and recorded in a later write, which plans again.                   *)
PrepareRecords(p) ==
    LET mine == preparing[p]
        row == [role |-> "source", phase |-> "prepared", peer |-> mine.target,
                retired |-> conversations[p].epoch, content |-> mine.content]
    IN  /\ mine /= NoPlan
        /\ \E now \in plan(p, mine.target) :
            now.recorded = mine.recorded /\ now.transfer = mine.transfer
        /\ IF mine.recorded
           THEN transfers[p][mine.transfer].content = mine.content /\ UNCHANGED transfers
           ELSE transfers' = [transfers EXCEPT ![p][mine.transfer] = row]
        /\ bundles' = bundles \union
            {[transfer |-> mine.transfer, source |-> p, target |-> mine.target,
              retired |-> conversations[p].epoch, content |-> mine.content]}
        /\ preparing' = [preparing EXCEPT ![p] = NoPlan]
        /\ UNCHANGED <<conversations, ledgers, documents, written, unseen, faults>>

(* The Conversation moved in between, or a payload cannot be read.         *)
PrepareFails(p) ==
    /\ preparing[p] /= NoPlan
    /\ preparing' = [preparing EXCEPT ![p] = NoPlan]
    /\ UNCHANGED <<stores, ledgers, clients, written, unseen, faults>>

-----------------------------------------------------------------------------
(* The Commands that settle it.  One that was done already answers again   *)
(* and changes nothing.                                                    *)

(* record, of the import on the target b.target.                           *)
import(b) ==
    LET q == b.target
    IN  /\ transfers[q][b.transfer] = NoRow
        /\ Held(q) => Is(q, "relinquished") /\ conversations[q].epoch < b.retired + 1
        /\ preparing[q] = NoPlan
        /\ Changes(q, [authority |-> "prepared", epoch |-> b.retired + 1,
                       content |-> b.content, busy |-> FALSE, trash |-> "none"])
        /\ transfers' = [transfers EXCEPT ![q] =
            [NoTransfers EXCEPT ![b.transfer] =
                [role |-> "target", phase |-> "prepared", peer |-> b.source,
                 retired |-> b.retired, content |-> b.content]]]
        /\ UNCHANGED <<ledgers, preparing, clients, written, unseen, faults>>

(* recorded and require_bundle *)
Presents(p, b, role) ==
    /\ Recorded(p, b.transfer, role)
    /\ transfers[p][b.transfer].content = b.content
    /\ preparing[p] = NoPlan

fence(p, t) ==
    [transfer |-> t, source |-> p, target |-> transfers[p][t].peer,
     retired |-> transfers[p][t].retired]

Relinquishable(p, b) ==
    /\ Presents(p, b, "source")
    /\ transfers[p][b.transfer].phase = "prepared"
    /\ Held(p) /\ ~has_live_work(p)

(* Mutant: the fence is not written.                                       *)
Fences_Nothing(p, epoch) == UNCHANGED fences
Fences(p, epoch) == fences' = [fences EXCEPT ![p] = @ \union {epoch}]

(* Mutant: the tombstone is left and the authority is not retired.         *)
Tombstone_AtHome(row, epoch) == [row EXCEPT !.trash = "transferred"]
(* An entry of Jet Trash that a sweep has made since the prepare stays     *)
(* (insert_trash).                                                         *)
Tombstone(row, epoch) ==
    [row EXCEPT !.authority = "relinquished", !.epoch = epoch,
                !.trash = IF @ = "none" THEN "transferred" ELSE @]

(* A fence the ledger already holds, reapplied at a start, is not raised   *)
(* twice (already_fenced): the ledger is a set of epochs here.             *)
relinquish(b) ==
    LET p == b.source
        t == b.transfer
    IN  /\ Relinquishable(p, b)
        /\ Fences(p, transfers[p][t].retired)
        /\ Changes(p, Tombstone(conversations[p], transfers[p][t].retired))
        /\ transfers' = [transfers EXCEPT ![p][t].phase = "relinquished"]
        /\ documents' = documents \union {fence(p, t)}
        /\ UNCHANGED <<deleted, preparing, bundles, written, unseen, faults>>

(* The fence names this transfer, the retired epoch, this Plane and its    *)
(* source.                                                                 *)
Validates(d, q, t) ==
    d = [transfer |-> t, source |-> transfers[q][t].peer, target |-> q,
         retired |-> transfers[q][t].retired]

commit(b, d) ==
    LET q == b.target
        t == b.transfer
        row == transfers[q][t]
    IN  /\ Presents(q, b, "target")
        /\ row.phase = "prepared"
        /\ Validates(d, q, t)
        /\ Is(q, "prepared") /\ conversations[q].epoch = row.retired + 1
        /\ Changes(q, [conversations[q] EXCEPT !.authority = "home"])
        /\ transfers' = [transfers EXCEPT ![q][t].phase = "committed"]
        /\ UNCHANGED <<ledgers, preparing, clients, written, unseen, faults>>

(* abort asks for the phase of the transfer, not for the authority.        *)
abort(p, t) ==
    /\ Recorded(p, t, "source") /\ transfers[p][t].phase = "prepared"
    /\ preparing[p] = NoPlan
    /\ transfers' = [transfers EXCEPT ![p][t] = NoRow]
    /\ UNCHANGED <<conversations, ledgers, preparing, clients, written, unseen, faults>>

-----------------------------------------------------------------------------
(* Faults.                                                                 *)

Fault == faults < MaxFaults /\ faults' = faults + 1

(* The fence has reached its ledger, and the database does not commit.     *)
RelinquishFails(b) ==
    /\ Relinquishable(b.source, b) /\ Fault
    /\ Fences(b.source, transfers[b.source][b.transfer].retired)
    /\ UNCHANGED <<stores, deleted, preparing, clients, written, unseen>>

(* Every identity the Deletion ledger names is removed again, whatever     *)
(* epoch it is in, and a Conversation still at Home in a fenced epoch is   *)
(* relinquished (deletion reapply, authority reapply).                     *)
Reopened(p) ==
    LET row == conversations[p]
    IN  IF row = NoRow \/ p \in deleted THEN NoRow
        ELSE IF row.authority = "home" /\ row.epoch \in fences[p]
             THEN [row EXCEPT !.authority = "relinquished"]
             ELSE row

(* Runs are recovered at a start: the work of the Conversation goes on.    *)
Restart(p) ==
    /\ Fault
    /\ Changes(p, Reopened(p))
    /\ transfers' = IF p \in deleted THEN [transfers EXCEPT ![p] = NoTransfers] ELSE transfers
    /\ bundles' = IF p \in deleted THEN StillHeld(p) ELSE bundles
    /\ preparing' = [preparing EXCEPT ![p] = NoPlan]
    /\ UNCHANGED <<ledgers, documents, written, unseen>>

-----------------------------------------------------------------------------
Init ==
    /\ conversations = [p \in Planes |->
        IF p = Origin
        THEN [authority |-> "home", epoch |-> 1, content |-> 0, busy |-> FALSE, trash |-> "none"]
        ELSE NoRow]
    /\ transfers = [p \in Planes |-> NoTransfers]
    /\ fences = [p \in Planes |-> {}] /\ deleted = {}
    /\ preparing = [p \in Planes |-> NoPlan]
    /\ bundles = {} /\ documents = {}
    /\ written = 0 /\ unseen = 0 /\ faults = 0

Next ==
    \/ \E p \in Planes :
        \/ Admits(p) \/ Completes(p) \/ Withdrawn(p)
        \/ forget(p) \/ stage_if_unprotected(p) \/ restore(p) \/ TombstoneExpires(p)
        \/ PrepareRecords(p) \/ PrepareFails(p) \/ Restart(p)
        \/ \E q \in Planes : PrepareReads(p, q)
        \/ \E t \in Transfers : abort(p, t)
    \/ \E b \in bundles :
        \/ import(b) \/ relinquish(b) \/ RelinquishFails(b)
        \/ \E d \in documents : commit(b, d)

Spec == Init /\ [][Next]_vars

-----------------------------------------------------------------------------
(* Properties.                                                             *)

Homes == {p \in Planes : Is(p, "home")}

TypeOK ==
    /\ conversations \in [Planes -> {NoRow} \union Rows]
    /\ transfers \in [Planes -> [Transfers -> {NoRow} \union TransferRows]]
    /\ fences \in [Planes -> SUBSET Nat] /\ deleted \subseteq Planes
    /\ preparing \in [Planes -> [transfer : Transfers \union {NoTransfer}, target : Planes,
                                 recorded : BOOLEAN, content : Nat]]
    /\ bundles \subseteq [transfer : Transfers, source : Planes, target : Planes,
                          retired : Nat, content : Nat]
    /\ documents \subseteq [transfer : Transfers, source : Planes, target : Planes,
                            retired : Nat]
    /\ written \in Nat /\ unseen \in Nat /\ faults \in 0..MaxFaults

(* No two Planes are Home at once: whatever is repeated, delayed, aborted,  *)
(* prepared again for another target, or interrupted between the fence and  *)
(* its commit (migrations/20260914164556_plane_transfers.sql:2, settle.rs). *)
OneHome == Cardinality(Homes) <= 1

(* Authority passes only over durable fences, in one line of epochs: every  *)
(* epoch before that of a Home is retired in a ledger, where no lost commit *)
(* can take it back, and none after it is (relinquish_plane_transfer).      *)
HomeIsFenced ==
    LET retired == UNION {fences[p] : p \in Planes}
    IN  \A p \in Homes :
            /\ 1..(conversations[p].epoch - 1) \subseteq retired
            /\ retired \subseteq 1..conversations[p].epoch

(* The Home holds every turn the Conversation completed on any Plane, but   *)
(* for those that a Run completed between the read and the write of a       *)
(* prepare: the freeze, the second plan and the check of relinquish leave   *)
(* no other turn behind in a tombstone (prepare.rs:51, settle.rs:48,        *)
(* mod.rs:150).  The second plan compares the revision of the Conversation, *)
(* which a turn does not raise.                                             *)
NothingLost == \A p \in Homes : conversations[p].content \in (written - unseen)..written
=============================================================================
