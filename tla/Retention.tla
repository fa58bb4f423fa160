------------------------------ MODULE Retention ------------------------------
(***************************************************************************)
(* Jet Trash, the retention sweep and Autodelete rules of one Plane        *)
(* (jet-core retention/, autodelete/; jet-store conversation/trash.rs,     *)
(* autodelete.rs).                                                         *)
(*                                                                         *)
(* One maintenance worker sweeps; clients issue Commands between its       *)
(* transactions, and the daemon may stop between any two of them.  Of the  *)
(* Deletion ledger only the set of identities it vouches for is kept: the  *)
(* files are the subject of EvidenceLedger.                                *)
(***************************************************************************)
EXTENDS Integers, FiniteSets

CONSTANTS
    Conversations,
    Forgets,        \* those whose policy forgets them after their final Run
    Worktrees,      \* those that work in a managed Workspace
    Protections,    \* the kinds of work in the store that come and go
    NoRow,
    NoConversation,
    GracePeriod,    \* of Jet Trash, in ticks
    BatchLimit,     \* entries one sweep takes on, EXPIRY_BATCH_LIMIT
    Rank,           \* the order of the identities, among entries of one time
    Days,           \* interpretations an Autodelete rule may have, in ticks
    MaxTime,        \* bound on the clock
    MaxFaults       \* bound on restarts and on deletions whose commit fails

ASSUME RetentionAssumption ==
    /\ Forgets \subseteq Conversations /\ Worktrees \subseteq Conversations
    /\ Protections \subseteq {"schedule", "effect", "live"} /\ "live" \in Protections
    /\ NoConversation \notin Conversations
    /\ GracePeriod \in Nat \ {0} /\ Days \subseteq Nat \ {0}
    /\ BatchLimit \in Nat \ {0} /\ Rank \in [Conversations -> Nat]
    /\ MaxTime \in Nat /\ MaxFaults \in Nat

VARIABLES
    rows,       \* the Conversations of the store, with their Trash entries
    dirty,      \* those with a Workspace of uncommitted or unpushed work
    rule,       \* the Autodelete rule of the store
    ledgered,   \* the Conversations the Deletion ledger names
    now,        \* the wall clock
    trusted,    \* whether the Plane can vouch for its Security audit
    job,        \* the sweep of the maintenance worker, in memory
    faults

vars == <<rows, dirty, rule, ledgered, now, trusted, job, faults>>

(* Forgetting by hand, by policy and deleting everywhere differ in what is *)
(* recorded, not in what follows.                                          *)
Reasons == {"forgotten", "autodelete_rule", "autodelete_everywhere", "transferred"}

(* What the store says protects a Conversation: nothing, an enabled        *)
(* schedule, an unresolved Effect, or a live Run or queued Turn.  What its *)
(* Workspace says is not in the store.                                     *)
Work == Protections \union {"none"}

Rows ==
    [work : Work, active : 0..MaxTime,
     trash : Reasons \union {"none"}, expires : 0..(MaxTime + GracePeriod)]
ASSUME NoRowAssumption == NoRow \notin Rows

(* days is 0 while the rule has no interpretation.                         *)
Rules ==
    [exists : BOOLEAN, days : Days \union {0}, approved : BOOLEAN, everywhere : BOOLEAN]

NewConversation == [work |-> "live", active |-> now, trash |-> "none", expires |-> 0]
NoRule == [exists |-> FALSE, days |-> 0, approved |-> FALSE, everywhere |-> FALSE]

NoJob == [phase |-> "idle", conversation |-> NoConversation, by |-> "none", now |-> 0, expired |-> {}]

Held(c) == rows[c] /= NoRow
Staged(c) == Held(c) /\ rows[c].trash /= "none"

Writes(c, row) == rows' = [rows EXCEPT ![c] = row]

-----------------------------------------------------------------------------
(* Commands on Conversations.  Each is one write transaction; one that the *)
(* Security audit records is refused while the audit is in doubt.          *)

(* A Conversation is of interest from its first Run on.                    *)
create_conversation(c) ==
    /\ ~Held(c) /\ c \notin ledgered
    /\ Writes(c, NewConversation)
    /\ UNCHANGED <<dirty, rule, ledgered, now, trusted, job, faults>>

(* The work of a Conversation comes and goes; a Run that ends is activity. *)
Works(c, work) ==
    /\ Held(c) /\ rows[c].work /= work
    /\ Writes(c, [rows[c] EXCEPT !.work = work,
                                 !.active = IF rows[c].work = "live" THEN now ELSE @])
    /\ UNCHANGED <<dirty, rule, ledgered, now, trusted, job, faults>>

(* stage, with insert_trash                                                *)
stage(c, row, reason, at) ==
    Writes(c, [row EXCEPT !.trash = reason, !.expires = at + GracePeriod])

(* The Workspace is written by the user and by Runs, at any time.          *)
Edits(c) ==
    /\ Held(c) /\ c \in Worktrees
    /\ dirty' = IF c \in dirty THEN dirty \ {c} ELSE dirty \union {c}
    /\ UNCHANGED <<rows, rule, ledgered, now, trusted, job, faults>>

require_unstaged(c) == trusted /\ Held(c) /\ ~Staged(c)

forget(c) ==
    /\ require_unstaged(c)
    /\ rows[c].work /= "live"
    /\ stage(c, rows[c], "forgotten", now)
    /\ UNCHANGED <<dirty, rule, ledgered, now, trusted, job, faults>>

(* Queued Turns are canceled at once, a Run is asked to stop and is live   *)
(* until it has.                                                           *)
delete_everywhere(c) ==
    /\ require_unstaged(c)
    /\ \E work \in IF rows[c].work = "live" THEN {"live", "none"} ELSE {rows[c].work} :
        stage(c, [rows[c] EXCEPT !.work = work], "forgotten", now)
    /\ UNCHANGED <<dirty, rule, ledgered, now, trusted, job, faults>>

(* A Plane transfer leaves a tombstone, unless a sweep has made an entry   *)
(* meanwhile, which stays (insert_trash).                                  *)
relinquish(c) ==
    /\ require_unstaged(c)
    /\ rows[c].work /= "live"
    /\ stage(c, rows[c], "transferred", now)
    /\ UNCHANGED <<dirty, rule, ledgered, now, trusted, job, faults>>

restore(c) ==
    /\ trusted /\ Staged(c) /\ rows[c].trash /= "transferred"
    /\ Writes(c, [rows[c] EXCEPT !.trash = "none", !.expires = 0])
    /\ UNCHANGED <<dirty, rule, ledgered, now, trusted, job, faults>>

-----------------------------------------------------------------------------
(* Commands on the Autodelete rule.                                        *)

WritesRule(new) == rule' = new /\ UNCHANGED <<rows, dirty, ledgered, now, trusted, job, faults>>

compile ==
    trusted /\ WritesRule([rule EXCEPT !.exists = TRUE, !.days = 0, !.approved = FALSE, !.everywhere = FALSE])

(* The Utility job that compiles the source answers with a draft.          *)
UtilityDrafts(days) ==
    /\ rule.exists /\ rule.days = 0
    /\ WritesRule([rule EXCEPT !.days = days])

set_inactive_days(days) ==
    /\ trusted /\ rule.exists
    /\ WritesRule([rule EXCEPT !.days = days, !.approved = FALSE, !.everywhere = FALSE])

(* The owner approves the days that were shown, so only a draft of these.  *)
approve(days) ==
    /\ trusted /\ rule.exists /\ ~rule.approved /\ rule.days = days
    /\ WritesRule([rule EXCEPT !.approved = TRUE])

authorize_everywhere ==
    /\ trusted /\ rule.exists /\ rule.approved /\ ~rule.everywhere
    /\ WritesRule([rule EXCEPT !.everywhere = TRUE])

delete_rule == trusted /\ rule.exists /\ WritesRule(NoRule)

-----------------------------------------------------------------------------
(* The sweeps.                                                             *)

unprotected(c) == rows[c].work = "none"

forgettable(c) == Held(c) /\ c \in Forgets /\ ~Staged(c)

approved_matches(c, at) ==
    /\ rule.exists /\ rule.approved
    /\ Held(c) /\ rows[c].work /= "live" /\ rows[c].active + rule.days <= at

(* sweep_retention and sweep_autodelete find a candidate that nothing in   *)
(* the store protects.  Neither begins while the audit is in doubt.        *)
Candidate(c, by) ==
    /\ job = NoJob /\ trusted
    /\ by = "policy" => forgettable(c)
    /\ by = "rule" => approved_matches(c, now) /\ ~Staged(c)
    /\ unprotected(c)
    /\ job' = [NoJob EXCEPT !.phase = "inspecting", !.conversation = c, !.by = by, !.now = now]
    /\ UNCHANGED <<rows, dirty, rule, ledgered, now, trusted, faults>>

(* Its Workspace is inspected outside any transaction, once.               *)
Inspects ==
    /\ job.phase = "inspecting" /\ job.conversation \notin dirty
    /\ job' = [job EXCEPT !.phase = "staging"]
    /\ UNCHANGED <<rows, dirty, rule, ledgered, now, trusted, faults>>

(* Mutant: the rule is not asked again.                                   *)
reason_Unasked(c, by, at) ==
    CASE by = "policy" -> "forgotten"
      [] OTHER -> IF rule.everywhere THEN "autodelete_everywhere" ELSE "autodelete_rule"

(* Staging.reason: a rule is asked again inside the transaction.           *)
reason(c, by, at) ==
    CASE by = "policy" -> "forgotten"
      [] by = "rule" /\ ~approved_matches(c, at) -> "none"
      [] OTHER -> IF rule.everywhere THEN "autodelete_everywhere" ELSE "autodelete_rule"

(* stage_if_unprotected, its write transaction: what the store knows is    *)
(* asked again, for the Workspace the earlier answer is used.              *)
stage_if_unprotected ==
    LET c == job.conversation
        why == reason(c, job.by, job.now)
    IN  /\ job.phase = "staging"
        /\ Held(c) /\ unprotected(c) /\ ~Staged(c) /\ why /= "none"
        /\ stage(c, rows[c], why, job.now)
        /\ job' = NoJob /\ UNCHANGED <<dirty, rule, ledgered, now, trusted, faults>>

(* The candidate is left alone: it is no longer one, or its Workspace is   *)
(* dirty, unpushed or cannot be read.                                      *)
StagingSkipped ==
    /\ job.phase \in {"inspecting", "staging"}
    /\ job' = NoJob /\ UNCHANGED <<rows, dirty, rule, ledgered, now, trusted, faults>>

Due(c) == Staged(c) /\ rows[c].expires <= now
Sooner(d, c) ==
    \/ rows[d].expires < rows[c].expires
    \/ rows[d].expires = rows[c].expires /\ Rank[d] < Rank[c]

(* Mutant: the entries that expired last come first.                       *)
Expired_LastFirst ==
    {c \in Conversations :
        Due(c) /\ Cardinality({d \in Conversations : Due(d) /\ Sooner(c, d)}) < BatchLimit}

(* The entries whose grace period is over, the soonest of them.            *)
Expired ==
    {c \in Conversations :
        Due(c) /\ Cardinality({d \in Conversations : Due(d) /\ Sooner(d, c)}) < BatchLimit}

(* The expired entries are read once per sweep; a snapshot may be due then. *)
expired_trash ==
    LET found == Expired
    IN  /\ job = NoJob /\ trusted
        /\ found /= {}
        /\ job' = [NoJob EXCEPT !.phase = "deleting", !.expired = found, !.now = now]
        /\ UNCHANGED <<rows, dirty, rule, ledgered, now, trusted, faults>>

(* Mutant: only an Effect in flight holds it.                              *)
holds_deletion_EffectsOnly(c) == rows[c].work = "effect"
holds_deletion(c) == rows[c].work \in {"effect", "live"}
Rest(c) ==
    IF job.expired = {c} THEN NoJob ELSE [job EXCEPT !.expired = @ \ {c}]

(* The transaction asks for live work again, and for nothing else.         *)
delete_for_good(c) ==
    /\ job.phase = "deleting" /\ c \in job.expired
    /\ Held(c) /\ ~holds_deletion(c)
    /\ Writes(c, NoRow) /\ dirty' = dirty \ {c} /\ ledgered' = ledgered \union {c}
    /\ job' = Rest(c) /\ UNCHANGED <<rule, now, trusted, faults>>

DeletionWaits(c) ==
    /\ job.phase = "deleting" /\ c \in job.expired
    /\ Held(c) /\ holds_deletion(c)
    /\ job' = Rest(c) /\ UNCHANGED <<rows, dirty, rule, ledgered, now, trusted, faults>>

(* The ledger has its line or not, and the database did not commit: the    *)
(* sweep ends with the error.                                              *)
DeletionFails(c) ==
    /\ job.phase = "deleting" /\ c \in job.expired
    /\ Held(c) /\ ~holds_deletion(c)
    /\ faults < MaxFaults /\ faults' = faults + 1
    /\ ledgered' \in {ledgered, ledgered \union {c}}
    /\ job' = NoJob /\ UNCHANGED <<rows, dirty, rule, now, trusted>>

-----------------------------------------------------------------------------
Tick ==
    /\ now < MaxTime /\ now' = now + 1
    /\ UNCHANGED <<rows, dirty, rule, ledgered, trusted, job, faults>>

(* The owner carries on past an audit that does not validate.              *)
begin_epoch ==
    /\ ~trusted /\ trusted' = TRUE
    /\ UNCHANGED <<rows, dirty, rule, ledgered, now, job, faults>>

(* The daemon is started again: the sweep is forgotten, every identity the *)
(* ledger names is removed from the store (reapply), whatever it is doing, *)
(* and the audit validates or not.                                         *)
Restart ==
    /\ faults < MaxFaults /\ faults' = faults + 1
    /\ rows' = [c \in Conversations |-> IF c \in ledgered THEN NoRow ELSE rows[c]]
    /\ dirty' = dirty \ ledgered /\ trusted' \in BOOLEAN
    /\ job' = NoJob /\ UNCHANGED <<rule, ledgered, now>>

Init ==
    /\ rows = [c \in Conversations |-> NoRow] /\ dirty = {} /\ rule = NoRule
    /\ ledgered = {} /\ trusted = TRUE
    /\ now = 0 /\ job = NoJob /\ faults = 0

Command ==
    \/ \E c \in Conversations :
        \/ create_conversation(c) \/ forget(c) \/ delete_everywhere(c)
        \/ relinquish(c) \/ restore(c) \/ Edits(c)
        \/ \E work \in Work : Works(c, work)
    \/ begin_epoch \/ compile \/ authorize_everywhere \/ delete_rule
    \/ \E days \in Days : UtilityDrafts(days) \/ set_inactive_days(days) \/ approve(days)

Sweep ==
    \/ \E c \in Conversations :
        \/ Candidate(c, "policy") \/ Candidate(c, "rule")
        \/ delete_for_good(c) \/ DeletionWaits(c) \/ DeletionFails(c)
    \/ Inspects \/ stage_if_unprotected \/ StagingSkipped \/ expired_trash

Next == Command \/ Sweep \/ Restart \/ Tick

Spec == Init /\ [][Next]_vars

(* The worker keeps sweeping while anything is in Jet Trash, at least each *)
(* second after an expiry or an error (delay_until, daemon.rs), and the    *)
(* clock goes on.  One pass of the worker sweeps the policies, the expired *)
(* entries and the rules in turn, so none keeps it from another.           *)
Fairness ==
    /\ SF_vars(expired_trash) /\ WF_vars(Inspects \/ stage_if_unprotected \/ StagingSkipped)
    /\ \A c \in Conversations : WF_vars(delete_for_good(c) \/ DeletionWaits(c) \/ DeletionFails(c))
    /\ WF_vars(Tick)

FairSpec == Spec /\ Fairness

-----------------------------------------------------------------------------
(* Properties.                                                             *)

TypeOK ==
    /\ rows \in [Conversations -> Rows \union {NoRow}] /\ rule \in Rules
    /\ dirty \subseteq Worktrees /\ ledgered \subseteq Conversations /\ trusted \in BOOLEAN
    /\ now \in 0..MaxTime /\ faults \in 0..MaxFaults
    /\ job \in [phase : {"idle", "inspecting", "staging", "deleting"}, by : {"none", "policy", "rule"},
                conversation : Conversations \union {NoConversation},
                now : 0..now, expired : SUBSET Conversations]
    /\ job.phase \in {"inspecting", "staging"} => job.conversation \in Conversations /\ job.by /= "none"

(* An Autodelete rule stages a Conversation only as its owner approved it:  *)
(* the interpretation and the scope are those in force when the entry is    *)
(* written, whatever was edited, approved, deleted or restored since the    *)
(* sweep read the rule, and a Run that came and went keeps its Conversation *)
(* (autodelete/sweep.rs:31, still_matches).  Nothing the store knows of     *)
(* protects it then; its Workspace was clean when it was inspected, and     *)
(* this says nothing of it any more (retention/sweep.rs:125).               *)
StagedAsApproved ==
    [][\A c \in Conversations :
        Held(c) /\ rows'[c] /= NoRow /\ rows[c].trash = "none"
            /\ rows'[c].trash \in {"autodelete_rule", "autodelete_everywhere"} =>
        /\ rule.approved /\ rows[c].active + rule.days <= now
        /\ rows'[c].trash = "autodelete_everywhere" <=> rule.everywhere
        /\ rows[c].work = "none"]_vars

(* A Conversation with live work or an Effect in flight is not deleted,     *)
(* although the work may have begun after its grace period ended and after  *)
(* the sweep read its entry (retention/sweep.rs:147).  Only one way is left *)
(* for its rows to go: a deletion that found it idle left a line in the     *)
(* ledger and could not commit, the work began after that, and the daemon   *)
(* starts again and reapplies the ledger (deletion/reapply.rs:50).          *)
WorkHoldsDeletion ==
    [][\A c \in Conversations :
        Held(c) /\ rows[c].work \in {"effect", "live"} =>
        /\ rows'[c] = NoRow => c \in ledgered /\ Restart
        /\ c \notin ledgered => c \notin ledgered']_vars

(* A full batch of entries that expired sooner waits for work.             *)
Crowded(c) ==
    BatchLimit <= Cardinality({d \in Conversations : Due(d) /\ Sooner(d, c) /\ holds_deletion(d)})

(* Jet Trash empties: a Conversation whose grace period ends (before the    *)
(* bound of the clock) is deleted in the end, unless it is restored or has  *)
(* work that holds its deletion, a full batch of such entries is ahead of   *)
(* it, or the audit is in doubt (maintenance.rs, retention/sweep.rs:46).    *)
TrashEmpties ==
    \A c \in Conversations :
        Staged(c) /\ rows[c].expires <= MaxTime
            ~> \/ ~Held(c) \/ ~Staged(c) \/ holds_deletion(c)
               \/ Crowded(c) \/ ~trusted

(* Restoring a Conversation keeps it: a deletion commits only for one that  *)
(* is in Jet Trash with its grace period over (docs/retention.md:11).       *)
RestoredIsKept ==
    [][\A c \in Conversations :
        Held(c) /\ rows'[c] = NoRow => Staged(c) /\ rows[c].expires <= now]_vars
=============================================================================
