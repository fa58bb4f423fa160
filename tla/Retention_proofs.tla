-------------------------- MODULE Retention_proofs --------------------------
(***************************************************************************)
(* Proofs about Retention, for any Conversations, policies, grace period,  *)
(* interpretations of the rule and number of faults.                       *)
(***************************************************************************)
EXTENDS Retention, TLAPS

(* A row that is held is a row.                                            *)
LEMMA HeldRow ==
    ASSUME TypeOK, NEW c \in Conversations, Held(c)
    PROVE  /\ rows[c] \in Rows /\ rows[c].work \in Work /\ rows[c].active \in 0..MaxTime
           /\ rows[c].trash \in Reasons \union {"none"}
           /\ rows[c].expires \in 0..(MaxTime + GracePeriod)
BY DEF TypeOK, Held, Rows

(* Staging writes a row with an end of its grace period.                   *)
LEMMA StageWrites ==
    ASSUME TypeOK, NEW c \in Conversations, NEW row \in Rows, NEW why \in Reasons,
           NEW at \in 0..now, stage(c, row, why, at)
    PROVE  \E new \in Rows : Writes(c, new) /\ new.trash = why
<1> DEFINE new == [row EXCEPT !.trash = why, !.expires = at + GracePeriod]
<1>1. row.work \in Work /\ row.active \in 0..MaxTime /\ row.trash \in Reasons \union {"none"}
      BY DEF Rows
<1>2. at + GracePeriod \in 0..(MaxTime + GracePeriod)
      BY RetentionAssumption DEF TypeOK
<1>3. new \in Rows /\ new.trash = why
      BY <1>1, <1>2 DEF Rows
<1> QED BY <1>3 DEF stage

(* Writing a row keeps the store a store.                                  *)
LEMMA WritesType ==
    ASSUME TypeOK, NEW c \in Conversations, NEW new \in Rows, Writes(c, new)
    PROVE  rows' \in [Conversations -> Rows \union {NoRow}]
BY DEF TypeOK, Writes

LEMMA InitType == Init => TypeOK
BY RetentionAssumption DEF Init, TypeOK, NoRule, Rules, NoJob

(* A Command on a Conversation writes one row, and nothing else; none puts *)
(* it into Jet Trash in the name of a rule.                                *)
ConversationCommand(c) ==
    \/ create_conversation(c) \/ forget(c) \/ delete_everywhere(c)
    \/ relinquish(c) \/ restore(c)
    \/ \E work \in Work : Works(c, work)

LEMMA CommandWrites ==
    ASSUME TypeOK, NEW c \in Conversations, ConversationCommand(c)
    PROVE  /\ \E new \in Rows :
                 /\ Writes(c, new)
                 /\ \/ new.trash \in {"none", "forgotten", "transferred"}
                    \/ Held(c) /\ new.trash = rows[c].trash
           /\ UNCHANGED <<dirty, rule, ledgered, now, trusted, job, faults>>
<1>1. now \in 0..now /\ now \in 0..MaxTime /\ MaxTime \in Nat /\ GracePeriod \in Nat
      BY RetentionAssumption DEF TypeOK
<1>2. UNCHANGED <<dirty, rule, ledgered, now, trusted, job, faults>>
      BY DEF ConversationCommand, create_conversation, forget, delete_everywhere, relinquish,
         restore, Works
<1> DEFINE Goal == \E new \in Rows :
                      /\ Writes(c, new)
                      /\ \/ new.trash \in {"none", "forgotten", "transferred"}
                         \/ Held(c) /\ new.trash = rows[c].trash
<1>3. CASE create_conversation(c)
  <2>1. NewConversation \in Rows /\ NewConversation.trash = "none"
        BY <1>1, RetentionAssumption DEF NewConversation, Rows, Work
  <2> QED BY <1>2, <1>3, <2>1 DEF create_conversation
<1>4. ASSUME NEW row \in Rows, NEW why \in {"forgotten", "transferred"}, stage(c, row, why, now)
      PROVE  Goal
  <2>1. why \in Reasons
        BY DEF Reasons
  <2> QED BY <1>1, <1>4, <2>1, StageWrites
<1>5. CASE forget(c) \/ relinquish(c)
      BY <1>2, <1>4, <1>5, HeldRow DEF forget, relinquish, require_unstaged
<1>6. CASE delete_everywhere(c)
  <2>1. rows[c] \in Rows
        BY <1>6, HeldRow DEF delete_everywhere, require_unstaged
  <2>2. PICK work \in Work : stage(c, [rows[c] EXCEPT !.work = work], "forgotten", now)
        BY <1>6, <2>1 DEF delete_everywhere, Rows, Work
  <2>3. [rows[c] EXCEPT !.work = work] \in Rows
        BY <2>1 DEF Rows
  <2> QED BY <1>2, <1>4, <2>2, <2>3
<1>7. CASE restore(c)
  <2>1. rows[c] \in Rows /\ 0 \in 0..(MaxTime + GracePeriod)
        BY <1>1, <1>7, HeldRow DEF restore, Staged
  <2> DEFINE new == [rows[c] EXCEPT !.trash = "none", !.expires = 0]
  <2>2. new \in Rows /\ new.trash = "none"
        BY <2>1 DEF Rows
  <2>3. Writes(c, new)
        BY <1>7 DEF restore
  <2> QED BY <1>2, <2>2, <2>3
<1>8. ASSUME NEW work \in Work, Works(c, work)
      PROVE  Goal
  <2>1. rows[c] \in Rows /\ rows[c].active \in 0..MaxTime /\ Held(c)
        BY <1>8, HeldRow DEF Works
  <2> DEFINE at == IF rows[c].work = "live" THEN now ELSE rows[c].active
             new == [rows[c] EXCEPT !.work = work, !.active = at]
  <2>2. at \in 0..MaxTime
        BY <1>1, <2>1
  <2>3. Writes(c, new)
        BY <1>8 DEF Works
  <2> HIDE DEF at
  <2>4. new \in Rows /\ new.trash = rows[c].trash
        BY <2>1, <2>2 DEF Rows
  <2> QED BY <2>1, <2>3, <2>4
<1> QED BY <1>2, <1>3, <1>5, <1>6, <1>7, <1>8 DEF ConversationCommand

(* The Commands on the rule.                                               *)
LEMMA RuleType ==
    ASSUME TypeOK,
           \/ compile \/ authorize_everywhere \/ delete_rule
           \/ \E days \in Days : UtilityDrafts(days) \/ set_inactive_days(days) \/ approve(days)
    PROVE  TypeOK'
<1>1. UNCHANGED <<rows, dirty, ledgered, now, trusted, job, faults>>
      BY DEF compile, authorize_everywhere, delete_rule, UtilityDrafts, set_inactive_days,
         approve, WritesRule
<1>2. rule' \in Rules
  <2>1. CASE compile
        BY <2>1 DEF compile, WritesRule, TypeOK, Rules
  <2>2. CASE authorize_everywhere
        BY <2>2 DEF authorize_everywhere, WritesRule, TypeOK, Rules
  <2>3. CASE delete_rule
        BY <2>3 DEF delete_rule, WritesRule, Rules, NoRule
  <2>4. ASSUME NEW days \in Days, UtilityDrafts(days) \/ set_inactive_days(days) \/ approve(days)
        PROVE  rule' \in Rules
        BY <2>4 DEF UtilityDrafts, set_inactive_days, approve, WritesRule, TypeOK, Rules
  <2> QED BY <2>1, <2>2, <2>3, <2>4
<1> QED BY <1>1, <1>2 DEF TypeOK

(* A sweep writes only what Staging.reason answers.                        *)
LEMMA ReasonType ==
    ASSUME TypeOK, NEW c, NEW by, NEW at, reason(c, by, at) /= "none"
    PROVE  /\ reason(c, by, at) \in Reasons
           /\ reason(c, by, at) \in {"autodelete_rule", "autodelete_everywhere"} =>
                 /\ by /= "policy" /\ (by = "rule" => approved_matches(c, at))
                 /\ reason(c, by, at) = "autodelete_everywhere" <=> rule.everywhere
BY DEF reason, Reasons

LEMMA SweepType ==
    ASSUME TypeOK, Sweep
    PROVE  TypeOK'
<1>1. NoJob \in [phase : {"idle", "inspecting", "staging", "deleting"}, by : {"none", "policy", "rule"},
                 conversation : Conversations \union {NoConversation},
                 now : 0..now, expired : SUBSET Conversations]
      BY DEF NoJob, TypeOK
<1>2. now \in 0..now
      BY DEF TypeOK
<1>3. ASSUME NEW c \in Conversations, NEW by \in {"policy", "rule"}, Candidate(c, by)
      PROVE  TypeOK'
  <2>1. job' = [phase |-> "inspecting", conversation |-> c, by |-> by, now |-> now, expired |-> {}]
        /\ UNCHANGED <<rows, dirty, rule, ledgered, now, trusted, faults>>
        BY <1>3 DEF Candidate, NoJob
  <2> QED BY <1>2, <2>1 DEF TypeOK
<1>4. ASSUME NEW c \in Conversations, c \in job.expired,
             job' \in {Rest(c), NoJob}, UNCHANGED <<rule, now, trusted>>,
             dirty' \in {dirty, dirty \ {c}},
             rows' \in {rows, [rows EXCEPT ![c] = NoRow]},
             ledgered' \in {ledgered, ledgered \union {c}},
             faults' = faults \/ (faults < MaxFaults /\ faults' = faults + 1),
             job.phase = "deleting"
      PROVE  TypeOK'
  <2>1. [job EXCEPT !.expired = @ \ {c}] \in
            [phase : {"idle", "inspecting", "staging", "deleting"}, by : {"none", "policy", "rule"},
             conversation : Conversations \union {NoConversation},
             now : 0..now, expired : SUBSET Conversations]
        /\ [job EXCEPT !.expired = @ \ {c}].phase = "deleting"
        BY <1>4 DEF TypeOK
  <2>2. job' \in [phase : {"idle", "inspecting", "staging", "deleting"}, by : {"none", "policy", "rule"},
                  conversation : Conversations \union {NoConversation},
                  now : 0..now, expired : SUBSET Conversations]
        /\ job'.phase \notin {"inspecting", "staging"}
        BY <1>1, <1>4, <2>1 DEF Rest, NoJob
  <2>3. faults' \in 0..MaxFaults /\ rows' \in [Conversations -> Rows \union {NoRow}]
        BY <1>4, RetentionAssumption DEF TypeOK
  <2> QED BY <1>4, <2>2, <2>3 DEF TypeOK
<1>5. ASSUME stage_if_unprotected
      PROVE  TypeOK'
  <2>1. job.conversation \in Conversations /\ job.now \in 0..now
        BY <1>5 DEF stage_if_unprotected, TypeOK
  <2>2. rows[job.conversation] \in Rows
        BY <1>5, <2>1, HeldRow DEF stage_if_unprotected
  <2>3. rows' \in [Conversations -> Rows \union {NoRow}]
        BY <1>5, <2>1, <2>2, ReasonType, StageWrites, WritesType DEF stage_if_unprotected
  <2> QED BY <1>1, <1>5, <2>3 DEF stage_if_unprotected, TypeOK, NoJob
<1>6. ASSUME StagingSkipped \/ expired_trash
      PROVE  TypeOK'
  <2>1. UNCHANGED <<rows, dirty, rule, ledgered, now, trusted, faults>>
        /\ job' \in {NoJob, [phase |-> "deleting", conversation |-> NoConversation, by |-> "none",
                             now |-> now, expired |-> Expired]}
        BY <1>6 DEF StagingSkipped, expired_trash, NoJob
  <2>2. Expired \subseteq Conversations /\ NoJob.phase = "idle"
        BY DEF Expired, NoJob
  <2>3. [phase |-> "deleting", conversation |-> NoConversation, by |-> "none",
         now |-> now, expired |-> Expired] \in
            [phase : {"idle", "inspecting", "staging", "deleting"}, by : {"none", "policy", "rule"},
             conversation : Conversations \union {NoConversation},
             now : 0..now, expired : SUBSET Conversations]
        BY <1>2, <2>2
  <2> QED BY <1>1, <2>1, <2>2, <2>3 DEF TypeOK
<1>7. ASSUME NEW c \in Conversations,
             delete_for_good(c) \/ DeletionWaits(c) \/ DeletionFails(c)
      PROVE  TypeOK'
      BY <1>4, <1>7 DEF delete_for_good, DeletionWaits, DeletionFails, Writes
<1>8. ASSUME Inspects
      PROVE  TypeOK'
  <2>1. job' = [job EXCEPT !.phase = "staging"] /\ UNCHANGED <<rows, dirty, rule, ledgered, now, trusted, faults>>
        BY <1>8 DEF Inspects
  <2> QED BY <1>8, <2>1 DEF TypeOK, Inspects
<1> QED BY <1>3, <1>5, <1>6, <1>7, <1>8 DEF Sweep

LEMMA StepType == TypeOK /\ [Next]_vars => TypeOK'
<1>1. SUFFICES ASSUME TypeOK, [Next]_vars PROVE TypeOK'
      OBVIOUS
<1>2. CASE UNCHANGED vars
      BY <1>1, <1>2 DEF vars, TypeOK
<1>3. CASE Command
  <2>1. ASSUME NEW c \in Conversations, Edits(c)
        PROVE  TypeOK'
        BY <1>1, <2>1 DEF Edits, TypeOK
  <2>2. CASE begin_epoch
        BY <1>1, <2>2 DEF begin_epoch, TypeOK
  <2>3. ASSUME NEW c \in Conversations, ConversationCommand(c)
        PROVE  TypeOK'
        BY <1>1, <2>3, CommandWrites, WritesType DEF TypeOK
  <2> QED BY <1>1, <1>3, <2>1, <2>2, <2>3, RuleType DEF Command, ConversationCommand
<1>4. CASE Restart
      BY <1>1, <1>4, RetentionAssumption DEF Restart, TypeOK, NoJob
<1>5. CASE Tick
  <2>1. now' \in 0..MaxTime /\ 0..now \subseteq 0..now' /\ UNCHANGED <<rows, dirty, rule, ledgered, trusted, job, faults>>
        BY <1>1, <1>5, RetentionAssumption DEF Tick, TypeOK
  <2> QED BY <1>1, <2>1 DEF TypeOK
<1> QED BY <1>1, <1>2, <1>3, <1>4, <1>5, SweepType DEF Next

-----------------------------------------------------------------------------
(* The theorems.                                                           *)

(* The store, the rule and the sweep keep their types.                     *)
THEOREM TypeCorrect == Spec => []TypeOK
BY InitType, StepType, PTL DEF Spec

(* Live work and an Effect in flight hold the deletion of their            *)
(* Conversation (retention/sweep.rs delete_for_good): the ledger does not  *)
(* come to name it, and its rows go only when a start reapplies a line the *)
(* ledger had already (deletion/reapply.rs).                               *)
THEOREM DeletionWaitsForWork == Spec => WorkHoldsDeletion
<1> DEFINE Waits ==
      \A c \in Conversations :
          Held(c) /\ rows[c].work \in {"effect", "live"} =>
          /\ rows'[c] = NoRow => c \in ledgered /\ Restart
          /\ c \notin ledgered => c \notin ledgered'
<1>1. TypeOK /\ [Next]_vars => [Waits]_vars
  <2>1. SUFFICES ASSUME TypeOK, Next, NEW c \in Conversations, Held(c),
                        rows[c].work \in {"effect", "live"}
                 PROVE  /\ rows'[c] = NoRow => c \in ledgered /\ Restart
                        /\ c \notin ledgered => c \notin ledgered'
        OBVIOUS
  <2>2. rows \in [Conversations -> Rows \union {NoRow}] /\ rows[c] \in Rows /\ rows[c] /= NoRow
        BY <2>1, HeldRow DEF TypeOK, Held
  <2>3. CASE Restart
        BY <2>2, <2>3 DEF Restart
  <2>4. ASSUME NEW d \in Conversations,
               delete_for_good(d) \/ DeletionFails(d)
        PROVE  d /= c /\ rows'[c] = rows[c] /\ ledgered' \subseteq ledgered \union {d}
        BY <2>1, <2>2, <2>4 DEF delete_for_good, DeletionFails, holds_deletion, Writes
  <2>5. ASSUME NEW d \in Conversations, NEW new \in Rows, Writes(d, new)
        PROVE  rows'[c] /= NoRow
        BY <2>2, <2>5, NoRowAssumption DEF Writes
  <2>6. ASSUME NEW d \in Conversations, ConversationCommand(d)
        PROVE  rows'[c] /= NoRow /\ ledgered' = ledgered
        BY <2>1, <2>5, <2>6, CommandWrites
  <2>7. CASE stage_if_unprotected
    <3>1. job.conversation \in Conversations /\ job.now \in 0..now
          BY <2>1, <2>7 DEF stage_if_unprotected, TypeOK
    <3>2. rows[job.conversation] \in Rows
          BY <2>1, <2>7, <3>1, HeldRow DEF stage_if_unprotected
    <3> QED BY <2>1, <2>5, <2>7, <3>1, <3>2, ReasonType, StageWrites DEF stage_if_unprotected
  <2>8. \/ \E d \in Conversations : delete_for_good(d) \/ DeletionFails(d) \/ ConversationCommand(d)
        \/ Restart \/ stage_if_unprotected \/ UNCHANGED <<rows, ledgered>>
        BY <2>1 DEF Next, Command, ConversationCommand, Sweep, Tick, Edits, begin_epoch, compile,
           authorize_everywhere, delete_rule, UtilityDrafts, set_inactive_days, approve,
           WritesRule, Candidate, DeletionWaits, Inspects, StagingSkipped, expired_trash
  <2> QED BY <2>2, <2>3, <2>4, <2>6, <2>7, <2>8
<1> QED BY TypeCorrect, <1>1, PTL DEF Spec, WorkHoldsDeletion

(* A rule stages a Conversation only as it is approved when the entry is   *)
(* written (autodelete/sweep.rs still_matches, Staging.reason).            *)
THEOREM StagedWithApproval == Spec => StagedAsApproved
<1> DEFINE ByRule == {"autodelete_rule", "autodelete_everywhere"}
           Approved ==
      \A c \in Conversations :
        Held(c) /\ rows'[c] /= NoRow /\ rows[c].trash = "none" /\ rows'[c].trash \in ByRule =>
        /\ rule.approved /\ rows[c].active + rule.days <= now
        /\ rows'[c].trash = "autodelete_everywhere" <=> rule.everywhere
        /\ rows[c].work = "none"
<1>1. TypeOK /\ [Next]_vars => [Approved]_vars
  <2>1. SUFFICES ASSUME TypeOK, Next, NEW c \in Conversations, Held(c), rows'[c] /= NoRow,
                        rows[c].trash = "none", rows'[c].trash \in ByRule
                 PROVE  /\ rule.approved /\ rows[c].active + rule.days <= now
                        /\ rows'[c].trash = "autodelete_everywhere" <=> rule.everywhere
                        /\ rows[c].work = "none"
        OBVIOUS
  <2>2. rows[c] \in Rows
        BY <2>1, HeldRow
  <2>3. ASSUME NEW d \in Conversations, ConversationCommand(d)
        PROVE  FALSE
    <3>1. PICK new \in Rows : Writes(d, new)
                              /\ \/ new.trash \in {"none", "forgotten", "transferred"}
                                 \/ Held(d) /\ new.trash = rows[d].trash
          BY <2>1, <2>3, CommandWrites
    <3>2. rows'[c] = IF c = d THEN new ELSE rows[c]
          BY <2>1, <3>1 DEF Writes, TypeOK
    <3> QED BY <2>1, <3>1, <3>2
  <2>4. rows' /= rows
        BY <2>1
  <2>5. ASSUME NEW d \in Conversations, delete_for_good(d)
        PROVE  FALSE
        BY <2>1, <2>5 DEF delete_for_good, Writes, TypeOK
  <2>6. CASE stage_if_unprotected
    <3>1. (job.conversation \in Conversations /\ job.by = "rule") \/ job.by = "policy"
          BY <2>1, <2>6 DEF stage_if_unprotected, TypeOK
    <3>2. c = job.conversation
          BY <2>1, <2>6 DEF stage_if_unprotected, stage, Writes, TypeOK
    <3> DEFINE why == reason(c, job.by, job.now)
    <3>3. rows'[c].trash = why /\ why /= "none" /\ unprotected(c)
          BY <2>1, <2>2, <2>6, <3>2 DEF stage_if_unprotected, stage, Writes, TypeOK, Rows
    <3>4. why \in ByRule
          BY <2>1, <3>3
    <3>5. job.by /= "policy" /\ (job.by = "rule" => approved_matches(c, job.now))
          /\ (why = "autodelete_everywhere" <=> rule.everywhere)
          BY <2>1, <3>3, <3>4, ReasonType
    <3>6. approved_matches(c, job.now)
          BY <3>1, <3>5
    <3>7. rule.approved /\ rows[c].active + rule.days <= job.now
          BY <3>6 DEF approved_matches
    <3>8. job.now \in 0..now /\ now \in Nat /\ rows[c].active \in Nat /\ rule.days \in Nat
      <4>1. job.now \in 0..now /\ now \in 0..MaxTime /\ rule.days \in Days \union {0}
            BY <2>1 DEF TypeOK, Rules
      <4>2. rows[c].active \in 0..MaxTime
            BY <2>1, HeldRow
      <4>3. MaxTime \in Nat /\ \A days \in Days \union {0} : days \in Nat
            BY RetentionAssumption
      <4> QED BY <4>1, <4>2, <4>3
    <3> QED BY <3>3, <3>5, <3>7, <3>8 DEF unprotected
  <2>7. CASE Restart
        BY <2>1, <2>7 DEF Restart
  <2>8. \/ \E d \in Conversations : delete_for_good(d) \/ ConversationCommand(d)
        \/ Restart \/ stage_if_unprotected
        BY <2>1, <2>4 DEF Next, Command, ConversationCommand, Sweep, Tick, Edits, begin_epoch, compile,
           authorize_everywhere, delete_rule, UtilityDrafts, set_inactive_days, approve,
           WritesRule, Candidate, DeletionWaits, DeletionFails, Inspects, StagingSkipped, expired_trash
  <2> QED BY <2>3, <2>5, <2>6, <2>7, <2>8
<1> QED BY TypeCorrect, <1>1, PTL DEF Spec, StagedAsApproved
=============================================================================
