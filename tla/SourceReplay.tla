----------------------------- MODULE SourceReplay -----------------------------
(***************************************************************************)
(* How the native output of one Run reaches the journal exactly once: the  *)
(* helper's disk spool (jet-fueld/src/execution/spool.rs and serve.rs),    *)
(* the Craft that turns a source record into a batch of observations, and  *)
(* the monitor of jetd (jet-core/src/run/effect.rs), which commits a batch *)
(* in groups (jet-core/src/run/state/mod.rs) and acknowledges the record   *)
(* after its last group is durable.                                        *)
(*                                                                         *)
(* A record's source offset is its number: the byte offsets of the code    *)
(* only need to increase.  The helper outlives jetd and the Craft; a crash *)
(* of either loses what is on the connection and in the monitor.           *)
(***************************************************************************)
EXTENDS Integers, Sequences, SequencesExt

CONSTANTS
    Total,      \* records the Harness writes; the last one is its exit
    SpoolLimit, \* records the spool holds before the Harness waits
    Group,      \* observations a monitor holds back before it commits
    Versions,   \* ways a Craft may translate a record
    BatchLen,   \* BatchLen[v]: observations that translation v makes of it
    MaxFailures,\* failures in a row after which a Run is left as an orphan
    MaxFaults   \* bound on lost connections and crashes

ASSUME SourceAssumption ==
    /\ Total \in Nat \ {0}
    /\ SpoolLimit \in Nat \ {0}
    /\ Group \in Nat \ {0}
    /\ Versions # {}
    /\ BatchLen \in [Versions -> Nat \ {0}]
    /\ MaxFailures \in Nat \ {0} /\ MaxFaults \in Nat

VARIABLES
    helper,      \* "alive", "done" (all source acknowledged) or "dead"
    produced,    \* records the spool has taken
    acknowledged,\* records the spool has released
    stream,      \* connection helper - Craft - monitor: "open", "stale" or "closed"
    version,     \* the translation the connected Craft uses
    emitted,     \* messages sent for the record the helper waits on
    toCore,      \* messages on their way to the monitor
    toHelper,    \* acknowledgements on their way to the helper
    source,      \* durable: source_offset and partial_source of the Run
    journal,     \* durable: observations committed, in order
    outcome,     \* durable: "running", "ended" or "lost"
    orphan,      \* durable: the Run is left to its owner's decision
    monitor,     \* volatile: the monitor of the Run
    failures,    \* volatile: failures since a record was acknowledged
    faults

vars == <<helper, produced, acknowledged, stream, version, emitted, toCore, toHelper,
          source, journal, outcome, orphan, monitor, failures, faults>>
helperVars == <<helper, produced, acknowledged>>
wireVars == <<stream, version, emitted, toCore, toHelper>>
coreVars == <<source, journal, outcome>>
retryVars == <<orphan, failures>>

Observation(n, i, v) == [record |-> n, part |-> i, version |-> v]
Batch(n, v) == [i \in 1..BatchLen[v] |-> Observation(n, i, v)]
Progress(n) == [progress |-> n]
IsProgress(m) == DOMAIN m = {"progress"}

(* The messages a Craft sends for record n.                                *)
Messages(n, v) == Append(Batch(n, v), Progress(n))

(* phase "none": no task; "read": in its select loop; "ack": it has        *)
(* committed a boundary and not yet acknowledged it.                       *)
NoMonitor == [phase |-> "none", expected |-> <<>>, replayed |-> <<>>, pending |-> <<>>]

Init ==
    /\ helper = "alive" /\ produced = 0 /\ acknowledged = 0
    /\ stream = "closed" /\ version \in Versions
    /\ emitted = 0 /\ toCore = <<>> /\ toHelper = <<>>
    /\ source = [offset |-> 0, partial |-> <<>>]
    /\ journal = <<>> /\ outcome = "running"
    /\ orphan = FALSE /\ monitor = NoMonitor /\ failures = 0 /\ faults = 0

-----------------------------------------------------------------------------
(* The helper.                                                             *)

Waiting == produced - acknowledged
FrontRecord == acknowledged + 1

(* try_append: a full spool makes the Harness wait; nothing is dropped.    *)
try_append ==
    /\ helper = "alive" /\ produced < Total
    /\ Waiting < SpoolLimit
    /\ produced' = produced + 1
    /\ UNCHANGED <<helper, acknowledged, wireVars, coreVars, retryVars, monitor, faults>>

(* The helper sends the front record and waits; the Craft answers with its *)
(* messages one by one.                                                    *)
CraftSends ==
    /\ stream = "open" /\ Waiting > 0
    /\ emitted < Len(Messages(FrontRecord, version))
    /\ emitted' = emitted + 1
    /\ toCore' = Append(toCore, Messages(FrontRecord, version)[emitted + 1])
    /\ UNCHANGED <<helperVars, stream, version, toHelper, coreVars, retryVars, monitor, faults>>

(* acknowledge: only the front record can be released, and only while the  *)
(* helper waits for it on this connection.                                 *)
acknowledge ==
    /\ toHelper # <<>> /\ helper = "alive"
    /\ toHelper' = Tail(toHelper)
    /\ IF Waiting > 0 /\ emitted > 0 /\ Head(toHelper) = FrontRecord
       THEN /\ acknowledged' = FrontRecord
            /\ emitted' = 0
            /\ helper' = IF FrontRecord = Total THEN "done" ELSE helper
            /\ UNCHANGED stream
       ELSE /\ stream' = "closed"
            /\ UNCHANGED <<acknowledged, emitted, helper>>
    /\ UNCHANGED <<produced, version, toCore, coreVars, retryVars, monitor, faults>>

-----------------------------------------------------------------------------
(* The monitor.                                                            *)

(* Mutant: the group commits without the prefix that names it.             *)
CommitGroup_NoPrefix(group) == journal' = journal \o group /\ UNCHANGED source

(* commit_run_source with a Pending boundary: a group and the prefix that  *)
(* names it commit together.                                               *)
CommitGroup(group) ==
    /\ journal' = journal \o group
    /\ source' = [source EXCEPT !.partial = source.partial \o group]

(* ... with a Complete boundary: the offset must move, the prefix ends.    *)
CommitComplete(group, n) ==
    /\ n > source.offset
    /\ journal' = journal \o group
    /\ source' = [offset |-> n, partial |-> <<>>]

(* Mutant: the failures are counted and nothing comes of it.               *)
failed_NoLimit ==
    /\ failures' = IF failures < MaxFailures THEN failures + 1 ELSE failures
    /\ UNCHANGED orphan

(* failed, with the mark its callers leave when it says so.                *)
failed ==
    /\ failures' = IF failures < MaxFailures THEN failures + 1 ELSE failures
    /\ orphan' = (orphan \/ failures + 1 >= MaxFailures)

(* The connection goes with everything the monitor had not committed.      *)
Dropped ==
    /\ monitor' = NoMonitor
    /\ stream' = IF stream = "open" THEN "stale" ELSE stream
    /\ toCore' = <<>>

(* spawn_monitor's error path.                                             *)
Disconnected == Dropped /\ failed

(* Mutant: the repeated prefix is skipped by its length alone.             *)
ReceiveObservation_NoDigest ==
    LET m == Head(toCore)
        full == Len(monitor.pending) >= Group IN
    /\ monitor.phase = "read" /\ toCore # <<>> /\ ~IsProgress(m)
    /\ toCore' = Tail(toCore)
    /\ IF Len(monitor.replayed) < Len(monitor.expected)
       THEN /\ monitor' = [monitor EXCEPT !.replayed = Append(monitor.replayed, m)]
            /\ UNCHANGED <<source, journal>>
       ELSE /\ monitor' = [monitor EXCEPT !.pending =
                             IF full THEN <<m>> ELSE Append(monitor.pending, m)]
            /\ IF full THEN CommitGroup(monitor.pending) ELSE UNCHANGED <<source, journal>>
    /\ UNCHANGED <<helperVars, stream, version, emitted, toHelper, outcome, retryVars, faults>>

(* An observation: skipped while it repeats the committed prefix, whose    *)
(* digest is compared when the prefix is complete.                         *)
ReceiveObservation ==
    LET m == Head(toCore)
        replaying == Len(monitor.replayed) < Len(monitor.expected)
        replayed == Append(monitor.replayed, m)
        full == Len(monitor.pending) >= Group IN
    /\ monitor.phase = "read" /\ toCore # <<>> /\ ~IsProgress(m)
    /\ IF replaying
       THEN IF Len(replayed) = Len(monitor.expected) /\ replayed # monitor.expected
            THEN Disconnected /\ UNCHANGED <<source, journal>>
            ELSE /\ monitor' = [monitor EXCEPT !.replayed = replayed]
                 /\ toCore' = Tail(toCore)
                 /\ UNCHANGED <<stream, source, journal, retryVars>>
       ELSE /\ monitor' = [monitor EXCEPT !.pending =
                             IF full THEN <<m>> ELSE Append(monitor.pending, m)]
            /\ IF full THEN CommitGroup(monitor.pending) ELSE UNCHANGED <<source, journal>>
            /\ toCore' = Tail(toCore)
            /\ UNCHANGED <<stream, retryVars>>
    /\ UNCHANGED <<helperVars, version, emitted, toHelper, outcome, faults>>

(* The deadline of a held group passes.                                    *)
Deadline ==
    /\ monitor.phase = "read" /\ monitor.pending # <<>>
    /\ CommitGroup(monitor.pending)
    /\ monitor' = [monitor EXCEPT !.pending = <<>>]
    /\ UNCHANGED <<helperVars, wireVars, outcome, retryVars, faults>>

(* Mutant: the record is acknowledged before its last group is durable.    *)
ReceiveProgress_AckFirst ==
    /\ monitor.phase = "read" /\ toCore # <<>> /\ IsProgress(Head(toCore))
    /\ toHelper' = Append(toHelper, Head(toCore).progress)
    /\ toCore' = Tail(toCore)
    /\ UNCHANGED <<helperVars, stream, version, emitted, coreVars, retryVars, monitor, faults>>

(* A boundary: refused if it comes before the whole prefix was repeated.   *)
ReceiveProgress ==
    LET m == Head(toCore) IN
    /\ monitor.phase = "read" /\ toCore # <<>> /\ IsProgress(m)
    /\ IF Len(monitor.replayed) < Len(monitor.expected)
       THEN Disconnected /\ UNCHANGED <<source, journal, outcome>>
       ELSE /\ CommitComplete(monitor.pending, m.progress)
            /\ outcome' = IF m.progress = Total THEN "ended" ELSE outcome
            /\ monitor' = [NoMonitor EXCEPT !.phase = "ack"]
            /\ toCore' = Tail(toCore)
            /\ UNCHANGED <<stream, retryVars>>
    /\ UNCHANGED <<helperVars, version, emitted, toHelper, faults>>

(* The acknowledgement follows the commit, and earlier failures count no   *)
(* more (progressed); a monitor whose Run has ended finishes the           *)
(* connection.                                                             *)
Acknowledge ==
    /\ monitor.phase = "ack"
    /\ toHelper' = Append(toHelper, source.offset)
    /\ monitor' = IF outcome = "ended" THEN NoMonitor ELSE [monitor EXCEPT !.phase = "read"]
    /\ failures' = 0
    /\ UNCHANGED <<helperVars, stream, version, emitted, toCore, coreVars, orphan, faults>>

-----------------------------------------------------------------------------
(* Recovery.                                                               *)

(* validate_offset: the durable cursor is the released boundary or the     *)
(* one the helper still waits on.                                          *)
Validates == source.offset = acknowledged \/ (Waiting > 0 /\ source.offset = FrontRecord)

(* Mutant: the record after the cursor is released with it.                *)
Released_Next == source.offset + 1

(* What recovery releases: everything up to the durable cursor.            *)
Released == source.offset

(* The first connection, and every later one: recover validates the cursor,*)
(* releases what was committed and not acknowledged, and replaces the      *)
(* connection that was there.  A finished Run is only finished again.      *)
reconnect_run(v) ==
    /\ monitor.phase = "none" /\ helper = "alive" /\ outcome # "lost"
    /\ Validates
    /\ acknowledged' = Released
    /\ helper' = IF source.offset = Total THEN "done" ELSE helper
    /\ stream' = IF source.offset = Total THEN "closed" ELSE "open"
    /\ version' = v
    /\ emitted' = 0 /\ toCore' = <<>> /\ toHelper' = <<>>
    /\ monitor' = IF outcome = "ended" THEN NoMonitor
                  ELSE [phase |-> "read", expected |-> source.partial,
                        replayed |-> <<>>, pending |-> <<>>]
    /\ UNCHANGED <<produced, coreVars, faults>>

(* Maintenance reconnects what has no monitor and is not an orphan.        *)
Connect(v) == ~orphan /\ reconnect_run(v) /\ UNCHANGED retryVars

(* ... and fails to, any number of times: the Craft is unavailable.        *)
Unavailable ==
    /\ monitor.phase = "none" /\ helper = "alive" /\ outcome # "lost" /\ ~orphan
    /\ failed
    /\ UNCHANGED <<helperVars, wireVars, coreVars, monitor, faults>>

(* The owner adopts an orphan whose Run has not ended.                     *)
Adopt(v) ==
    /\ orphan /\ outcome # "ended"
    /\ reconnect_run(v)
    /\ orphan' = FALSE /\ failures' = 0

(* Mutant: the incomplete record is taken back out of the journal.         *)
ObserveLost_Discards ==
    /\ monitor.phase = "none" /\ helper = "dead" /\ outcome = "running"
    /\ outcome' = "lost"
    /\ source' = [source EXCEPT !.partial = <<>>]
    /\ journal' = SelectSeq(journal, LAMBDA m : m.record <= source.offset)
    /\ orphan' = FALSE /\ failures' = 0
    /\ UNCHANGED <<helperVars, wireVars, monitor, faults>>

(* The helper is proven dead: the incomplete prefix is released, what was  *)
(* committed stays, and no source is acknowledged.  An orphan is one no    *)
(* longer.                                                                 *)
ObserveLost ==
    /\ monitor.phase = "none" /\ helper = "dead" /\ outcome = "running"
    /\ outcome' = "lost"
    /\ source' = [source EXCEPT !.partial = <<>>]
    /\ orphan' = FALSE /\ failures' = 0
    /\ UNCHANGED <<helperVars, wireVars, journal, monitor, faults>>

-----------------------------------------------------------------------------
(* Faults.                                                                 *)

(* The monitor's connection breaks: acknowledgements that left jetd may    *)
(* still arrive until the connection is replaced.                          *)
ConnectionLost ==
    /\ monitor.phase # "none" /\ faults < MaxFaults
    /\ Disconnected
    /\ faults' = faults + 1
    /\ UNCHANGED <<helperVars, version, emitted, toHelper, coreVars>>

(* jetd ends, and its count of failures with it.                           *)
JetdEnds ==
    /\ faults < MaxFaults
    /\ Dropped /\ failures' = 0
    /\ faults' = faults + 1
    /\ UNCHANGED <<helperVars, version, emitted, toHelper, coreVars, orphan>>

(* A monitor whose connection ends under it has failed.                    *)
LosesMonitor ==
    /\ monitor' = NoMonitor
    /\ IF monitor.phase = "none" THEN UNCHANGED retryVars ELSE failed

(* The Craft ends: both its connections close.                             *)
CraftDies ==
    /\ stream # "closed" /\ faults < MaxFaults
    /\ stream' = "closed" /\ toHelper' = <<>> /\ toCore' = <<>>
    /\ LosesMonitor
    /\ faults' = faults + 1
    /\ UNCHANGED <<helperVars, version, emitted, coreVars>>

(* The helper is killed, or the OS restarts.                               *)
HelperDies ==
    /\ helper = "alive" /\ faults < MaxFaults
    /\ helper' = "dead" /\ stream' = "closed"
    /\ toCore' = <<>> /\ toHelper' = <<>>
    /\ LosesMonitor
    /\ faults' = faults + 1
    /\ UNCHANGED <<produced, acknowledged, version, emitted, coreVars>>

Supervise ==
    \/ ReceiveObservation \/ Deadline \/ ReceiveProgress \/ Acknowledge
    \/ ObserveLost

Next ==
    \/ try_append \/ CraftSends \/ acknowledge
    \/ Supervise
    \/ Unavailable \/ \E v \in Versions : Connect(v) \/ Adopt(v)
    \/ ConnectionLost \/ JetdEnds \/ CraftDies \/ HelperDies

(* Maintenance comes back within a second while a Run is live              *)
(* (maintenance.rs), and tries to reconnect one that is not an orphan;     *)
(* whether it can is not said.  Nothing makes an owner adopt.              *)
Fairness ==
    /\ WF_vars(try_append) /\ WF_vars(CraftSends) /\ WF_vars(acknowledge)
    /\ WF_vars(Supervise)
    /\ WF_vars(Unavailable \/ \E v \in Versions : Connect(v))

Spec == Init /\ [][Next]_vars
FairSpec == Spec /\ Fairness

-----------------------------------------------------------------------------
(* Properties.                                                             *)

Observations == [record : 1..Total, part : Nat, version : Versions]
Boundaries == [progress : 1..Total]

SourceTypeOK ==
    /\ helper \in {"alive", "done", "dead"}
    /\ produced \in 0..Total /\ acknowledged \in 0..produced
    /\ stream \in {"open", "stale", "closed"} /\ version \in Versions
    /\ emitted \in Nat
    /\ toCore \in Seq(Observations \union Boundaries)
    /\ toHelper \in Seq(1..Total)
    /\ source \in [offset : 0..Total, partial : Seq(Observations)]
    /\ journal \in Seq(Observations)
    /\ outcome \in {"running", "ended", "lost"}
    /\ monitor \in [phase : {"none", "read", "ack"}, expected : Seq(Observations),
                    replayed : Seq(Observations), pending : Seq(Observations)]
    /\ faults \in 0..MaxFaults

TypeOK == SourceTypeOK /\ orphan \in BOOLEAN /\ failures \in 0..MaxFailures

(* After position a the journal holds the whole batch that translation v   *)
(* makes of record n, and nothing else of that record anywhere.            *)
WholeBatch(n, v, a) ==
    /\ a + BatchLen[v] <= Len(journal)
    /\ \A i \in 1..Len(journal) :
          IF i \in (a + 1)..(a + BatchLen[v])
          THEN journal[i] = Observation(n, i - a, v)
          ELSE journal[i].record # n

(* All that follows position a begins the batch that v makes of the first  *)
(* record that is not complete, and nothing before a is of that record.    *)
BegunBatch(v, a) ==
    /\ Len(journal) - a <= BatchLen[v]
    /\ \A i \in 1..Len(journal) :
          IF i > a THEN journal[i] = Observation(source.offset + 1, i - a, v)
                   ELSE journal[i].record <= source.offset

(* The records of the journal, cut where the record number changes, are    *)
(* whole batches of one translation each, in order and without a gap or a  *)
(* repetition; only the batch after the durable offset may be incomplete.  *)
ExactlyOnce ==
    /\ \A i, j \in 1..Len(journal) : i <= j => journal[i].record <= journal[j].record
    /\ \A n \in 1..source.offset :
          \E v \in Versions, a \in 0..Len(journal) : WholeBatch(n, v, a)
    /\ \E v \in Versions, a \in 0..Len(journal) : BegunBatch(v, a)

(* No source is released before the observations made of it are durable.   *)
AcknowledgedAfterCommit == acknowledged <= source.offset

(* What the journal holds of the incomplete record is the prefix: its last *)
(* observations, and no other.                                             *)
PrefixIsHeld ==
    LET a == Len(journal) - Len(source.partial) IN
    /\ a >= 0
    /\ \A i \in 1..Len(journal) :
          IF i > a THEN journal[i] = source.partial[i - a]
                   ELSE journal[i].record <= source.offset

(* The durable cursor of a Run can be resumed from: it is a boundary that  *)
(* a living helper still has, and the prefix a reconnected monitor skips   *)
(* is what the journal holds of the incomplete record.                     *)
CursorRecoverable ==
    /\ helper = "alive" => Validates
    /\ outcome # "lost" => PrefixIsHeld

(* Committed observations are never rewritten, and offsets only advance.   *)
JournalGrows ==
    [][/\ IsPrefix(journal, journal')
       /\ source'.offset \in {source.offset, source.offset + 1}]_vars

(* A Run is journalled to its end, is proven lost, or is left to its owner  *)
(* as an orphan: no failure to connect, no Craft that translates a record   *)
(* otherwise and no crash makes the monitor try for ever without one of     *)
(* them (run/effect.rs:145-163, run/recovery.rs:30, 150-187).               *)
SourceDrains == ~orphan ~> (orphan \/ outcome \in {"ended", "lost"})
=============================================================================
