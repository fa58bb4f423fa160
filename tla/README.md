# A TLA+ verification of Jet's durable core

Jet runs coding agents ("Harnesses") on behalf of a user. Its daemon, `jetd`,
owns one *Plane*: a SQLite store with Conversations, Runs, a journal of Events
and an outbox of *Effects*. Everything outside of the store (Crafts, which
translate for a Harness, `jet-fueld` helpers, which keep a Harness alive, Git,
terminals, other Planes) is reached by an Effect or by the monitor of a Run and
may answer late, twice or never. Beside the store there are files, the ledgers of
deletions and of retired authority, and Recovery snapshots, which a crash can
leave in front of it or behind it. This directory models that core in TLA+,
checks it with TLC on small instances, and proves with TLAPS, for instances of
every size, every safety property that TLC checks, five of them under a stated
condition on the constants.

## 1. Inventory

State marked D is durable (a row, an Event or a file), V is lost with `jetd`,
X is external and outlives it.

| Component | State | Operations | Depends on | What is hard | What makes it correct |
|---|---|---|---|---|---|
| Effect outbox (`jet-core/src/effect.rs`, `jet-store/src/effect.rs`) | D: `effects` rows (state, attempt count, limit, safety class); V: the two mutexes, what a sweep has read | insert, begin attempt, finish, sweep one kind, reconcile, retry | Adapters of ten kinds of work | a crash at every point of an attempt; several loops sweeping at once; a read used minutes later | no attempt beyond the policy, one worker per attempt, true and final outcomes, everything that is swept again resolved |
| Utility work, extension changes, Git deliveries (`utility/work.rs`, `extension/work.rs`, `git_delivery/work.rs`) | the same rows, a document beside each | their own sweeps: never reconcile, or only observe; refusal before an attempt | Effect outbox | the same, with a different rule for interrupted rows | as above |
| Source spool and replay (`jet-fueld/src/execution/spool.rs`, `serve.rs`; monitor in `jet-core/src/run/effect.rs`) | X: spool, acknowledged offset; D: `source_offset`, partial source, journal; V: replayed prefix, held group | append, deliver, acknowledge, commit a group, commit a boundary, replace a connection, recover | Craft, helper | three processes that end independently; a Craft replaced by another version; acknowledgements of a replaced connection | each observation journalled once and in order, nothing released before it is durable, the cursor always recoverable, no endless retries |
| Turn queue (`turn/queue.rs`, `turn/dispatch.rs`) | D: queue entries and `TurnChanged` Events | admit, displace, withdraw, claim, dispatch, settle | Runs, Schedules, Auto-continue | admission, withdrawal and dispatch in any order; claim durable before delivery | user input leaves only by execution or withdrawal; oldest first; one owner; one outcome |
| Managed Runs (`run/command.rs`, `run/effect.rs`, `run/state/`, `run/queued_run.rs`) | D: lifecycle, connection, source; V: monitor, strikes | start, continue, launch, observe, dispatch, finish | outbox, spool, queue | launch that answers late, monitor that breaks anywhere | one live Run per Conversation, no claim without one, input delivered once |
| Execution control (`run/execution_control*.rs`, `jet-daemon/src/run/execution_signal.rs`) | D: request with the named turn, ControlRun Effect | record, cancel natively, signal ladder, settle, reconcile | Runs, monitor, OS signals | the request is read once and acted on for several waits | no Turn is settled under work; a stop ends canceled; the gate is given back |
| Recovery and orphans (`run/recovery.rs`, `run/orphan.rs`, `jet-daemon/src/run/`) | D: orphan marks; V: strikes | probe, reconnect, prove loss, mark, adopt, terminate | helper descriptors, boot identity | absence of evidence against evidence of death | lost implies dead; a delivered Turn is settled or its Run is left to the user |
| Command receipts (`command/`, `jet-store/src/command.rs`) | D: receipts and their tombstones; V: the authority gate | execute, replay, prune | every Command, remote connections | a Command repeated after a lost answer, with the same or other content, before and after pruning | one execution, one answer |
| Pairing, remote connections (`pairing/`, `remote/`) | D: gate, the open offer, Paired clients; V: registered connections | open, claim, confirm, complete, close the gate, disable, revoke, authenticate, invalidate | receipts, Deletion ledger | authentication against revocation; refusals that must keep what they counted | no connection outlives its authority; a key only through an open gate, few guesses |
| Plane transfer (`plane_transfer/`, `jet-store/src/authority/`) | D on each Plane: authority and epoch of the Conversation, transfer rows, the fence ledger; X: bundles and fences held by clients | prepare, import, relinquish, commit, abort; reapply fences at a start | Jet Trash, Deletion ledger, Turns | a crash between fence and commit; documents presented late, twice and out of order; a bundle captured before it is recorded | at most one Home, over durable fences, with every completed turn (section 5 for those a prepare misses) |
| Deletion ledger, snapshots, Store recovery (`jet-store/src/evidence/`, `deletion/`, `snapshot.rs`, `recovery.rs`, `open.rs`, `transaction.rs`; `store_recovery/`) | D: ledger lines, its head, the database with the count it has applied, snapshots | delete, snapshot, rotate, purge, open, Recovery mode, restore | files | three writes with a crash or an error between and inside them; purge against deletion | what was deleted stays deleted; the ledger never falls behind its store |
| Retention, Jet Trash, Autodelete (`retention/`, `autodelete/`, `jet-store/src/conversation/trash.rs`) | D: Trash entries, rules; V: what a sweep has read | forget, delete everywhere, restore, compile, approve, authorise, sweep, delete for good | Runs, Utility work, Deletion ledger | rules, entries and work change between the read of a sweep and its writes | staged as approved; no deletion commits under work; Jet Trash empties |
| Event journal, subscriptions (`event/`, `jet-store/src/journal.rs`) | D: journal, retention floor | append, subscribe, snapshot, gap | clients | subscribe against append and retention | no Event missed or repeated without a gap notice |
| Schedules, Auto-continue (`schedule/`, `auto_continue/`) | D: schedules, firings, retries | fire, catch up, expire, retry | Turn queue | clock against admission | at most one firing queued; expired input never runs |
| Promotion, Git delivery (`promotion/`, `git_delivery/`) | D: documents; X: working trees, remotes | prepare, apply, publish | outbox, Git | partly applied file operations | all or nothing, or reported as unknown |
| Artifacts (`artifact/`) | D: rows and blobs | publish, collect | files | publication against collection | what is referenced stays |
| Stream transport (`jet-protocol/src/transport`) | V: credit, queues | send, grant credit | network | credit at its limit | no stream starves |
| Terminals, review, usage, energy, search, settings, audit, Crafts, clients, daemon shell | rows, screens, settings | single transactions or presentation | | | see "Not modelled" |

How they interact: a Command changes the store and inserts an Effect in one
transaction. Loops of `jetd` sweep the outbox one kind at a time under the mutex
`effect_reconciliation` (Utility work has `utility_work`). The StartRun Effect
asks a Craft to start a helper; when the helper's first record arrives the Run
gets a *monitor* task which reads the helper's spool, commits observations to
the journal and, at a source boundary, claims and delivers the next Turn. A
ControlRun Effect cancels over the monitor's connection or signals the helper's
process group. When a monitor fails, the failure is settled under the same
mutex, and recovery reconnects to the helper, proves it dead, or leaves the Run
as an orphan for the user. A Command of a remote client passes the authority gate
and its receipt first. Deletions, of Conversations by the retention worker and of
Paired clients by a revocation, are written to the Deletion ledger before the
database commits, and so is the fence by which a Plane gives up a Conversation;
every start of the daemon applies both ledgers again.

`PROJECT.json` lists every component with its status and every hazard with its
line and the properties that cover it.

## 2. Modules

| Module | Models | See |
|---|---|---|
| `EffectOutbox` | outbox rows, sweeps, locks, external requests | sections 3 and 6 |
| `EffectOutbox_proofs` | theorems about it | section 6 |
| `SourceReplay` | spool, Craft, monitor and cursor of one Run | sections 3 and 6 |
| `Subsequence` | the elements of a sequence at some of its positions | used by the next two |
| `TurnQueue` | the queue as operators on a sequence of entries | used by `ManagedRun` |
| `TurnLifecycle` | abstract: what a client is promised of its Turns | refined by `ManagedRun` |
| `ManagedRun` | queue, Runs, launch, monitors, control, recovery, orphans of one Conversation | sections 3, 5 and 6 |
| `PlaneTransfer` | one Conversation on several Planes: authority, transfers, fences, tombstones | sections 3, 5 and 6 |
| `EvidenceLedger` | the Deletion ledger, the store and its snapshots, at the level of writes | sections 3 and 6 |
| `Retention` | Jet Trash, both sweeps and the Autodelete rule | sections 3, 5 and 6 |
| `Pairing` | the pairing Commands as operators on the store | used by `RemoteAccess` |
| `RemoteAccess` | the authority gate, connections, receipts, and the pairing Commands run under them | sections 3, 5 and 6 |
| `SourceReplay_proofs`, `ManagedRun_proofs`, `EvidenceLedger_proofs`, `Retention_proofs`, `PlaneTransfer_proofs`, `RemoteAccess_proofs` | theorems about them | section 6 |
| `TurnQueue_proofs` | lemmas on subsequences and on the operations of the queue | used by `ManagedRun_proofs` |
| `MCEffectOutbox`, `MCSourceReplay`, `MCManagedRun`, `MCEvidenceLedger`, `MCRetention`, `MCPlaneTransfer`, `MCRemoteAccess` | the small instances | section 4 |

`ManagedRun` rests on `SourceReplay` and `EffectOutbox`. `SourceReplay` shows that observations
commit exactly once and in order, so in `ManagedRun` the durable read position is
the front of the spool and a broken batch is one flag (`partial`). `EffectOutbox`
shows how a row is attempted, so there a launch or control Effect is its state
and what its Adapter does. In the same way `EvidenceLedger` shows that the ledger
vouches for every committed deletion whatever is interrupted, so in `Retention`,
`PlaneTransfer` and `RemoteAccess` the ledger is a set of identities, or of
epochs, which is applied at every restart. Definitions named `X_Something` beside a definition
`X` are variants with a plausible mistake. No specification uses them; they show
that the property they are listed with in `PROJECT.json` can fail.

## 3. State and actions against the code

**EffectOutbox.** `effects[e]` is the row's state and attempt count; `Kind`,
`Safety` and `MaxAttempts` are its immutable columns, and `OutboxAssumption`
states the table's CHECK constraints on them. `insert_effect`,
`begin_effect_attempt`, `finish_effect`, `may_retry` and
`unresolved_effects_of` keep the names of the code. A worker is a task of
`jetd`; `BeginSweep` takes the mutex and performs the sweep's one query (`seen`,
`todo`), the actions of `Handle` process the rows in insertion order, each ends
with the transaction the code makes there. An Adapter call is two steps (begin,
return), so that anything may happen in between. External work is a request per
attempt which is performed (`Perform`) or lost (`Vanish`) at any time, after a
crash too. The Adapter is trusted in one respect: an answer `completed` or
`failed` is true of the request; an answer may always be `unknown`.
`Defer`/`Relieve` are the refusals before an attempt: disk pressure, live
executions before an extension change, an unfinished predecessor of a delivery.
`woken` holds the kinds that some task is about to sweep: those of a Command that
was just committed (`Notifies`; the tasks that only the connection of the Command
starts may be lost with it, `SessionKinds`), all of them after a start, and those
that anything else comes to (`Wake`). `BeginSweep` uses the notification up.
`SweepFails` is any error that leaves a sweep; the loops of `RetriedKinds` sleep and
sweep again, the others log it. `Crash` ends `jetd`.

**SourceReplay.** A record is its number, a batch is the sequence of observations
a translation makes of it. `helper`, `produced`, `acknowledged` are the spool;
`stream`, `emitted`, `toCore`, `toHelper` the connection through the Craft;
`source` and `journal` are durable; `monitor` holds the prefix it expects
(`expected`), what it has seen of it (`replayed`) and the group it holds back
(`pending`). The digest that the code compares is compared here as the prefix
itself, so two different prefixes never have one digest. `reconnect_run`
validates the cursor, releases what was committed and not
acknowledged and replaces the old connection. Maintenance does it for a Run that is
no orphan (`Connect`) or fails to (`Unavailable`), an owner does it for an orphan
(`Adopt`). `failures` counts the failures in a row, which an acknowledgement or a
restart of `jetd` forgets; at `MaxFailures` (3, as in the code) the Run is an
`orphan` and left alone. A "stale" stream is one that jetd
has dropped and whose acknowledgements may still arrive.

**TurnQueue and ManagedRun.** An entry is a Turn with its claim. `prepare`,
`withdraw`, `ready`, `claim`, `settle`, `active_turn` are those of
`turn/queue.rs` and `turn/dispatch.rs`. `record` is the transaction that applies
an observation: `Accepts` is what the projection refuses, `apply` the projection,
`Settlement` the settlement of the Turn. `gate` is the mutex and the progress of
its holder between its awaits: the launch (begin, send, return), the control
ladder (native cancellation, then three signals with a wait after each) and the
resolution of an orphan. The monitor is in its select loop (`read`), between a
durable claim and its delivery (`submit`), finishing, or has failed and waits for
the gate. `native` and `spool` are the helper: it starts late or never, its
Harness completes, is interrupted or ends by itself, and it dies or disappears
with a restart of the OS (`Reboot`). `hits` records which Turn an interruption
named and which one it met; it is history and no guard reads it.
`Craft` is the Craft of the Run: Claude, Codex, or the fixture of the repository's
tests. The two that Jet comes with complete every Turn, also an interrupted one, and
report `turn_ended` after that only for a Turn they were told of by name (`told`,
`Heard`); the Run's first Turn they know as the Run, and Claude forgets the name of a
later one when it is asked to recover. Claude applies an interruption to whatever is
in flight, Codex closes the connection over a name that does not fit (`Reaches`,
`Breaks`).
What `prepare` keeps of a queue is the subsequence (`Sub`) at the positions that
are not replaced; `withdraw` and `settle` remove at a position, as the code does.
`Waiting(queue)` and `Owner(queue)` are the refinement mapping to `TurnLifecycle`:
the claimed entry owns execution, the others wait.

**EvidenceLedger.** `file` is the ledger file (its whole lines and whether a torn
one follows), `head` the sequence its head names, `rows` and `applied` the
database. `record_deletion`, `write_lines`, `write_head` and `commit` are the
steps of the commit of a deleting transaction; each has a counterpart in which the
process ends or the write fails with any part of it on disk, and after a failed
write the daemon may go on (`abandon`). `connect` is what every open does:
`reapply` when the ledger vouches for the store, otherwise nothing. A damaged store
serves reads only (`read_only`) until a snapshot replaces it, in two steps with no
database in between. A purge lists the affected snapshots in one step and removes
them in a later one.

**Retention.** `rows[c]` is a Conversation with what the store says protects it
(`work`), its last activity and its Trash entry; `dirty` are those with unfinished
work in their Workspace, which is not in the store and is written at any time
(`Edits`); `trusted` says whether the Plane can vouch for its Security audit, without
which no sweep begins and no Command of this component is admitted; `rule` is the
Autodelete rule with interpretation, approval and authorisation; `job` is what the maintenance worker holds in memory
between its transactions: a candidate whose Workspace it inspects, or the expired
entries it read, at most `BatchLimit` of them, the soonest expired first. Every
Command is one transaction and may come between any two steps of the worker.
`Inspects` looks at the Workspace once and outside any transaction;
`stage_if_unprotected` asks the store everything again and uses that earlier answer
for the Workspace; `delete_for_good` asks for work only; `DeletionFails` ends the
sweep. This is as the code does.

**PlaneTransfer.** Per Plane: the row of the Conversation (authority, epoch,
content, live work, Trash entry), the transfer rows, the fence ledger, and the
prepare between its read and its write. `bundles` and `documents` are what clients
hold: a bundle or a fence that was answered once may be presented at any time, any
number of times. `plan`, `import`, `relinquish`, `commit` and `abort` are the
handlers; an operation that answers again what it did before changes nothing and
is a stutter. Commands wait while a transfer is prepared, which is the guard
`preparing[p] = NoPlan`. The sweeps (`stage_if_unprotected`, `TombstoneExpires`) do
not ask for that gate, nor do the workers that start Runs for schedules and for
queued turns, so a turn may be admitted and completed (`Admits`, `Completes`) between
the read and the write of a prepare. `content` counts completed turns, so that a
turn left behind in a tombstone is seen; `unseen` counts those that were completed
in such a window. `RelinquishFails` is a fence in its ledger
without the commit, `Restart` reapplies both ledgers (`Reopened`). `LateBundles`
says whether a client may still present a bundle to a Plane that has deleted the
Conversation since; see section 5.

**Pairing and RemoteAccess.** An operator of `Pairing` takes the store before a
Command to the store after it with the answer and the client whose connections
must close. A refusal is an answer, so what was counted before it commits
(`count_failure`). `gate` is the semaphore: an authentication holds one permit from
reading the key (`AuthenticateReads`) to registering the connection (`register`), a
Command needs all of them, and keeps them from its commit until `invalidate` has
closed the connections of the client it took authority from; a transaction that
fails closes them too (`Abandons`). `receipts` is the table: `replay` answers
`expired`, `reused`, the kept outcome, or `incompatible` for a version that it does
not decode (a refusal is always kept in one that it does, `outcome_version`); `prune_command_receipts` leaves the identity as a tombstone. The
Commands of `Commands` come over a remote connection and stand for all others:
they apply, are refused, or fail in their preparation without a receipt.

Abstractions:

- A prompt is its Turn. The byte bound of the queue is the same check as its
  bound on entries and is left out.
- Recovery of one Run is one step, because it runs under the gate; commits of the
  monitor of another Run do not touch what it reads.
- What may hold a dispatch back (schedules, quota, energy, Git delivery,
  transfer) is left out: a held dispatch is a dispatch that has not happened yet.
- The Command and the Effect of an orphan's resolution are folded; the mark goes
  in a transaction of its own as in the code.
- `MaxStrikes` is 2 in the runs of `ManagedRun`, `BatchLimit` is 1 in that of
  `Retention`; in the code they are 3 and 16.
- Codex refuses a recovery while its input is not saved
  (`jet-craft-codex/src/execution/delivery.rs:18`); this is `RecoverUnavailable`.
- A proof of pairing is right or wrong; a key is named by its offer; the digest of
  a Command or a bundle is its content.
- Links and Plane identity of a ledger are the checks they serve: `Wellformed` and
  `ours`. The fence ledger uses the same files and the same code as the Deletion
  ledger and appears as a set.
- Manual forgetting, forgetting by policy and deletion everywhere differ in the
  recorded reason only, and share one.
- Clocks are counted in ticks; a window or retention of 0 ticks is over after the
  next tick.
- An observation of a Craft that ends a Turn is a batch of its own, of one kind for
  each combination of `Completed` and `turn_ended` that the Crafts send.
- Expiry of scheduled input, and cancellation of an automatic retry while it is
  queued, are left out.

## 4. Runs

| Run | Configuration | Checks | Why the bounds are enough |
|---|---|---|---|
| `outbox_mixed` | 3 rows (idempotent with 2 attempts, Git delivery, Utility job), 2 workers, 2 faults | `TypeOK`, `RetryPolicy`, `ExclusiveAttempt`, `HonestOutcome`, `OutcomeFinal` | one row for each rule for interrupted work, both mutexes, a fault in each of two attempts; the theorems cover every other size |
| `outbox_launches` | 2 StartRun rows, an extension change, 1 fault, fairness | `FreshRead`, `EverythingResolves` | two rows of one kind, so that one waits behind a long call for the other; a kind that is swept again after an error and one that is not |
| `source` | 3 records, spool of 2, groups of 2, two translations (3 and 2 observations), 3 failures in a row, 6 faults, fairness | `TypeOK`, `ExactlyOnce`, `AcknowledgedAfterCommit`, `CursorRecoverable`, `JournalGrows`, `SourceDrains` | a batch longer than a group, a full spool, a replay that breaks again and one by another version; enough faults for an orphan, its adoption and a second one |
| `run_recovery` | 2 user Turns, 2 Runs, 2 faults, Claude | `TypeOK`, `DeliveredOnce`, `OneOwner`, `LostIsDead`, `TurnsKeepPromise` | a second Run beside the remains of the first, a fault in the recovery of a fault |
| `run_control` | a user's Turn and 2 automatic retries in a queue of 1, 2 requests, 1 fault, 1 restart of the OS, Codex | `WorkIsClaimed`, `EndIsFinal`, `TurnsKeepPromise` | displacement by the user and by a newer retry, a full queue, a request replaced by another kind, a Turn dispatched in between |
| `run_live` | 2 Turns, 1 request, 1 fault, Claude, fairness | `DeliveredSettles`, `GateIsReleased` | a fault at every step of the ladder, the launch and the monitor; completions that are refused until the Run is an orphan |
| `ledger` | 2 identities, 2 contents of a row, 2 retained snapshots, 2 faults | `TypeOK`, `GoneStaysGone`, `LedgerHolds`, `PurgeIsComplete` | a deletion after one that left a tail, a damaged store restored from a copy older than both; the theorems cover every other size |
| `retention` | 2 Conversations, one of them with a forgetting policy and a Workspace, batches of 1, a rule, grace of 1 tick, 2 faults, fairness | `StagedAsApproved`, `WorkHoldsDeletion`, `TrashEmpties` | a full batch in front of another entry; a rule or a Workspace changes while its candidate is inspected; a deletion fails before and after its ledger line, and the daemon starts again under new work |
| `transfer` | 3 Planes, 3 transfers, 1 turn, 2 faults, no late bundles | `OneHome`, `HomeIsFenced`, `NothingLost` | there and back, there and on to the third, a retry for another target, a fault in the recovery of a fault |
| `access` | 2 clients, 2 connections, 2 offers of 1 attempt, 1 repeated Command with 2 contents, 1 tick, 1 fault | `TypeOK`, `LiveIsEnabled`, `AtMostOnce`, `OneAnswer`, `GuessesBounded`, `PairedThroughOpenGate` | a client paired again while its old connection lives, an offer that expires, a receipt that is pruned; with 2 attempts the run passes as well (2.6 million states) |
| `replay`, `restored_deleted` | smallest that show it | one property each, violated | section 5 |

The three runs of `ManagedRun` pass with each of the three values of `Craft`, and
`retention` also with schedules among the protections (732,000 states, too long for
a routine run). The passing runs have between 69,000 (`source`) and 1.75 million
(`transfer`) distinct states and take a few seconds to two and a half minutes each.

The properties, each with the mistake that breaks it, are commented in the
modules. Symmetry is used for workers, Runs, Controls and Turns of one source in
runs without liveness, and for identities, transfers and connections; no definition
tells the members of these sets apart. Deadlock is checked for the outbox only,
whose workers sweep for ever. The other systems may rest for good: a Harness has
written everything, all Turns are settled, the transfers, offers and ticks of the
instance are used up.

Fairness. `EffectOutbox`: a worker in a sweep goes on (every wait of an Adapter
has a time limit in the hosts), a kind that was woken is swept (the mutex is first
come, first served, hence strong fairness of `BeginSweep`), and a refusal of launches
ends. Waking is under no fairness: `EverythingResolves` is unconditional only for
what the daemon comes back to by itself, which are Utility work, deliveries and
extension changes that nothing puts off (`daemon.rs:176-197`, `230-458`). An error in
a sweep of launches, controls or promotions is logged and no timer repeats it
(`daemon.rs:199-211`, `connection/session/mod.rs:358-389`); their rows are resolved if
the kind is woken again and again. Nothing is assumed of `Perform` and `Vanish`.

`SourceReplay`: the tasks of `jetd`, Craft and helper run, and maintenance, which
comes back within a second while a Run is live, tries to reconnect a Run that is no
orphan. Whether it can is not assumed, and nothing makes an owner adopt an orphan.

`ManagedRun`: the tasks that have begun go on, whoever waits for the gate gets it
(strong fairness), recovery looks at live Runs again and again, and a Harness works
on what it was given. Clients, interruptions, unasked ends and faults are under no
fairness, and neither is the beginning or the reconciliation of a launch or a
control: both are swept after a Command, a notification or at a start only. An
accepted control may therefore wait for ever, and no property says that it does not.

`Retention`: the worker sweeps again within a second of an expiry or an error
(`maintenance.rs:5-34`, `daemon.rs:317-340`, `449`), and the clock goes on; reading
the expired entries is strongly fair because each pass comes to it after its
candidates, whatever they are, as long as the audit is trusted. Commands, restarts
and failures are under no fairness.

## 5. Disagreements

Two runs are expected to fail; each states what a document or comment of the
repository says.

1. `replay` (`OneAnswer`). `command/receipt.rs:1` says a receipt "makes a retry
   return the first answer". Outcomes of Jet Trash and Autodelete
   Commands are written as versions 13 and 14, which `replay` does not decode:
   the retry is refused as incompatible. With a version that it decodes the
   property holds (`access`).
2. `restored_deleted` (`RestoredIsKept`). `docs/retention.md:9` says the deletion
   happens "unless the Conversation is restored first". The sweep reads expired
   entries once, and `delete_for_good` asks again for work but not whether the
   entry is still there: a Conversation restored in between is deleted.

The models show more of them, without a run of their own. Adding the property that
is named to a configuration gives the trace.

- `NamedOnly` of `ManagedRun` (two Turns and a request, with `Craft = "claude"` or
  with `NativeCancel = FALSE`): `turn/queue.rs:462` says an interruption "can never
  reach later work". The request is read once; if the named Turn completes by itself
  and the next one is dispatched, the signal ladder hits that one, and so does a
  native interruption through Claude, which does not look at the name
  (`jet-craft-claude/src/execution/mod.rs:310`).
- With either bundled Craft an interrupted Turn is settled as `completed`: the Craft
  sends its completion before the `turn_ended` that says it was interrupted, and the
  first of the two settles the Turn (`run/state/mod.rs:266-290`).
  `docs/execution-control.md:32-36` says "The turn settles as `canceled`". For the
  first Turn of a Run there is no `turn_ended` at all, while
  `docs/craft-protocol.md:59` asks for one after every interrupt; the request then
  stays on record.
- After a reconnection Claude completes a later Turn under the name of the Run, which
  the host takes for the Run's first Turn. The completion is refused as
  `turn.invalid_completion` (`turn/dispatch.rs:165-175`), the monitor fails, and after
  three such failures the Run is an orphan although its Harness has finished the
  Turn. This is why `DeliveredSettles` has orphans among its ends.
- `StopEndsCanceled` of `ManagedRun`: `docs/execution-control.md:45` says a Run that
  ends under an admitted request ends `canceled`. When the last wait of the ladder
  is over, the request is cleared although the end of the Run is still in the
  spool; its commit finds no request.
- `LostIsDead` of `ManagedRun` with `MaxReboots = 1`: a launch that is pending while
  the OS restarts carries the old boot identity, which is later taken for proof of
  death (`jet-daemon/src/run/host/mod.rs:370`; `docs/visa-runs.md:43` speaks of
  "proven execution death").
- `OneHome` of `PlaneTransfer` with `LateBundles = TRUE`: a Conversation moves from a
  to b to c, the tombstone on b expires, and the old bundle and fence of the first
  transfer are presented to b again. b knows neither the Conversation nor the
  transfer and becomes Home beside c, while the migration
  `20260914164556_plane_transfers.sql:1` wants no "two simultaneously authoritative
  copies". The fences that b has given are in its own ledger, which import and
  commit do not ask.
- `content = written` for the Home of `PlaneTransfer`, in place of `NothingLost`: a
  prepare reads its bundle, a schedule or the queue admits a turn and a Run completes
  it, and the prepare writes its row; import, relinquish and commit then make a Home
  without that turn. `plane_transfer/prepare.rs:51-53` says "the write below notices a
  Conversation that moved in between and asks for a retry", and
  `docs/plane-transfer.md:51` describes `transfer.stale` so; but what is compared is
  the revision of the Conversation, which a turn does not raise.
- A source that crashes between its fence and its commit is relinquished at the
  start with the transfer still prepared. `abort` asks for the phase of the
  transfer only and removes it: no Plane is Home, and no fence can be obtained.
- The sweeps do not ask for a prepared transfer, so they may stage a frozen
  Conversation, and delete it in the end. If it is relinquished first, the entry of
  the sweep stays in place of the tombstone (`insert_trash`), and, unlike a
  tombstone, can be restored: the content is then kept without a date.
- Reapplying the Deletion ledger at a start removes every identity it names: also a
  Conversation that came back by a transfer, and a client that was paired again
  after a revocation (`deletion/reapply.rs:18`), and a Conversation that was found
  idle by a deletion which wrote its line and could not commit, and that works since.
  `docs/retention.md:88-91` says that such work holds the deletion. `WorkHoldsDeletion`
  names this as the one way left.
- A Workspace that is written between its inspection and the transaction that stages
  its Conversation does not keep it (`retention/sweep.rs:125-130`), where
  `docs/retention.md:55` says "Automatic forgetting waits for all of them". What
  `StagedAsApproved` says of protection is about the store only.
- `docs/retention.md:86` says "Expiry deletes every staged Conversation whose grace
  period has ended". A sweep takes the sixteen soonest entries
  (`conversation/trash.rs:86`); while sixteen of them wait for work the ones behind
  are not looked at, and the first error ends the sweep (`retention/sweep.rs:91`).
  `TrashEmpties` excepts a Conversation that is crowded out in this way.
- A torn ledger line is not recognised as a tail: the ledger reads as corrupt from
  then on, where `docs/recovery.md:218` describes one whole line past the head.
- A ledger line whose commit failed is not counted as applied while the store still
  holds the identity; the next deletion puts `applied` past it, so that a snapshot
  taken then holds the identity and is not affected by a purge
  (`deletion/purge.rs:4`).
- A crash between the rename and the copy of a restore leaves no database; the next open
  creates the store of a new Plane, for which the old ledger does not vouch.
- Refusals of a Command's preparation have no receipt, so a retry is prepared again
  and may be answered otherwise (`command/preparation.rs`).
- An interruption whose Turn completed by itself may stay recorded, and a Run that
  ends by itself later is `canceled` (`run/state/projection.rs:175`).
- Recovery that comes before the pending launch of a Run finds no descriptor and
  marks it as an orphan, which `docs/recovery.md` describes as a surviving
  execution.

## 6. What is proved

Seven modules hold theorems, an eighth (`TurnQueue_proofs`) lemmas only. Each
invariant below was first checked by TLC on the instances of section 4.

**The outbox.** `EffectOutbox_proofs` proves, for every set of Effects and workers, every
assignment of kinds, classes and limits and any number of faults:

| Theorem | Statement |
|---|---|
| `TypeCorrect` | `Spec => []TypeOK` |
| `PolicyKept` | `Spec => []RetryPolicy`: an ambiguous Effect is sent at most once |
| `AttemptsExclusive` | `Spec => []ExclusiveAttempt` |
| `ReadsStayFresh` | `Spec => []FreshRead` |
| `OutcomesHonest` | `Spec => []HonestOutcome` |
| `OutcomesFinal` | `Spec => OutcomeFinal` |
| `Invariant` | `Spec => []IInv`, on which the others rest |

Assumed is `OutboxAssumption` only: the CHECK constraints of the table (an
ambiguous row has one attempt, deliveries, extension changes and Utility jobs are
ambiguous) and that the two null values are no members.

None of the properties is inductive. That a row is attempted once too often, for
instance, is excluded only because what a sweep compares with the limit is what
the table holds, which holds because no other sweep can write the row, which
holds because of the locks. So the invariant is
`IInv == TypeOK /\ SweepInv /\ RowInv`: a sweep holds the lock of its kind
(`Held`) and has read rows of that kind only (`Mine`), a row that was read and is
not being executed is as it was read (`Fresh`), the row of a call is in flight
(`Busy`); and for each row (`RowOK`) the count bounds what was sent, no request
has a number above the count, and a recorded outcome is true of the requests.
`SweepInv` never speaks of requests and `RowInv` of a single row only; the proof
of each is one step per action, over lemmas for what the actions share:
finishing with a row (`HandledStep`), beginning an attempt (`AttemptStep`), the
end and the beginning of a sweep, and writing one row (`OneRow`). `Apart` is the
heart: rows of two sweeps are disjoint.

**Source replay.** `SourceReplay_proofs`, for any number of records and
translations, any lengths of their batches, any group and spool size and any number
of faults, from `SourceAssumption`:

| Theorem | Statement |
|---|---|
| `TypeCorrect` | `Spec => []TypeOK` |
| `JournalExactlyOnce` | `Spec => []ExactlyOnce` |
| `ReleasedAfterCommit` | `Spec => []AcknowledgedAfterCommit` |
| `CursorAlwaysRecoverable` | `Spec => []CursorRecoverable` |
| `JournalOnlyGrows` | `Spec => JournalGrows` |

`ExactlyOnce` speaks of the journal, while what could repeat or drop an observation
is on the wire, in the monitor and in the helper. `IInv` ties them together: what is
on its way is the next part of what the Craft makes of the front record (`WireOK`);
the cursor is at the record that was released last, and then the monitor has
repeated a part of the durable prefix or holds what comes after it (`FrontOpen`), or
one ahead, and then nothing but its acknowledgement is under way
(`FrontCommitted`); the prefix is the end of the journal and the beginning of one
batch (`PrefixOK`). A monitor that was connected again skips exactly that prefix or
refuses it, so a commit always continues the batch that the journal has begun
(`CommitShape`, `GroupKeepsJournal`, `CompleteKeepsJournal`). The batches of the
journal are named by where they start, not by recursion over it, which keeps the
property within reach of the prover.

**Turns and Runs.** `ManagedRun_proofs`, over the lemmas of `TurnQueue_proofs`, for
any Turns, sources, Runs and requests, any bound on the queue, and any number of
faults and restarts, from `QueueAssumption` and `RunAssumption`:

| Theorem | Statement |
|---|---|
| `TypeCorrect` | `Spec => []TypeOK` |
| `OneLiveOwner` | `Spec => []OneOwner` |
| `AtMostOneDelivery` | `Spec => []DeliveredOnce` |
| `WorkStaysClaimed` | `Spec => []WorkIsClaimed` |
| `EndsAreFinal` | `Spec => EndIsFinal` |
| `LostRunsAreDead` | `MaxReboots = 0 => (Spec => []LostIsDead)` |
| `PromiseKept` | `Spec => TurnsKeepPromise`, the refinement of `TurnLifecycle` |

The theorems hold for each Craft. With a restart of the OS `LostIsDead` fails
(section 5), hence its hypothesis.

The invariant is built in layers, each used by the next.

- `CoreInv`: types; the queue agrees with the journal, holds every Turn once and a
  claim at its front only (`QueueOK`); one Run is live, and only a live Run holds a
  claim (`OwnerInv`). `QueueOK` is preserved by each operation of the queue
  (`PrepareOK`, `ClaimOK`, `SettleOK`, `WithdrawOK`), so a step of the system only has
  to be reduced to one of them (`StepKinds`).
- `LaunchInv`: launch Effect, gate and helper agree. The helper is asked for once,
  because the Effect leaves `pending` before the request and never comes back to it.
- `DeliveryInv`: the Turn a Run was created for, the Turn its monitor submits and the
  Turns that were delivered are all different, and have begun in the journal. This
  is why `DeliveredOnce` holds: a claim, once durable, belongs to one delivery.
- `WorkInv`: of the claim of a live Run exactly one party is in charge: the launch
  that has not reached the Harness, the monitor that submits, the Harness that works,
  or an observation of the end that is not committed, of which there is at most one.
  Without the last part a second `turn_completed` could settle the next Turn. What
  the monitor hears may have another name than what the Harness did (`Heard`); it has
  the kind of an end only if the Harness has ended its Turn (`HeardSeen`), and a
  completion under a wrong name is refused, so the claim is settled by its own end.
- `DeathInv`: no plan is of another boot, and a lost Run has a helper that is dead or
  has left.

`PromiseKept` needs `CoreInv` only. A step changes the queue and the journal by one
of five operations or not at all (`StepQueue`), and each of them is an action of
`TurnLifecycle` under the mapping (`AdmitShown`, `StartShown`, `WithdrawShown`,
`ClaimShown`, `SettleShown`). The work is in the order of what waits: the entries an
admission keeps, without the owner at the front, are the subsequence that the
abstract specification speaks of, because a strictly increasing map onto a set of
positions is unique (`NthUnique`, proved by induction on the least counterexample).

**The Deletion ledger.** `EvidenceLedger_proofs`, for every set of identities, any
number of faults and of snapshots, from `LedgerAssumption`:

| Theorem | Statement |
|---|---|
| `TypeCorrect` | `Spec => []TypeOK` |
| `DeletionsStay` | `Spec => []GoneStaysGone` |
| `LedgerStaysSound` | `Spec => []LedgerHolds` |
| `PurgesComplete` | `Spec => PurgeIsComplete` |
| `Invariant` | `Spec => []IInv` |

That a restored copy holds nothing deleted rests on the ledger naming it, which
rests on the order line, head, commit, and on the cut that removes a tail before
the next line. `IInv` says so: the file is at most one line ahead of its head
(`Tail1`), a transaction has written what its step says (`Transaction`), nothing
has applied more than the head names (`Bounded`), what is gone is vouched for
(`Vouched`), a store that serves or cannot be repaired holds none of it
(`Removed`), and neither does a copy that is up to date (`Copied`) or that a purge
leaves (`Purging`).

**Retention.** `Retention_proofs`: `TypeCorrect`, `StagedWithApproval`
(`Spec => StagedAsApproved`) and `DeletionWaitsForWork`
(`Spec => WorkHoldsDeletion`), for any Conversations, policies, Workspaces, grace,
batch limit and interpretations. The two are facts of single steps over the types:
whatever the worker has read, the transaction that writes asks the store again, and
every step but a deletion and a `Restart` keeps the rows.

**Plane transfer.** `PlaneTransfer_proofs`, for any Planes, transfers, turns and
faults, from `TransferAssumption`:

| Theorem | Statement |
|---|---|
| `TypeCorrect` | `Spec => []TypeOK` |
| `HomeIsUnique` | `LateBundles = FALSE => (Spec => []OneHome)` |
| `AuthorityIsFenced` | `LateBundles = FALSE => (Spec => []HomeIsFenced)` |
| `NothingIsLost` | `LateBundles = FALSE => (Spec => []NothingLost)` |
| `Invariant` | `LateBundles = FALSE => (Spec => []AuthorityInv)` |

The Planes never meet, so uniqueness cannot be read off any one of them; it comes
from the fences, which are kept in the model for ever. `AuthorityInv` says that
they form one chain, one for each epoch, each given by the Plane that the one
before it names (`Chain`); that whoever is Home, or may still give a fence, owns
the last epoch of the chain (`Claims`); that no Plane goes back to an epoch it has
retired (`Forward`), which is where late bundles break it; and that a ledger holds
opened epochs only (`Ledgers`). Two Homes would own two last epochs of one chain.

`NothingIsLost` says that the Home lacks at most the turns that were completed
between the read and the write of a prepare. It is a fact about copies and adds
`ContentInv`, in which a content is `Kept` if it lacks no other turn: all copies of
one transfer have one content (`OneContent`); until the
Plane that the last fence names is Home, everything it can come Home with is kept
(`Carried`); work is done in the last epoch only, whose row is kept (`Worked`); an
open transfer has frozen its Conversation on both sides (`Offered`); a bundle leaves
the owner of its epoch (`Bundled`); and what a prepare has read stays kept until its
write (`Planned`), which is where the turns that it misses are counted.

**Remote access.** `RemoteAccess_proofs`, for any clients, connections, Commands,
contents, windows, attempts and faults, from `PairingAssumption` and
`AccessAssumption`:

| Theorem | Statement |
|---|---|
| `TypeCorrect` | `Spec => []TypeOK` |
| `AuthorityIsCurrent` | `Spec => []LiveIsEnabled` |
| `ExecutedOnce` | `Spec => []AtMostOnce` |
| `GuessingStops` | `Spec => []GuessesBounded` |
| `KeysThroughOpenGate` | `Spec => PairedThroughOpenGate` |
| `RetriesAgree` | `Spec => []OneAnswer`, if `replay` decodes the version of every Command's outcome |
| `Invariant` | `Spec => []AccessInv` |

The proof has two layers. For each pairing Command a lemma shows `Sound`: from a
valid store it makes a valid store, names the client whose authority it takes,
establishes a key only for a confirmed claimant under an open gate, and counts each
wrong proof. The steps of `RemoteAccess` then need nothing else of the Commands.
`AccessInv` adds that an offer in use has an attempt left and an open gate
(`ValidStore`), that its attempts are the guesses made (`Guesses`), that a key which
was read is current or is about to be closed, and that nobody authenticates while a
client is invalidated (`Connected`), and that an identity without a receipt was
never executed (`Receipted`). `RetriesAgree` adds that every answer given so far is
the one its receipt holds, or that the receipt is a tombstone. Its hypothesis is on
the constant `Version` and leaves out the Commands of section 5.

Model-checked only: liveness (`EverythingResolves`, `SourceDrains`,
`DeliveredSettles`, `GateIsReleased`, `TrashEmpties`), because fairness and
`ENABLED` are out of the prover's reach. The prover cannot use induction schemes
either; where an argument is by induction over positions of a sequence
(`Subsequence`), it takes the least counterexample, and definitions that the proofs
need are by position instead of by recursion.

## 7. Plan

Done: the outbox, source replay, the Turns and Runs of one Conversation, the Deletion
ledger, retention, Plane transfer and remote access, each with proofs of all its
safety properties, and the refinement of `TurnLifecycle`.

To prove next: what the theorems above leave to a hypothesis. With restarts of the OS,
`LostIsDead` for Runs whose launch was not pending at a restart; with
`LateBundles`, `OneHome` as long as no tombstone of a Plane that had relinquished has
expired; `NamedOnly` for interruptions that Codex carries out natively.

To model next: schedules and Auto-continue over `TurnQueue` with expiry and the
holds on dispatch; credit and priorities of a stream connection; the Event journal
against subscriptions and its retention; Artifacts against collection; promotion as
far as its state machine goes.

## 8. Not modelled

- *Planned, see section 7*: schedules, Auto-continue, stream credit, the Event
  journal and subscriptions, Artifacts, promotion.
- *Contents*: prompts, patches, checkpoints, reviews, files, digests, screens,
  prices. No property here tells two of them apart.
- *I/O*: Git (preparation and publication of a delivery), the network, inference,
  cryptography of pairing, the OS's process table (only its answers).
- *Presentation*: the client library and the applications, which are the larger
  part of the repository's code and reach a Plane through Commands and Queries.
- *Crafts*: the translation of a Harness's output, except as versions of a
  translation in `SourceReplay` and for the names and ends of Turns in `ManagedRun`.
- *Single transactions without a protocol of their own*: settings, search, usage,
  energy, accounts. The Security audit chain uses the same file format as the
  Deletion ledger.
- *Variants of what is modelled*: executions of unknown Runs and orphaned terminals
  follow the scheme of orphaned Runs; terminals launch by the same Effects.
- *Of modelled components*: recovery bundles and the deep check of Store recovery;
  the restoration of a Plane from a snapshot in the middle of a transfer, which can
  bring back a Home or a prepared target; the daemon's transport and remote tools;
  what the Commands other than pairing do, in `RemoteAccess`. One of these matters
  there: restoring a snapshot at run time (`command/execute.rs:76-78`,
  `store_recovery/restore.rs:74-123`) replaces the Paired clients and the receipts
  and closes no live connection. The answer to a repeated OpenPairing, from which the
  pairing code is redacted (`command/execute.rs:203-207`), is not one of the answers
  that `OneAnswer` compares. The sweeps of `Retention` also rest in Recovery mode,
  which is the subject of `EvidenceLedger`.
