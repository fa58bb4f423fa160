------------------------------ MODULE ManagedRun ------------------------------
(***************************************************************************)
(* The managed Runs of one Conversation: admission and claim of Turns,     *)
(* the launch Effect, the monitor that commits observations and dispatches *)
(* the next Turn, execution control, recovery and orphaned executions      *)
(* (jet-core/src/run and turn), over a helper (jet-fueld) that outlives    *)
(* jetd.                                                                   *)
(*                                                                         *)
(* SourceReplay shows that every observation of the helper's spool commits *)
(* exactly once and in order, so here the durable read position is simply  *)
(* the front of the spool.  EffectOutbox shows how a row is attempted; here*)
(* a launch or control Effect is its row and what its Adapter does.        *)
(***************************************************************************)
EXTENDS TurnQueue, FiniteSets

CONSTANTS
    Controls,      \* ControlRun Effects, one per accepted Command
    NoControl,
    NativeCancel,  \* the pinned Craft speaks Craft 1.4
    Craft,         \* the pinned Craft: one of the two that Jet comes with, or
                   \* that of its tests
    MaxStrikes,    \* failures before a Run is left as an orphan (3 in the code)
    MaxFaults,     \* bound on crashes, broken connections and deaths
    MaxReboots     \* bound on restarts of the operating system

ASSUME RunAssumption ==
    /\ NoControl \notin Controls
    /\ NativeCancel \in BOOLEAN /\ Craft \in {"claude", "codex", "fixture"}
    /\ MaxStrikes \in Nat \ {0} /\ MaxFaults \in Nat /\ MaxReboots \in Nat

VARIABLES
    queue,     \* durable: the Turn queue
    status,    \* durable: the last TurnChanged Event of every Turn
    run,       \* durable: lifecycle and execution state of every Run
    last,      \* durable: the Run created last
    start,     \* durable: the StartRun Effect of every Run
    control,   \* durable: the ControlRun Effects
    orphans,   \* durable: orphaned executions
    gate,      \* volatile: holder of effect_reconciliation and its progress
    monitor,   \* volatile: the monitor of every Run
    strikes,   \* volatile: consecutive failures of every Run
    native,    \* external: the helper and its Harness
    spool,     \* external: observations that are not committed yet
    delivered, \* external: how often each Turn reached a Harness
    hits,      \* pairs <<turn an interruption named, turn it reached>>
    told,      \* external: whether the Craft of a Run was given its last Turn
               \* by name, and has not forgotten that
    faults, reboots

durable == <<queue, status, run, last, start, control, orphans>>
volatile == <<gate, monitor, strikes>>
external == <<native, spool, delivered, hits, told>>
bounds == <<faults, reboots>>
vars == <<durable, volatile, external, bounds>>

Terminal == {"completed", "failed", "canceled", "lost"}
executing(life) == life \in {"active", "stopping"}
is_terminal(life) == life \in Terminal
Live(r) == run[r].life \notin Terminal \union {"none"}

NoRequest == [control |-> "none", turn |-> NoTurn]
NewRun == [life |-> "none", turn |-> NoTurn, disconnected |-> FALSE, boundary |-> FALSE,
           partial |-> FALSE, request |-> NoRequest]

(* helper: "none", "requested" (the Craft was asked), "alive", "finished"  *)
(* (it released all source and left) or "dead".  stale: the launch plan    *)
(* carries the identity of an earlier boot.                                *)
NoHelper == [helper |-> "none", working |-> NoTurn, exited |-> FALSE, cancelling |-> FALSE,
             stale |-> FALSE]

NoMonitor == [phase |-> "none", turn |-> NoTurn]
Free == [task |-> "none", run |-> NoRun, control |-> NoControl, request |-> NoRequest, step |-> 0]

Init ==
    /\ queue = <<>> /\ status = [t \in Turns |-> "absent"]
    /\ run = [r \in Runs |-> NewRun] /\ last = NoRun
    /\ start = [r \in Runs |-> "none"]
    /\ control = [c \in Controls |-> [run |-> NoRun, state |-> "none"]]
    /\ orphans = {}
    /\ gate = Free /\ monitor = [r \in Runs |-> NoMonitor] /\ strikes = [r \in Runs |-> 0]
    /\ native = [r \in Runs |-> NoHelper] /\ spool = [r \in Runs |-> <<>>]
    /\ delivered = [t \in Turns |-> 0] /\ hits = {}
    /\ told = [r \in Runs |-> FALSE]
    /\ faults = 0 /\ reboots = 0

-----------------------------------------------------------------------------
(* Commands of clients, and the workers that admit for them.               *)

(* The journal after t was admitted to the queue.                          *)
Admitted(t) ==
    [u \in Turns |-> IF u = t THEN "queued"
                     ELSE IF u \in Displaced(queue, t) THEN DisplacedState(t)
                     ELSE status[u]]

admit(t) ==
    /\ status[t] = "absent" /\ Admissible(queue, t)
    /\ queue' = prepare(queue, t)
    /\ status' = Admitted(t)
    /\ UNCHANGED <<run, last, start, control, orphans, volatile, external, bounds>>

Withdraw(t) ==
    /\ \E i \in position(queue, t) : queue[i].state = "queued" /\ Source[t] = "user"
    /\ queue' = withdraw(queue, t)
    /\ status' = [status EXCEPT ![t] = "withdrawn"]
    /\ UNCHANGED <<run, last, start, control, orphans, volatile, external, bounds>>

(* create_run: one Run of a Conversation at a time.                        *)
create_run(r) ==
    /\ run[r].life = "none"
    /\ \A s \in Runs : ~Live(s)

(* A new Run claims the oldest input and records its launch Effect.        *)
install(r, q) ==
    /\ queue' = claim(q, r)
    /\ run' = [run EXCEPT ![r] = [NewRun EXCEPT !.life = "starting", !.turn = q[claimed(q)].turn]]
    /\ start' = [start EXCEPT ![r] = "pending"]
    /\ last' = r
    /\ UNCHANGED <<control, orphans, volatile, external, bounds>>

(* The StartRun Command admits its prompt, which must find no claim.       *)
StartRun(r, t) ==
    LET q == prepare(queue, t) IN
    /\ status[t] = "absent" /\ Source[t] = "user" /\ Admissible(queue, t)
    /\ ready(q)
    /\ create_run(r)
    /\ status' = [Admitted(t) EXCEPT ![q[claimed(q)].turn] = "active"]
    /\ install(r, q)

(* prepare_queued_run: pending input continues the last execution, once    *)
(* its source is at a boundary.  The recheck inside its transaction makes  *)
(* the read before the preparation irrelevant.                             *)
prepare_queued_run(r) ==
    /\ ready(queue)
    /\ last # NoRun /\ ~run[last].partial
    /\ create_run(r)
    /\ status' = [status EXCEPT ![queue[claimed(queue)].turn] = "active"]
    /\ install(r, queue)

(* Execution control's record.  A repeated request keeps the turn the      *)
(* first one named.                                                        *)
RecordControl(c, r, kind) ==
    LET active == active_turn(queue, r) IN
    /\ control[c].state = "none"
    /\ executing(run[r].life)
    /\ kind = "interrupt" => run[r].life = "active" /\ active # NoTurn
    /\ run' = [run EXCEPT ![r].request =
                  IF @.control = kind THEN @ ELSE [control |-> kind, turn |-> active],
               ![r].life = IF kind = "stop" THEN "stopping" ELSE @]
    /\ control' = [control EXCEPT ![c] = [run |-> r, state |-> "pending"]]
    /\ UNCHANGED <<queue, status, last, start, orphans, volatile, external, bounds>>

-----------------------------------------------------------------------------
(* Observations: record and settle, in one transaction.                    *)

Observation(kind, turn) == [kind |-> kind, turn |-> turn]
Supervisor(kind) == Observation(kind, NoTurn)

(* A batch of a Craft that ends a Turn: the completion alone, the end of   *)
(* an interrupted Turn alone, or the one and then the other.               *)
Completing == {"turn_completed", "completed_interrupted"}
Interrupts(r, obs) ==
    /\ obs.kind \in {"interrupted", "completed_interrupted"}
    /\ run[r].request.control = "interrupt"

(* What the projection and the settlement accept; anything else rolls the  *)
(* transaction back.                                                       *)
Accepts(r, obs) ==
    CASE obs.kind \in {"started", "launch_failed"} -> run[r].life = "starting"
      [] obs.kind \in Completing ->
            /\ executing(run[r].life)
            /\ \E i \in Owned(queue, r) : queue[i].turn = obs.turn
      [] obs.kind \in {"interrupted", "ended_well", "ended_badly"} -> executing(run[r].life)
      [] OTHER -> TRUE

(* Mutant: a Run that was lost keeps its claim.                            *)
Failures_NotLost == {"ended_well", "ended_badly", "launch_failed"}

(* Mutant: a lost connection is taken for the end of the Turn.             *)
Failures_Disconnected == {"ended_well", "ended_badly", "launch_failed", "lost", "disconnected"}

(* Observations that fail the Turn.                                        *)
Failures == {"ended_well", "ended_badly", "launch_failed", "lost"}

Settlement(r, obs) ==
    CASE obs.kind \in Completing -> "completed"
      [] obs.kind \in Failures -> "failed"
      [] obs.kind \in {"disconnected", "reconnected"} \ Failures -> "outcome_unknown"
      [] Interrupts(r, obs) -> "canceled"
      [] OTHER -> "none"

Settle(r, state) ==
    IF state = "none" \/ Owned(queue, r) = {} THEN UNCHANGED <<queue, status>>
    ELSE LET i == Min(Owned(queue, r)) IN
         IF queue[i].state = state THEN UNCHANGED <<queue, status>>
         ELSE /\ queue' = settle(queue, i, state)
              /\ status' = [status EXCEPT ![queue[i].turn] = state]

(* Mutant: an ended Run can still be lost.                                 *)
Lost_Always(s) == [s EXCEPT !.life = "lost", !.partial = FALSE, !.disconnected = FALSE]

(* Proven death ends a Run that has not ended and releases its prefix.     *)
Lost(s) ==
    IF is_terminal(s.life) THEN [s EXCEPT !.partial = FALSE]
    ELSE [s EXCEPT !.life = "lost", !.partial = FALSE, !.disconnected = FALSE]

apply(r, obs) ==
    LET s == run[r] IN
    CASE obs.kind = "started" -> [s EXCEPT !.life = "active"]
      [] obs.kind = "launch_failed" -> [s EXCEPT !.life = "failed"]
      [] Interrupts(r, obs) -> [s EXCEPT !.request = NoRequest]
      [] obs.kind \in {"ended_well", "ended_badly"} ->
            [s EXCEPT !.life = IF s.request # NoRequest THEN "canceled"
                               ELSE IF obs.kind = "ended_well" THEN "completed" ELSE "failed"]
      [] obs.kind = "lost" -> Lost(s)
      [] obs.kind = "reconnected" -> [s EXCEPT !.disconnected = FALSE]
      [] obs.kind = "disconnected" ->
            [s EXCEPT !.disconnected = IF executing(s.life) THEN TRUE ELSE @]
      [] OTHER -> s

(* The source boundary that the transaction writes to the Run: none, that  *)
(* of a group of a batch, or that of a whole one.                          *)
AtSource(s, boundary) ==
    CASE boundary = "none"     -> s
      [] boundary = "pending"  -> [s EXCEPT !.partial = TRUE]
      [] boundary = "complete" -> [s EXCEPT !.boundary = TRUE, !.partial = FALSE]

record(r, obs, boundary) ==
    /\ Accepts(r, obs)
    /\ run' = [run EXCEPT ![r] = AtSource(apply(r, obs), boundary)]
    /\ Settle(r, Settlement(r, obs))

observe_run(r, kind) == record(r, Supervisor(kind), "none")

-----------------------------------------------------------------------------
(* Launch: the StartRun Effect, under the gate.                            *)

Launching(r) == gate.task = "launch" /\ gate.run = r
Start(r, state) == start' = [start EXCEPT ![r] = state]

LaunchBegins(r) ==
    /\ gate = Free /\ start[r] = "pending"
    /\ Start(r, "in_flight")
    /\ gate' = [Free EXCEPT !.task = "launch", !.run = r]
    /\ UNCHANGED <<queue, status, run, last, control, orphans, monitor, strikes, external, bounds>>

(* The plan no longer validates, or the Craft cannot be reached: nothing   *)
(* was sent, and the failure ends the Run in the Effect's transaction.     *)
LaunchRefused(r) ==
    /\ Launching(r) /\ gate.step = 0
    /\ IF Accepts(r, Supervisor("launch_failed"))
       THEN observe_run(r, "launch_failed") /\ Start(r, "failed")
       ELSE UNCHANGED <<queue, status, run, start>>
    /\ gate' = Free
    /\ UNCHANGED <<last, control, orphans, monitor, strikes, external, bounds>>

LaunchSends(r) ==
    /\ Launching(r) /\ gate.step = 0
    /\ native' = [native EXCEPT ![r].helper = "requested"]
    /\ gate' = [gate EXCEPT !.step = 1]
    /\ UNCHANGED <<durable, monitor, strikes, spool, delivered, hits, told, bounds>>

(* The first observation arrived: a monitor takes the connection over.     *)
LaunchReturns(r) ==
    /\ Launching(r) /\ gate.step = 1
    /\ native[r].helper = "alive"
    /\ monitor' = [monitor EXCEPT ![r].phase = "read"]
    /\ Start(r, "completed")
    /\ gate' = Free
    /\ UNCHANGED <<queue, status, run, last, control, orphans, strikes, external, bounds>>

(* No answer in time: the attempt stays in flight and is never repeated.   *)
LaunchUnknown(r) ==
    /\ Launching(r) /\ gate.step = 1
    /\ gate' = Free
    /\ UNCHANGED <<durable, monitor, strikes, external, bounds>>

(* Mutant: an attempt without an answer is made again.                     *)
LaunchReconciles_Retries(r) ==
    /\ gate = Free /\ start[r] = "in_flight"
    /\ Start(r, IF run[r].life = "starting" THEN "pending" ELSE "completed")
    /\ UNCHANGED <<queue, status, run, last, control, orphans, volatile, external, bounds>>

LaunchReconciles(r) ==
    /\ gate = Free /\ start[r] = "in_flight"
    /\ Start(r, IF run[r].life = "starting" THEN "outcome_unknown" ELSE "completed")
    /\ UNCHANGED <<queue, status, run, last, control, orphans, volatile, external, bounds>>

-----------------------------------------------------------------------------
(* The monitor.                                                            *)

Reading(r) == monitor[r].phase = "read" /\ spool[r] # <<>>

(* What the Craft makes of the source.  The bundled ones complete every    *)
(* Turn, by the name they know it under, which is that of the Run's first  *)
(* Turn until they were told of another, and then say how it ended if it   *)
(* was told.  That of the tests reports an interrupted Turn as just that.  *)
Heard(r) ==
    LET obs == Head(spool[r])
        as == IF obs.kind = "interrupted" /\ told[r] THEN "completed_interrupted"
              ELSE "turn_completed"
    IN  IF obs.kind \in {"turn_completed", "interrupted"} /\ Craft # "fixture"
        THEN Observation(as, IF told[r] THEN obs.turn ELSE run[r].turn)
        ELSE obs
Phase(r, phase) == monitor' = [monitor EXCEPT ![r] = [phase |-> phase, turn |-> NoTurn]]

(* A group of a batch commits with the prefix that a replay will skip.     *)
CommitGroup(r) ==
    /\ Reading(r) /\ ~run[r].partial
    /\ record(r, Heard(r), "pending")
    /\ UNCHANGED <<last, start, control, orphans, volatile, external, bounds>>

(* The prefix that was committed is heard again, as it was.                *)
SamePrefix(r) == Heard(r).turn = Head(spool[r]).turn

(* The boundary commits with what is left of the batch; then the source is *)
(* acknowledged, which also forgets earlier failures.                      *)
CommitBoundary(r) ==
    LET obs == Heard(r) IN
    /\ Reading(r)
    /\ IF run[r].partial
       THEN /\ SamePrefix(r)
            /\ run' = [run EXCEPT ![r] = AtSource(run[r], "complete")] /\ UNCHANGED <<queue, status>>
       ELSE record(r, obs, "complete")
    /\ spool' = [spool EXCEPT ![r] = Tail(spool[r])]
    /\ strikes' = [strikes EXCEPT ![r] = 0]
    /\ Phase(r, IF obs.kind \in {"launch_failed", "ended_well", "ended_badly"} THEN "finish"
                ELSE "read")
    /\ UNCHANGED <<last, start, control, orphans, gate, native, delivered, hits, told, bounds>>

(* An observation the projection refuses ends the monitor, and so does a   *)
(* prefix that is not the one on record.                                   *)
CommitRefused(r) ==
    /\ Reading(r)
    /\ IF run[r].partial THEN ~SamePrefix(r) ELSE ~Accepts(r, Heard(r))
    /\ Phase(r, "failing")
    /\ UNCHANGED <<durable, gate, strikes, external, bounds>>

MayDispatch(r) ==
    /\ run[r].life = "active" /\ ~run[r].disconnected
    /\ run[r].boundary /\ ~run[r].partial
    /\ ready(queue)

(* dispatch_turn claims durably and then delivers.  It runs at every       *)
(* boundary and at every wake-up of the Plane; what may hold it back       *)
(* (quota, schedules, energy, a delivery or a transfer) is not modelled.   *)
DispatchTurn(r) ==
    /\ monitor[r].phase = "read" /\ MayDispatch(r)
    /\ queue' = claim(queue, r)
    /\ status' = [status EXCEPT ![queue[claimed(queue)].turn] = "active"]
    /\ monitor' = [monitor EXCEPT ![r] = [phase |-> "submit", turn |-> queue[claimed(queue)].turn]]
    /\ UNCHANGED <<run, last, start, control, orphans, gate, strikes, external, bounds>>

(* A Harness that has ended leaves the Turn unread.                        *)
Deliver(r, t) ==
    IF native[r].helper = "alive" /\ ~native[r].exited
    THEN /\ native' = [native EXCEPT ![r].working = t, ![r].cancelling = FALSE]
         /\ delivered' = [delivered EXCEPT ![t] = @ + 1]
    ELSE UNCHANGED <<native, delivered>>

SubmitTurn(r) ==
    /\ monitor[r].phase = "submit"
    /\ Deliver(r, monitor[r].turn)
    /\ told' = [told EXCEPT ![r] = TRUE]
    /\ Phase(r, "read")
    /\ UNCHANGED <<durable, gate, strikes, spool, hits, bounds>>

(* The connection is finished after the last source: the helper leaves.    *)
MonitorFinishes(r) ==
    /\ monitor[r].phase = "finish"
    /\ native' = [native EXCEPT ![r].helper = IF @ = "alive" THEN "finished" ELSE @]
    /\ Phase(r, "none")
    /\ UNCHANGED <<durable, gate, strikes, spool, delivered, hits, told, bounds>>

(* mark_orphan after the third failure in a row.                           *)
Strike(r) ==
    /\ strikes' = [strikes EXCEPT ![r] = IF @ < MaxStrikes THEN @ + 1 ELSE @]
    /\ orphans' = IF strikes'[r] = MaxStrikes THEN orphans \union {r} ELSE orphans

(* The failure of a monitor is settled under the gate.                     *)
MonitorSettles(r) ==
    /\ monitor[r].phase = "failing" /\ gate = Free
    /\ observe_run(r, "disconnected")
    /\ Strike(r)
    /\ Phase(r, "none")
    /\ UNCHANGED <<last, start, control, gate, external, bounds>>

-----------------------------------------------------------------------------
(* Execution control: the ControlRun Effect, under the gate.               *)

Controlling(c) == gate.task = "control" /\ gate.control = c
Effect(c, state) == control' = [control EXCEPT ![c].state = state]
Forget(r) == run' = [run EXCEPT ![r].request = NoRequest]

(* The attempt reads the request once.  None is left to do, or the Run     *)
(* ended by itself, or the request is carried out.                         *)
ControlBegins(c) ==
    LET r == control[c].run IN
    /\ gate = Free /\ control[c].state = "pending"
    /\ IF run[r].request = NoRequest
       THEN Effect(c, "completed") /\ UNCHANGED <<run, gate>>
       ELSE IF is_terminal(run[r].life)
       THEN Effect(c, "completed") /\ Forget(r) /\ UNCHANGED gate
       ELSE /\ Effect(c, "in_flight")
            /\ gate' = [task |-> "control", run |-> r, control |-> c,
                        request |-> run[r].request, step |-> 0]
            /\ UNCHANGED run
    /\ UNCHANGED <<queue, status, last, start, orphans, monitor, strikes, external, bounds>>

(* cancel_natively is tried first, over the live connection of a monitor.  *)
Natively(r) ==
    /\ gate.request.control = "interrupt" /\ gate.request.turn # NoTurn
    /\ NativeCancel /\ monitor[r].phase \in {"read", "submit", "finish"}

Hit(r) ==
    hits' = IF gate.request.control = "interrupt" /\ native[r].working # NoTurn
            THEN hits \union {<<gate.request.turn, native[r].working>>} ELSE hits

(* Claude interrupts whatever is in flight.  Codex closes the connection   *)
(* over a name that is not that of the Turn in flight, or the second time. *)
Reaches(r) == Craft = "claude" \/ native[r].working = gate.request.turn
Breaks(r) == Craft = "codex" /\ (~Reaches(r) \/ native[r].cancelling)

ControlNative(c) ==
    LET r == gate.run IN
    /\ Controlling(c) /\ gate.step = 0 /\ Natively(r)
    /\ IF Breaks(r) THEN Phase(r, "failing") ELSE UNCHANGED monitor
    /\ IF Reaches(r) /\ ~Breaks(r)
       THEN /\ native' = [native EXCEPT ![r].cancelling = native[r].working # NoTurn]
            /\ Hit(r)
       ELSE UNCHANGED <<native, hits>>
    /\ Effect(c, "completed")
    /\ gate' = Free
    /\ UNCHANGED <<queue, status, run, last, start, orphans, strikes, spool, delivered, told, bounds>>

(* One more signal of the ladder, after the wait for the one before.       *)
ControlSignals(c) ==
    LET r == gate.run IN
    /\ Controlling(c) /\ gate.step < 3
    /\ gate.step = 0 => ~Natively(r)
    /\ gate.step > 0 => ~is_terminal(run[r].life)
    /\ native[r].helper = "alive"
    /\ IF native[r].exited THEN UNCHANGED hits ELSE Hit(r)
    /\ gate' = [gate EXCEPT !.step = gate.step + 1]
    /\ UNCHANGED <<durable, monitor, strikes, native, spool, delivered, told, bounds>>

(* Mutant: the last wait of the ladder has no end of its own.              *)
ControlSettles_Waits(c) ==
    LET r == gate.run IN
    /\ Controlling(c)
    /\ gate.step > 0 /\ is_terminal(run[r].life)
    /\ Forget(r)
    /\ Effect(c, "completed")
    /\ gate' = Free
    /\ UNCHANGED <<queue, status, last, start, orphans, monitor, strikes, external, bounds>>

(* The ladder ends: the Run is over, or the last wait is.  (settle_control *)
(* writes nothing when the same termination is on record; a request clears *)
(* that record, so then there is no request to drop either.)               *)
ControlSettles(c) ==
    LET r == gate.run IN
    /\ Controlling(c)
    /\ \/ gate.step > 0 /\ is_terminal(run[r].life)
       \/ gate.step = 0 /\ ~Natively(r) /\ native[r].helper # "alive" /\ is_terminal(run[r].life)
       \/ gate.step = 3
    /\ Forget(r)
    /\ Effect(c, "completed")
    /\ gate' = Free
    /\ UNCHANGED <<queue, status, last, start, orphans, monitor, strikes, external, bounds>>

(* A helper that cannot be signalled, of a Run that is not over.           *)
ControlUnknown(c) ==
    LET r == gate.run IN
    /\ Controlling(c) /\ gate.step < 3
    /\ gate.step = 0 => ~Natively(r)
    /\ native[r].helper # "alive" /\ ~is_terminal(run[r].life)
    /\ gate' = Free
    /\ UNCHANGED <<durable, monitor, strikes, external, bounds>>

(* The connection breaks under the interruption: whether it arrived is not *)
(* known, and here it did not.                                             *)
ControlNativeFails(c) ==
    /\ Controlling(c) /\ gate.step = 0 /\ Natively(gate.run)
    /\ faults < MaxFaults /\ faults' = faults + 1
    /\ Phase(gate.run, "failing")
    /\ gate' = Free
    /\ UNCHANGED <<durable, strikes, external, reboots>>

ControlReconciles(c) ==
    LET r == control[c].run IN
    /\ gate = Free /\ control[c].state = "in_flight"
    /\ IF run[r].request # NoRequest /\ ~is_terminal(run[r].life)
       THEN Effect(c, "outcome_unknown") /\ UNCHANGED run
       ELSE Effect(c, "completed") /\ Forget(r)
    /\ UNCHANGED <<queue, status, last, start, orphans, volatile, external, bounds>>

-----------------------------------------------------------------------------
(* Recovery: recover_runs handles one Run that has no monitor.             *)

(* Proof of death: the process is gone, or the plan is of another boot.    *)
Gone(r) == native[r].stale \/ native[r].helper \in {"dead", "finished"}

Recovering(r) ==
    /\ gate = Free /\ monitor[r].phase = "none"
    /\ run[r].life # "none"
    /\ Live(r) \/ r \in orphans \/ native[r].helper \in {"alive", "dead"}

RecoverLost(r) ==
    /\ Recovering(r) /\ Gone(r)
    /\ observe_run(r, "lost")
    /\ orphans' = orphans \ {r}
    /\ strikes' = [strikes EXCEPT ![r] = 0]
    /\ UNCHANGED <<last, start, control, gate, monitor, external, bounds>>

(* Mutant: without a descriptor the Run is taken for dead.                 *)
RecoverUnsafe_Lost(r) ==
    /\ Recovering(r) /\ ~Gone(r) /\ r \notin orphans
    /\ native[r].helper \in {"none", "requested"}
    /\ observe_run(r, "lost")
    /\ UNCHANGED <<last, start, control, orphans, volatile, external, bounds>>

(* No descriptor is no proof of anything: the Run is left as an orphan.    *)
RecoverUnsafe(r) ==
    /\ Recovering(r) /\ ~Gone(r) /\ r \notin orphans
    /\ native[r].helper \in {"none", "requested"}
    /\ orphans' = orphans \union {r}
    /\ UNCHANGED <<queue, status, run, last, start, control, volatile, external, bounds>>

(* reconnect_run: a finished Run is only finished again, the others get a  *)
(* monitor, and what they were doing is no longer known.  Claude is given  *)
(* the name of the Run; Codex has the name of the Turn in its checkpoint.  *)
Reconnect(r) ==
    IF is_terminal(run[r].life) /\ ~run[r].partial
    THEN /\ native' = [native EXCEPT ![r].helper = "finished"]
         /\ UNCHANGED <<queue, status, run, monitor, told>>
    ELSE /\ observe_run(r, "reconnected")
         /\ Phase(r, "read")
         /\ told' = [told EXCEPT ![r] = @ /\ Craft # "claude"]
         /\ UNCHANGED native

RecoverConnects(r) ==
    /\ Recovering(r) /\ ~Gone(r) /\ r \notin orphans
    /\ native[r].helper = "alive"
    /\ Reconnect(r)
    /\ UNCHANGED <<last, start, control, orphans, gate, strikes, spool, delivered, hits, bounds>>

(* The Craft cannot be reached: a fault.                                   *)
RecoverUnavailable(r) ==
    /\ Recovering(r) /\ ~Gone(r) /\ r \notin orphans
    /\ native[r].helper = "alive" /\ faults < MaxFaults
    /\ faults' = faults + 1
    /\ observe_run(r, "disconnected")
    /\ Strike(r)
    /\ UNCHANGED <<last, start, control, gate, monitor, external, reboots>>

(* A user resolves an orphan by the metadata of its last mark, which names *)
(* the helper only while no monitor has it.  Adoption revalidates and      *)
(* reconnects; the mark goes with the Effect's completion, in a            *)
(* transaction of its own.                                                 *)
ResolveAdopt(r) ==
    /\ gate = Free /\ r \in orphans /\ monitor[r].phase = "none"
    /\ native[r].helper = "alive" /\ ~native[r].stale
    /\ ~(is_terminal(run[r].life) /\ ~run[r].partial)
    /\ Reconnect(r)
    /\ strikes' = [strikes EXCEPT ![r] = 0]
    /\ gate' = [Free EXCEPT !.task = "resolve", !.run = r]
    /\ UNCHANGED <<last, start, control, orphans, spool, delivered, hits, bounds>>

(* The helper is gone, and its spool with it.                              *)
Dies(r) ==
    /\ native' = [native EXCEPT ![r].helper = "dead", ![r].working = NoTurn,
                                ![r].exited = TRUE, ![r].cancelling = FALSE]
    /\ spool' = [spool EXCEPT ![r] = <<>>]

ResolveTerminate(r) ==
    /\ gate = Free /\ r \in orphans /\ monitor[r].phase = "none"
    /\ native[r].helper = "alive"
    /\ Dies(r)
    /\ gate' = [Free EXCEPT !.task = "resolve", !.run = r]
    /\ UNCHANGED <<durable, monitor, strikes, delivered, hits, told, bounds>>

ResolveSettles(r) ==
    /\ gate.task = "resolve" /\ gate.run = r
    /\ orphans' = orphans \ {r}
    /\ gate' = Free
    /\ UNCHANGED <<queue, status, run, last, start, control, monitor, strikes, external, bounds>>

-----------------------------------------------------------------------------
(* The helper and its Harness.                                             *)

Appends(r, obs) == spool' = [spool EXCEPT ![r] = Append(spool[r], obs)]

(* The helper's first record says whether the Harness started; the Harness *)
(* begins with the Turn the Run was created for.                           *)
HelperStarts(r) ==
    /\ native[r].helper = "requested"
    /\ \/ /\ native' = [native EXCEPT ![r].helper = "alive", ![r].working = run[r].turn]
          /\ delivered' = [delivered EXCEPT ![run[r].turn] = @ + 1]
          /\ Appends(r, Supervisor("started"))
       \/ /\ native' = [native EXCEPT ![r].helper = "alive", ![r].exited = TRUE]
          /\ Appends(r, Supervisor("launch_failed"))
          /\ UNCHANGED delivered
    /\ UNCHANGED <<durable, volatile, hits, told, bounds>>

Works(r) == native[r].helper = "alive" /\ ~native[r].exited

HarnessCompletes(r) ==
    /\ Works(r) /\ native[r].working # NoTurn
    /\ Appends(r, Observation("turn_completed", native[r].working))
    /\ native' = [native EXCEPT ![r].working = NoTurn, ![r].cancelling = FALSE]
    /\ UNCHANGED <<durable, volatile, delivered, hits, told, bounds>>

HarnessInterrupted(r) ==
    /\ Works(r) /\ native[r].cancelling
    /\ Appends(r, Observation("interrupted", native[r].working))
    /\ native' = [native EXCEPT ![r].working = NoTurn, ![r].cancelling = FALSE]
    /\ UNCHANGED <<durable, volatile, delivered, hits, told, bounds>>

(* By itself or under a signal.                                            *)
HarnessEnds(r) ==
    /\ Works(r)
    /\ \E kind \in {"ended_well", "ended_badly"} : Appends(r, Supervisor(kind))
    /\ native' = [native EXCEPT ![r].working = NoTurn, ![r].cancelling = FALSE, ![r].exited = TRUE]
    /\ UNCHANGED <<durable, volatile, delivered, hits, told, bounds>>

-----------------------------------------------------------------------------
(* Faults.                                                                 *)

Fault == faults < MaxFaults /\ faults' = faults + 1 /\ UNCHANGED reboots

MonitorFails(r) ==
    /\ monitor[r].phase \in {"read", "submit", "finish"}
    /\ Fault
    /\ Phase(r, "failing")
    /\ UNCHANGED <<durable, gate, strikes, external>>

(* The Craft was asked for a helper and ends before it starts one.         *)
RequestLost(r) ==
    /\ native[r].helper = "requested"
    /\ Fault
    /\ native' = [native EXCEPT ![r].helper = "none"]
    /\ UNCHANGED <<durable, volatile, spool, delivered, hits, told>>

HelperDies(r) ==
    /\ native[r].helper = "alive"
    /\ Fault
    /\ Dies(r)
    /\ monitor' = [monitor EXCEPT ![r] =
          IF @.phase = "none" THEN @ ELSE [phase |-> "failing", turn |-> NoTurn]]
    /\ UNCHANGED <<durable, gate, strikes, delivered, hits, told>>

Forgotten ==
    /\ gate' = Free
    /\ monitor' = [r \in Runs |-> NoMonitor]
    /\ strikes' = [r \in Runs |-> 0]

(* jetd ends between any two steps.                                        *)
Crash ==
    /\ Fault
    /\ Forgotten
    /\ UNCHANGED <<durable, external>>

(* The operating system restarts: no process is left, and every plan that  *)
(* was committed names the boot before.                                    *)
Reboot ==
    /\ reboots < MaxReboots /\ reboots' = reboots + 1
    /\ Forgotten
    /\ native' = [r \in Runs |->
          [native[r] EXCEPT !.helper = CASE @ = "alive" -> "dead" [] @ = "requested" -> "none"
                                         [] OTHER -> @,
                            !.working = NoTurn, !.exited = TRUE, !.cancelling = FALSE,
                            !.stale = run[r].life # "none"]]
    /\ spool' = [r \in Runs |-> <<>>]
    /\ UNCHANGED <<durable, delivered, hits, told, faults>>

-----------------------------------------------------------------------------
(* The steps of a launch or a control under way, and all of them.          *)
LaunchGoesOn(r) == LaunchRefused(r) \/ LaunchSends(r) \/ LaunchReturns(r) \/ LaunchUnknown(r)
Launch(r) == LaunchBegins(r) \/ LaunchGoesOn(r) \/ LaunchReconciles(r)

Monitor(r) ==
    \/ CommitGroup(r) \/ CommitBoundary(r) \/ CommitRefused(r) \/ DispatchTurn(r)
    \/ SubmitTurn(r) \/ MonitorFinishes(r) \/ MonitorSettles(r)

Recover(r) ==
    RecoverLost(r) \/ RecoverUnsafe(r) \/ RecoverConnects(r) \/ RecoverUnavailable(r)

Resolve(r) == ResolveAdopt(r) \/ ResolveTerminate(r)

ControlGoesOn(c) ==
    ControlNative(c) \/ ControlSignals(c) \/ ControlSettles(c) \/ ControlUnknown(c)
Control(c) ==
    ControlBegins(c) \/ ControlGoesOn(c) \/ ControlNativeFails(c) \/ ControlReconciles(c)

Harness(r) == HelperStarts(r) \/ HarnessCompletes(r) \/ HarnessInterrupted(r) \/ HarnessEnds(r)

Next ==
    \/ \E t \in Turns : admit(t) \/ Withdraw(t)
    \/ \E r \in Runs, t \in Turns : StartRun(r, t)
    \/ \E c \in Controls, r \in Runs, kind \in {"interrupt", "stop"} : RecordControl(c, r, kind)
    \/ \E r \in Runs :
          \/ prepare_queued_run(r) \/ Launch(r) \/ Monitor(r) \/ Recover(r) \/ Resolve(r)
          \/ ResolveSettles(r) \/ Harness(r) \/ MonitorFails(r) \/ RequestLost(r) \/ HelperDies(r)
    \/ \E c \in Controls : Control(c)
    \/ Crash \/ Reboot

(* The tasks of jetd keep running, whoever waits for the gate gets it (the *)
(* mutex is first come, first served) and each wait under it is bounded.   *)
(* Maintenance looks at the Runs that have not ended again and again.      *)
(* Nothing but a notification or a Command makes jetd look at its launch   *)
(* and control Effects, so neither is fair.  A Harness works on what it    *)
(* was given.                                                              *)
Fairness ==
    /\ \A r \in Runs :
          /\ WF_vars(HelperStarts(r) \/ HarnessCompletes(r))
          /\ WF_vars(LaunchGoesOn(r))
          /\ WF_vars(Monitor(r)) /\ SF_vars(MonitorSettles(r))
          /\ SF_vars(Live(r) /\ (RecoverLost(r) \/ RecoverUnsafe(r) \/ RecoverConnects(r)))
          /\ WF_vars(ResolveSettles(r))
    /\ \A c \in Controls : WF_vars(ControlGoesOn(c))

Spec == Init /\ [][Next]_vars
FairSpec == Spec /\ Fairness

-----------------------------------------------------------------------------
(* Properties.                                                             *)

MaybeTurn == Turns \union {NoTurn}
Requests ==
    {NoRequest} \union [control : {"interrupt"}, turn : Turns]
                \union [control : {"stop"}, turn : MaybeTurn]
RunRows ==
    [life : Terminal \union {"none", "starting", "active", "stopping"}, turn : MaybeTurn,
     disconnected : BOOLEAN, boundary : BOOLEAN, partial : BOOLEAN, request : Requests]
Observations ==
    [kind : {"started", "launch_failed", "turn_completed", "interrupted",
             "ended_well", "ended_badly"}, turn : MaybeTurn]
Helpers ==
    [helper : {"none", "requested", "alive", "finished", "dead"}, working : MaybeTurn,
     exited : BOOLEAN, cancelling : BOOLEAN, stale : BOOLEAN]
Monitors == [phase : {"none", "read", "submit", "finish", "failing"}, turn : MaybeTurn]
Gates ==
    {Free} \union [task : {"launch", "resolve"}, run : Runs, control : {NoControl},
                   request : {NoRequest}, step : 0..1]
           \union [task : {"control"}, run : Runs, control : Controls, request : Requests,
                   step : 0..3]
Effects ==
    {[run |-> NoRun, state |-> "none"]} \union
    [run : Runs, state : {"pending", "in_flight", "completed", "outcome_unknown"}]

TypeOK ==
    /\ queue \in Seq(Entry) /\ status \in [Turns -> Statuses]
    /\ run \in [Runs -> RunRows] /\ last \in Runs \union {NoRun}
    /\ start \in [Runs -> {"none", "pending", "in_flight", "completed", "failed",
                           "outcome_unknown"}]
    /\ control \in [Controls -> Effects] /\ orphans \subseteq Runs
    /\ gate \in Gates /\ monitor \in [Runs -> Monitors]
    /\ strikes \in [Runs -> 0..MaxStrikes]
    /\ native \in [Runs -> Helpers] /\ spool \in [Runs -> Seq(Observations)]
    /\ delivered \in [Turns -> Nat] /\ hits \subseteq (Turns \X Turns)
    /\ told \in [Runs -> BOOLEAN]
    /\ faults \in 0..MaxFaults /\ reboots \in 0..MaxReboots

(* A Turn reaches a Harness at most once, and only under a durable claim,  *)
(* whatever is lost between the claim, the delivery and its outcome.       *)
DeliveredOnce ==
    \A t \in Turns : delivered[t] > 0 =>
        delivered[t] = 1 /\ status[t] \notin {"absent", "queued", "withdrawn", "superseded"}

(* The Conversation has one live Run, and no claim outlives its Run: a Run *)
(* that has ended never holds the queue.                                   *)
OneOwner ==
    /\ \A r, s \in Runs : Live(r) /\ Live(s) => r = s
    /\ \A i \in DOMAIN queue : queue[i].state \in Claims =>
          i = 1 /\ queue[i].run # NoRun /\ Live(queue[i].run)

(* What a Harness is working on is still claimed by its Run, until the Run *)
(* is over: no Turn is settled while it is being worked on.                *)
WorkIsClaimed ==
    \A r \in Runs : Works(r) /\ native[r].working # NoTurn /\ Live(r) =>
        \E i \in Owned(queue, r) : queue[i].turn = native[r].working

(* A Run is lost only when its execution is proven dead, so that the next  *)
(* Run of the Conversation never works beside it.                          *)
LostIsDead ==
    \A r \in Runs : run[r].life = "lost" => native[r].helper \notin {"requested", "alive"}

(* A Run that has ended stays as it ended.                                 *)
EndIsFinal ==
    [][\A r \in Runs : is_terminal(run[r].life) => run'[r].life = run[r].life]_vars

(* An interruption reaches only the Turn it names ("keeps a cancellation   *)
(* from ever reaching work admitted afterwards").                          *)
NamedOnly == \A hit \in hits : hit[1] = hit[2]

(* A Run that was asked to stop and ends, ends canceled "whatever status   *)
(* the OS reported", or is lost.                                           *)
StopEndsCanceled ==
    [][\A r \in Runs : run[r].life = "stopping" =>
          run'[r].life \in {"stopping", "canceled", "lost"}]_vars

(* A Turn that reached a Harness gets its outcome, unless its Run is left  *)
(* to the user as an orphan: no crash, lost connection or death strands it.*)
DeliveredSettles ==
    \A t \in Turns : (status[t] \in Claims /\ delivered[t] > 0) ~>
        (status[t] \notin Claims \/ orphans # {})

(* The gate of the Effects is given back.  A ladder of signals waits under *)
(* it for the end of the Run, which a monitor commits, and a monitor that  *)
(* failed waits for the gate: the bounds of the waits (run/effect.rs:86,   *)
(* run/execution_control_effect.rs:19-23) are what ends this.              *)
GateIsReleased == gate # Free ~> gate = Free

(* What a queue is to a client: behind the Turn that owns execution, the   *)
(* others wait.                                                            *)
Owners(q) == {i \in DOMAIN q : q[i].state \in Claims}
Ahead(q) == IF Owners(q) = {} THEN 0 ELSE 1
Waiting(q) == [n \in 1..(Len(q) - Ahead(q)) |-> q[n + Ahead(q)].turn]
Owner(q) == IF Owners(q) = {} THEN NoTurn ELSE q[Min(Owners(q))].turn
Promise == INSTANCE TurnLifecycle WITH waiting <- Waiting(queue), owner <- Owner(queue)

(* The queue and its journal implement what clients are promised of their  *)
(* Turns (turn/queue.rs, turn/dispatch.rs).                                *)
TurnsKeepPromise == Promise!Spec
=============================================================================
