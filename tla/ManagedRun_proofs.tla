-------------------------- MODULE ManagedRun_proofs --------------------------
(***************************************************************************)
(* Proofs about ManagedRun, for every set of Turns, Runs and control       *)
(* requests, every bound and every number of faults.                       *)
(*                                                                         *)
(* The invariant is built in layers.  The queue agrees with the journal    *)
(* (QueueOK), one Run is live and it alone holds a claim (OwnerInv).       *)
(* LaunchInv relates the launch Effect of a Run, the gate and the helper.  *)
(* DeliveryInv keeps the Turns of distinct deliveries apart.  WorkInv says *)
(* who answers for the claim of a live Run: the launch that has not begun  *)
(* it, the monitor that submits it, the Harness that works on it, or the   *)
(* observation of its end that is not committed.  DeathInv keeps a lost    *)
(* Run dead.  The last section shows that ManagedRun implements            *)
(* TurnLifecycle.  Nothing depends on which Craft is pinned.               *)
(***************************************************************************)
EXTENDS ManagedRun, TurnQueue_proofs

Created(r) == run[r].life /= "none"

(* No claim outlives its Run.                                              *)
OwnerInv ==
    /\ \A r, s \in Runs : Live(r) /\ Live(s) => r = s
    /\ \A r \in Runs : \A u : Holds(queue, r, u) => Live(r)

CoreInv == TypeOK /\ QueueOK(queue, status) /\ OwnerInv

LaunchOK(r) ==
    /\ run[r].life = "none" <=> start[r] = "none"
    /\ start[r] \in {"none", "pending"} => native[r].helper = "none"
    /\ Launching(r) => start[r] = "in_flight" /\ (gate.step = 0 => native[r].helper = "none")
    /\ monitor[r].phase /= "none" => native[r].helper \in {"alive", "dead", "finished"}
    /\ native[r].helper \in {"none", "requested"} => spool[r] = <<>> /\ ~native[r].cancelling
    /\ native[r].cancelling => native[r].working /= NoTurn

LaunchInv == \A r \in Runs : LaunchOK(r)

(* The Turn of Run r has not reached its Harness.                          *)
Unlaunched(r) ==
    start[r] = "pending" \/ (Launching(r) /\ gate.step = 0) \/ native[r].helper = "requested"

Submits(r) == monitor[r].phase = "submit"

DeliveryInv ==
    /\ \A t \in Turns : delivered[t] > 0 => delivered[t] = 1 /\ Begun(status, t)
    /\ \A r \in Runs : Created(r) => run[r].turn \in Turns /\ Begun(status, run[r].turn)
    /\ \A r, s \in Runs : Created(r) /\ Created(s) /\ run[r].turn = run[s].turn => r = s
    /\ \A r \in Runs : Unlaunched(r) => delivered[run[r].turn] = 0
    /\ \A r \in Runs : Submits(r) =>
          /\ monitor[r].turn \in Turns /\ Begun(status, monitor[r].turn)
          /\ delivered[monitor[r].turn] = 0
          /\ \A s \in Runs : Created(s) => run[s].turn /= monitor[r].turn
          /\ \A s \in Runs : Submits(s) /\ monitor[s].turn = monitor[r].turn => s = r

Busy(r) == Works(r) /\ native[r].working /= NoTurn

(* Observations of the end of a Turn that are not committed.               *)
Ends(r) ==
    {k \in DOMAIN spool[r] : /\ run[r].partial => k /= 1
                             /\ spool[r][k].kind \in {"turn_completed", "interrupted"}}

WorkOK(r) ==
    /\ Unlaunched(r) => Holds(queue, r, run[r].turn)
    /\ Busy(r) => Holds(queue, r, native[r].working)
    /\ Submits(r) => Holds(queue, r, monitor[r].turn) /\ ~Busy(r)
    /\ \A k \in Ends(r) : Holds(queue, r, spool[r][k].turn) /\ ~Busy(r) /\ ~Submits(r)
    /\ \A k, m \in Ends(r) : k = m

WorkInv == \A r \in Runs : Live(r) => WorkOK(r)

(* Without a restart of the operating system.                              *)
DeathInv ==
    \A r \in Runs : ~native[r].stale
        /\ (run[r].life = "lost" => native[r].helper \in {"dead", "finished"})

-----------------------------------------------------------------------------
(* What the transactions do to the queue, the journal and the Runs.        *)

(* What may be observed of a Run, by its helper and by its supervisor.     *)
Seen ==
    Observations \union [kind : {"completed_interrupted"}, turn : MaybeTurn]
                 \union [kind : {"lost", "reconnected", "disconnected"}, turn : {NoTurn}]

SeenKinds == {"started", "launch_failed", "turn_completed", "completed_interrupted", "interrupted",
              "ended_well", "ended_badly", "lost", "reconnected", "disconnected"}

(* The ends of a Turn, as its Craft tells of them.                         *)
EndKinds == {"turn_completed", "completed_interrupted", "interrupted"}

(* The journal goes on: what has begun has begun.                          *)
Advance ==
    /\ QueueOK(queue', status') /\ status' \in [Turns -> Statuses]
    /\ \A u \in Turns : Begun(status, u) => Begun(status', u)

LEMMA ApplyTyped ==
    ASSUME TypeOK, NEW r \in Runs, NEW obs \in Seen
    PROVE  apply(r, obs) \in RunRows
<1>1. PICK s \in RunRows : s = run[r]
      BY DEF TypeOK
<1>2. NoRequest \in Requests
      BY DEF Requests
<1>3. /\ [s EXCEPT !.life = "active"] \in RunRows
      /\ [s EXCEPT !.life = "failed"] \in RunRows
      /\ [s EXCEPT !.request = NoRequest] \in RunRows
      /\ [s EXCEPT !.disconnected = FALSE] \in RunRows
      /\ [s EXCEPT !.partial = FALSE] \in RunRows
      BY <1>2 DEF RunRows, Terminal
<1>4. [s EXCEPT !.life = "lost", !.partial = FALSE, !.disconnected = FALSE] \in RunRows
      BY DEF RunRows, Terminal
<1>5. [s EXCEPT !.life = IF s.request # NoRequest THEN "canceled"
                         ELSE IF obs.kind = "ended_well" THEN "completed" ELSE "failed"] \in RunRows
      BY DEF RunRows, Terminal
<1>6. [s EXCEPT !.disconnected = IF executing(s.life) THEN TRUE ELSE @] \in RunRows
      BY DEF RunRows
<1>7. Lost(s) \in RunRows
      BY <1>3, <1>4 DEF Lost
<1> QED BY <1>1, <1>3, <1>5, <1>6, <1>7 DEF apply

LEMMA ApplyFields ==
    ASSUME TypeOK, NEW r \in Runs, NEW obs \in Seen, Accepts(r, obs), Created(r)
    PROVE  /\ apply(r, obs).turn = run[r].turn /\ apply(r, obs).life /= "none"
           /\ is_terminal(run[r].life) => apply(r, obs).life = run[r].life
           /\ apply(r, obs).life = "lost" => run[r].life = "lost" \/ obs.kind = "lost"
           /\ obs.kind \in Failures => is_terminal(apply(r, obs).life)
           /\ is_terminal(apply(r, obs).life) => is_terminal(run[r].life) \/ obs.kind \in Failures
           /\ apply(r, obs).request \in {run[r].request, NoRequest}
           /\ obs.kind /= "lost" => apply(r, obs).partial = run[r].partial
<1>1. PICK s \in RunRows : s = run[r]
      BY DEF TypeOK
<1>2. PICK a : a = apply(r, obs)
      OBVIOUS
<1>3. s.life /= "none"
      BY <1>1 DEF Created
<1>4. obs.kind \in SeenKinds
      BY DEF Seen, SeenKinds, Observations
<1> DEFINE Goal == /\ a.turn = s.turn /\ a.life /= "none"
                   /\ is_terminal(s.life) => a.life = s.life
                   /\ a.life = "lost" => s.life = "lost" \/ obs.kind = "lost"
                   /\ obs.kind \in Failures => is_terminal(a.life)
                   /\ is_terminal(a.life) => is_terminal(s.life) \/ obs.kind \in Failures
                   /\ a.request \in {s.request, NoRequest}
                   /\ obs.kind /= "lost" => a.partial = s.partial
<1> SUFFICES Goal
    BY <1>1, <1>2
<1>5. CASE obs.kind = "started"
  <2>1. a = [s EXCEPT !.life = "active"] /\ s.life = "starting"
        BY <1>1, <1>2, <1>5 DEF apply, Accepts, Interrupts, Completing
  <2> QED BY <1>3, <1>5, <2>1 DEF RunRows, is_terminal, Terminal, Failures
<1>6. CASE obs.kind = "launch_failed"
  <2>1. a = [s EXCEPT !.life = "failed"] /\ s.life = "starting"
        BY <1>1, <1>2, <1>6 DEF apply, Accepts, Interrupts, Completing
  <2> QED BY <1>3, <1>6, <2>1 DEF RunRows, is_terminal, Terminal, Failures
<1>8. CASE obs.kind \in EndKinds
  <2>1. a \in {s, [s EXCEPT !.request = NoRequest]}
        BY <1>1, <1>2, <1>8 DEF apply, Interrupts, EndKinds
  <2> QED BY <1>3, <1>8, <2>1 DEF EndKinds, RunRows, is_terminal, Terminal, Failures
<1>9. CASE obs.kind \in {"ended_well", "ended_badly"}
  <2>1. PICK end \in Terminal \ {"lost"} : a = [s EXCEPT !.life = end]
        BY <1>1, <1>2, <1>9 DEF apply, Interrupts, Terminal
  <2>2. executing(s.life)
        BY <1>1, <1>9 DEF Accepts
  <2> QED BY <1>3, <1>9, <2>1, <2>2 DEF RunRows, is_terminal, Terminal, Failures, executing
<1>10. CASE obs.kind = "lost"
  <2>1. a = Lost(s)
        BY <1>1, <1>2, <1>10 DEF apply, Interrupts
  <2>2. CASE is_terminal(s.life)
    <3>1. a = [s EXCEPT !.partial = FALSE]
          BY <2>1, <2>2 DEF Lost
    <3> QED BY <1>3, <1>10, <2>2, <3>1 DEF RunRows, is_terminal, Terminal, Failures
  <2>3. CASE ~is_terminal(s.life)
    <3>1. a = [s EXCEPT !.life = "lost", !.partial = FALSE, !.disconnected = FALSE]
          BY <2>1, <2>3 DEF Lost
    <3>2. a.turn = s.turn /\ a.life = "lost" /\ a.request = s.request
          BY <3>1 DEF RunRows
    <3> QED BY <1>10, <2>3, <3>2 DEF is_terminal, Terminal, Failures
  <2> QED BY <2>2, <2>3
<1>11. CASE obs.kind \in {"reconnected", "disconnected"}
  <2>1. PICK b : a = [s EXCEPT !.disconnected = b]
        BY <1>1, <1>2, <1>11 DEF apply, Interrupts
  <2> QED BY <1>3, <1>11, <2>1 DEF RunRows, is_terminal, Terminal, Failures
<1> QED BY <1>4, <1>5, <1>6, <1>8, <1>9, <1>10, <1>11 DEF SeenKinds, EndKinds

LEMMA SettleStep ==
    ASSUME TypeOK, QueueOK(queue, status), NEW r \in Runs,
           NEW state \in {"none", "completed", "failed", "canceled", "outcome_unknown"},
           Settle(r, state)
    PROVE  /\ Advance
           /\ \A s \in Runs : \A u : Holds(queue', s, u) => Holds(queue, s, u)
           /\ \A s \in Runs : \A u : Holds(queue, s, u) /\ s /= r => Holds(queue', s, u)
           /\ state \in {"none", "outcome_unknown"} =>
                \A u : Holds(queue, r, u) => Holds(queue', r, u)
           /\ state \notin {"none", "outcome_unknown"} => \A u : ~Holds(queue', r, u)
           /\ \A u \in Turns : status'[u] /= status[u] => status'[u] = state /\ Holds(queue, r, u)
<1>1. status \in [Turns -> Statuses]
      BY DEF TypeOK
<1>2. CASE state = "none" \/ Owned(queue, r) = {}
  <2>1. queue' = queue /\ status' = status
        BY <1>2 DEF Settle
  <2>2. Owned(queue, r) = {} => \A u : ~Holds(queue, r, u)
        BY DEF Holds
  <2>3. \A u : Holds(queue', r, u) <=> Holds(queue, r, u)
        BY <2>1
  <2> QED BY <1>1, <1>2, <2>1, <2>2, <2>3 DEF Advance
<1>3. CASE state /= "none" /\ Owned(queue, r) /= {}
  <2> DEFINE t == queue[1].turn
  <2>1. state \in {"completed", "failed", "canceled", "outcome_unknown"}
        BY <1>3
  <2>2. /\ Min(Owned(queue, r)) = 1 /\ t \in Turns /\ Holds(queue, r, t)
        /\ QueueOK(settle(queue, 1, state), Said(status, t, state))
        /\ \A p \in Runs : \A u : Holds(settle(queue, 1, state), p, u)
              <=> Holds(queue, p, u) /\ state = "outcome_unknown"
        /\ \A u \in Turns : Begun(status, u) => Begun(Said(status, t, state), u)
        BY <1>1, <1>3, <2>1, SettleHolds
  <2>3. status[t] \in Claims /\ queue[1].state = status[t]
        BY <1>1, <2>2, HoldsFirst DEF QueueOK
  <2>4. \A p \in Runs : \A u : Holds(queue, p, u) => p = r
        BY <1>1, <2>2, HoldsOne
  <2> HIDE DEF t
  <2>5. CASE queue[1].state = state
    <3>1. queue' = queue /\ status' = status
          BY <1>3, <2>2, <2>5 DEF Settle
    <3>2. state \in {"none", "outcome_unknown"}
          BY <2>1, <2>3, <2>5 DEF Claims
    <3> QED BY <1>1, <2>1, <3>1, <3>2 DEF Advance
  <2>6. CASE queue[1].state /= state
    <3>1. queue' = settle(queue, 1, state) /\ status' = Said(status, t, state)
          BY <1>3, <2>2, <2>6 DEF Settle, Said, t
    <3>2. /\ status' \in [Turns -> Statuses] /\ status'[t] = state
          /\ \A u \in Turns : u /= t => status'[u] = status[u]
          BY <1>1, <2>1, <2>2, <3>1 DEF Said, Statuses
    <3>3. Advance
          BY <2>2, <3>1, <3>2 DEF Advance
    <3>4. \A p \in Runs : \A u : Holds(queue', p, u) <=> Holds(queue, p, u) /\ state = "outcome_unknown"
          BY <2>2, <3>1
    <3> QED BY <2>1, <2>2, <2>4, <3>2, <3>3, <3>4
  <2> QED BY <2>5, <2>6
<1> QED BY <1>2, <1>3

LEMMA SettlementValue ==
    ASSUME NEW r \in Runs, NEW obs \in Seen
    PROVE  /\ Settlement(r, obs) \in {"none", "completed", "failed", "canceled", "outcome_unknown"}
           /\ obs.kind \in Failures => Settlement(r, obs) = "failed"
           /\ obs.kind \in {"started", "reconnected", "disconnected"} =>
                Settlement(r, obs) \in {"none", "outcome_unknown"}
<1>1. obs.kind \in SeenKinds
      BY DEF Seen, SeenKinds, Observations
<1> QED BY <1>1 DEF Settlement, Failures, Interrupts, Completing, SeenKinds

(* A committed observation: Run r may end, and its claim is settled first. *)
Recorded(r, kind, boundary) ==
    /\ run' \in [Runs -> RunRows] /\ \A s \in Runs : s /= r => run'[s] = run[s]
    /\ run'[r].turn = run[r].turn /\ run'[r].life /= "none"
    /\ is_terminal(run[r].life) => run'[r].life = run[r].life
    /\ run'[r].life = "lost" => run[r].life = "lost" \/ kind = "lost"
    /\ run'[r].request \in {run[r].request, NoRequest}
    /\ boundary = "none" /\ kind /= "lost" => run'[r].partial = run[r].partial
    /\ boundary = "pending" => run'[r].partial
    /\ Advance
    /\ OwnerInv'
    /\ \A s \in Runs : Live(s)' => Live(s)
    /\ kind \in Failures => ~Live(r)'
    /\ \A s \in Runs : \A u : Holds(queue', s, u) => Holds(queue, s, u)
    /\ \A s \in Runs : \A u : Holds(queue, s, u) /\ s /= r => Holds(queue', s, u)
    /\ Live(r)' /\ kind \notin EndKinds =>
          \A u : Holds(queue, r, u) => Holds(queue', r, u)

LEMMA RecordStep ==
    ASSUME CoreInv, NEW r \in Runs, Created(r), NEW obs \in Seen,
           NEW boundary \in {"none", "pending", "complete"}, record(r, obs, boundary)
    PROVE  Recorded(r, obs.kind, boundary)
<1>1. TypeOK /\ QueueOK(queue, status) /\ OwnerInv /\ run \in [Runs -> RunRows]
      BY DEF CoreInv, TypeOK
<1>2. Accepts(r, obs) /\ run' = [run EXCEPT ![r] = AtSource(apply(r, obs), boundary)]
      /\ Settle(r, Settlement(r, obs))
      BY DEF record
<1>3. PICK a \in RunRows : a = apply(r, obs)
      BY <1>1, ApplyTyped
<1>4. PICK b \in RunRows : /\ b = AtSource(a, boundary)
                           /\ b.life = a.life /\ b.turn = a.turn /\ b.request = a.request
                           /\ boundary = "none" => b.partial = a.partial
                           /\ boundary = "pending" => b.partial
  <2>1. CASE boundary = "none"
        BY <2>1 DEF AtSource
  <2>2. CASE boundary = "pending"
    <3>1. AtSource(a, boundary) = [a EXCEPT !.partial = TRUE]
          BY <2>2 DEF AtSource
    <3> QED BY <2>2, <3>1 DEF RunRows
  <2>3. CASE boundary = "complete"
    <3>1. AtSource(a, boundary) = [a EXCEPT !.boundary = TRUE, !.partial = FALSE]
          BY <2>3 DEF AtSource
    <3>2. PICK c : c = [a EXCEPT !.boundary = TRUE]
          OBVIOUS
    <3>3. c \in RunRows /\ c.life = a.life /\ c.turn = a.turn /\ c.request = a.request
          BY <3>2 DEF RunRows
    <3>4. PICK d : d = [c EXCEPT !.partial = FALSE]
          OBVIOUS
    <3>5. d \in RunRows /\ d.life = c.life /\ d.turn = c.turn /\ d.request = c.request
          BY <3>3, <3>4 DEF RunRows
    <3>6. d = AtSource(a, boundary)
          BY <3>1, <3>2, <3>4
    <3> QED BY <2>3, <3>3, <3>5, <3>6
  <2> QED BY <2>1, <2>2, <2>3
<1>5. run' = [run EXCEPT ![r] = b]
      BY <1>2, <1>3, <1>4
<1>6. run' \in [Runs -> RunRows] /\ run'[r] = b /\ \A s \in Runs : s /= r => run'[s] = run[s]
      BY <1>1, <1>5
<1>7. /\ a.turn = run[r].turn /\ a.life /= "none"
      /\ is_terminal(run[r].life) => a.life = run[r].life
      /\ a.life = "lost" => run[r].life = "lost" \/ obs.kind = "lost"
      /\ obs.kind \in Failures => is_terminal(a.life)
      /\ is_terminal(a.life) => is_terminal(run[r].life) \/ obs.kind \in Failures
      /\ a.request \in {run[r].request, NoRequest}
      /\ obs.kind /= "lost" => a.partial = run[r].partial
      BY <1>1, <1>2, <1>3, ApplyFields
<1>8. PICK state \in {"none", "completed", "failed", "canceled", "outcome_unknown"} :
        /\ state = Settlement(r, obs)
        /\ obs.kind \in Failures => state = "failed"
        /\ obs.kind \in {"started", "reconnected", "disconnected"} => state \in {"none", "outcome_unknown"}
      BY SettlementValue
<1>9. /\ Advance
      /\ \A s \in Runs : \A u : Holds(queue', s, u) => Holds(queue, s, u)
      /\ \A s \in Runs : \A u : Holds(queue, s, u) /\ s /= r => Holds(queue', s, u)
      /\ state \in {"none", "outcome_unknown"} => \A u : Holds(queue, r, u) => Holds(queue', r, u)
      /\ state \notin {"none", "outcome_unknown"} => \A u : ~Holds(queue', r, u)
      /\ \A u \in Turns : status'[u] /= status[u] => status'[u] = state /\ Holds(queue, r, u)
      BY <1>1, <1>2, <1>8, SettleStep
<1>10. \A s \in Runs : Live(s)' => Live(s)
  <2>1. \A s \in Runs : s /= r => (Live(s)' <=> Live(s))
        BY <1>6 DEF Live
  <2>2. Live(r)' => Live(r)
        BY <1>4, <1>6, <1>7 DEF Live, is_terminal, Created
  <2> QED BY <2>1, <2>2
<1>11. OwnerInv'
  <2>1. \A s, p \in Runs : Live(s)' /\ Live(p)' => s = p
        BY <1>1, <1>10 DEF OwnerInv
  <2>2. ASSUME NEW s \in Runs, NEW u, Holds(queue', s, u)
        PROVE  Live(s)'
    <3>1. Live(s)
          BY <1>1, <1>9, <2>2 DEF OwnerInv
    <3>2. CASE s /= r
          BY <1>6, <3>1, <3>2 DEF Live
    <3>3. CASE s = r
      <4>1. state \in {"none", "outcome_unknown"}
            BY <1>9, <2>2, <3>3
      <4>2. obs.kind \notin Failures
            BY <1>8, <4>1
      <4>3. ~is_terminal(a.life)
            BY <1>7, <3>1, <3>3, <4>2 DEF Live, is_terminal
      <4> QED BY <1>4, <1>6, <1>7, <3>3, <4>3 DEF Live, is_terminal
    <3> QED BY <3>2, <3>3
  <2> QED BY <2>1, <2>2 DEF OwnerInv
<1>12. ASSUME Live(r)', obs.kind \notin EndKinds
       PROVE  \A u : Holds(queue, r, u) => Holds(queue', r, u)
  <2>1. obs.kind \notin Failures
        BY <1>4, <1>6, <1>7, <1>12 DEF Live, is_terminal
  <2>2. obs.kind \in {"started", "reconnected", "disconnected"}
        BY <1>12, <2>1 DEF Seen, Observations, Failures, EndKinds
  <2> QED BY <1>8, <1>9, <2>2
<1>13. obs.kind \in Failures => ~Live(r)'
       BY <1>4, <1>6, <1>7 DEF Live, is_terminal
<1> QED BY <1>4, <1>6, <1>7, <1>8, <1>9, <1>10, <1>11, <1>12, <1>13 DEF Recorded

(* A supervisor's observation.                                             *)
LEMMA ObserveStep ==
    ASSUME CoreInv, NEW r \in Runs, Created(r),
           NEW kind \in {"launch_failed", "lost", "reconnected", "disconnected"}, observe_run(r, kind)
    PROVE  Recorded(r, kind, "none")
<1>1. Supervisor(kind) \in Seen /\ Supervisor(kind).kind = kind
      BY DEF Supervisor, Observation, Seen, Observations, MaybeTurn
<1>2. record(r, Supervisor(kind), "none")
      BY DEF observe_run
<1> QED BY <1>1, <1>2, RecordStep

(* The admission of t.                                                     *)
LEMMA AdmitStep ==
    ASSUME CoreInv, NEW t \in Turns, status[t] = "absent",
           queue' = prepare(queue, t), status' = Admitted(t)
    PROVE  /\ Advance
           /\ \A r \in Runs : \A u : Holds(queue', r, u) <=> Holds(queue, r, u)
<1>1. QueueOK(queue, status) /\ status \in [Turns -> Statuses]
      BY DEF CoreInv, TypeOK
<1>2. status' = AfterAdmission(queue, status, t)
      BY DEF Admitted, AfterAdmission
<1>3. status' \in [Turns -> Statuses]
      BY <1>1, <1>2 DEF AfterAdmission, DisplacedState, Statuses
<1> QED BY <1>1, <1>2, <1>3, PrepareOK, PrepareHolds DEF Advance

LEMMA WithdrawStep ==
    ASSUME CoreInv, NEW t \in Turns, Withdraw(t)
    PROVE  /\ Advance
           /\ \A r \in Runs : \A u : Holds(queue', r, u) <=> Holds(queue, r, u)
<1>1. QueueOK(queue, status) /\ status \in [Turns -> Statuses]
      BY DEF CoreInv, TypeOK
<1>2. PICK i \in position(queue, t) : queue[i].state = "queued"
      BY DEF Withdraw
<1>3. queue' = withdraw(queue, t) /\ status' = Said(status, t, "withdrawn")
      BY DEF Withdraw, Said
<1>4. status' \in [Turns -> Statuses]
      BY <1>1, <1>3 DEF Said, Statuses
<1> QED BY <1>1, <1>2, <1>3, <1>4, WithdrawOK, WithdrawHolds DEF Advance

(* The claim of the oldest Turn of q for Run r.                            *)
LEMMA ClaimStep ==
    ASSUME NEW s \in [Turns -> Statuses], NEW q, QueueOK(q, s), ready(q), NEW r \in Runs,
           \A u \in Turns : Begun(status, u) => Begun(s, u),
           queue' = claim(q, r), status' = [s EXCEPT ![q[claimed(q)].turn] = "active"]
    PROVE  /\ Advance
           /\ q[claimed(q)].turn \in Turns /\ Begun(status', q[claimed(q)].turn)
           /\ ~Begun(status, q[claimed(q)].turn)
           /\ \A p \in Runs : \A u : Holds(queue', p, u) <=> p = r /\ u = q[claimed(q)].turn
<1>1. status' = Said(s, q[1].turn, "active")
      BY DEF Said, claimed
<1>2. q[1].turn \in Turns /\ QueueOK(queue', status')
  <2>1. q[1].turn \in Turns /\ QueueOK(claim(q, r), Said(s, q[1].turn, "active"))
        BY ClaimOK
  <2> QED BY <1>1, <2>1
<1>3. status' \in [Turns -> Statuses]
      BY <1>1 DEF Said, Statuses
<1>4. /\ \A p \in Runs : \A u : Holds(queue', p, u) <=> p = r /\ u = q[1].turn
      /\ \A u \in Turns : Begun(s, u) => Begun(status', u)
      /\ ~Begun(s, q[1].turn) /\ Begun(status', q[1].turn)
  <2>1. /\ \A p \in Runs : \A u : Holds(claim(q, r), p, u) <=> p = r /\ u = q[1].turn
        /\ \A u \in Turns : Begun(s, u) => Begun(Said(s, q[1].turn, "active"), u)
        /\ ~Begun(s, q[1].turn) /\ Begun(Said(s, q[1].turn, "active"), q[1].turn)
        BY ClaimHolds
  <2> QED BY <1>1, <2>1
<1> QED BY <1>2, <1>3, <1>4 DEF Advance, claimed

-----------------------------------------------------------------------------
(* Types.                                                                  *)

LEMMA AppendTyped ==
    ASSUME TypeOK, NEW r \in Runs, NEW obs \in Observations
    PROVE  [spool EXCEPT ![r] = Append(spool[r], obs)] \in [Runs -> Seq(Observations)]
<1>1. spool[r] \in Seq(Observations)
      BY DEF TypeOK
<1>2. Append(spool[r], obs) \in Seq(Observations)
      BY <1>1, AppendProperties
<1> QED BY <1>2 DEF TypeOK

LEMMA RequestedTurn ==
    ASSUME LaunchInv, DeliveryInv, NEW r \in Runs, native[r].helper = "requested"
    PROVE  Created(r) /\ run[r].turn \in Turns
BY DEF LaunchInv, LaunchOK, DeliveryInv, Created

LEMMA DiesTyped ==
    ASSUME NEW n \in [Runs -> Helpers], NEW r \in Runs, NEW m,
           m = [n EXCEPT ![r].helper = "dead", ![r].working = NoTurn,
                         ![r].exited = TRUE, ![r].cancelling = FALSE]
    PROVE  m \in [Runs -> Helpers]
<1>1. m[r] \in Helpers /\ \A s \in Runs : s /= r => m[s] = n[s]
      BY DEF Helpers, MaybeTurn
<1>2. m = [s \in Runs |-> m[s]]
      OBVIOUS
<1> QED BY <1>1, <1>2

LEMMA EndsTyped ==
    ASSUME NEW n \in [Runs -> Helpers], NEW r \in Runs, NEW m,
           m = [n EXCEPT ![r].working = NoTurn, ![r].cancelling = FALSE, ![r].exited = TRUE]
    PROVE  m \in [Runs -> Helpers]
<1>1. m[r] \in Helpers /\ \A s \in Runs : s /= r => m[s] = n[s]
      BY DEF Helpers, MaybeTurn
<1>2. m = [s \in Runs |-> m[s]]
      OBVIOUS
<1> QED BY <1>1, <1>2

LEMMA FaultTyped ==
    ASSUME TypeOK, Fault
    PROVE  faults' \in 0..MaxFaults /\ reboots' \in 0..MaxReboots
BY RunAssumption DEF TypeOK, Fault

LEMMA LaunchTyped ==
    ASSUME TypeOK, NEW r \in Runs,
           \/ LaunchBegins(r) \/ LaunchSends(r) \/ LaunchReturns(r)
           \/ LaunchUnknown(r) \/ LaunchReconciles(r)
    PROVE  TypeOK'
<1> native \in [Runs -> Helpers] /\ delivered \in [Turns -> Nat] /\ gate \in Gates
    BY DEF TypeOK
<1>1. CASE LaunchBegins(r)
  <2>1. gate' = [task |-> "launch", run |-> r, control |-> NoControl, request |-> NoRequest, step |-> 0]
        BY <1>1 DEF LaunchBegins, Free
  <2>2. gate' \in Gates
        BY <2>1 DEF Gates
  <2> QED BY <1>1, <2>2 DEF TypeOK, LaunchBegins, Start, external, bounds
<1>2. CASE LaunchSends(r)
  <2>1. native' \in [Runs -> Helpers]
        BY <1>2 DEF LaunchSends, Helpers
  <2>2. gate' \in Gates
        BY <1>2 DEF LaunchSends, Launching, Gates, Free
  <2> QED BY <1>2, <2>1, <2>2 DEF TypeOK, LaunchSends, durable, bounds
<1>3. CASE LaunchReturns(r)
  <2>1. monitor' \in [Runs -> Monitors]
        BY <1>3 DEF TypeOK, LaunchReturns, Monitors
  <2> QED BY <1>3, <2>1 DEF TypeOK, LaunchReturns, Start, Gates, external, bounds
<1>4. CASE LaunchUnknown(r)
      BY <1>4 DEF TypeOK, LaunchUnknown, Gates, durable, external, bounds
<1>5. CASE LaunchReconciles(r)
      BY <1>5 DEF TypeOK, LaunchReconciles, Start, volatile, external, bounds
<1> QED BY <1>1, <1>2, <1>3, <1>4, <1>5

LEMMA MonitorTyped ==
    ASSUME TypeOK, DeliveryInv, NEW r \in Runs,
           \/ CommitRefused(r) \/ SubmitTurn(r) \/ MonitorFinishes(r) \/ MonitorFails(r)
    PROVE  TypeOK'
<1> native \in [Runs -> Helpers] /\ delivered \in [Turns -> Nat] /\ gate \in Gates
    BY DEF TypeOK
<1>1. CASE CommitRefused(r)
      BY <1>1 DEF TypeOK, CommitRefused, Phase, Monitors, MaybeTurn, durable, external, bounds
<1>2. CASE SubmitTurn(r)
  <2>1. /\ native' \in [Runs -> Helpers]
        /\ delivered' \in [Turns -> Nat]
    <3>1. CASE native[r].helper = "alive" /\ ~native[r].exited
      <4>1. monitor[r].turn \in Turns
            BY <1>2 DEF SubmitTurn, DeliveryInv, Submits
      <4>2. native' \in [Runs -> Helpers]
            BY <1>2, <3>1, <4>1 DEF SubmitTurn, Deliver, Helpers, MaybeTurn
      <4> QED BY <1>2, <3>1, <4>1, <4>2 DEF TypeOK, SubmitTurn, Deliver
    <3>2. CASE ~(native[r].helper = "alive" /\ ~native[r].exited)
          BY <1>2, <3>2 DEF TypeOK, SubmitTurn, Deliver
    <3> QED BY <3>1, <3>2
  <2>2. monitor' \in [Runs -> Monitors]
        BY <1>2 DEF TypeOK, SubmitTurn, Phase, Monitors, MaybeTurn
  <2> QED BY <1>2, <2>1, <2>2 DEF TypeOK, SubmitTurn, durable, bounds
<1>3. CASE MonitorFinishes(r)
  <2>1. native' \in [Runs -> Helpers]
        BY <1>3 DEF MonitorFinishes, Helpers
  <2>2. monitor' \in [Runs -> Monitors]
        BY <1>3 DEF TypeOK, MonitorFinishes, Phase, Monitors, MaybeTurn
  <2> QED BY <1>3, <2>1, <2>2 DEF TypeOK, MonitorFinishes, durable, bounds
<1>4. CASE MonitorFails(r)
  <2>1. monitor' \in [Runs -> Monitors]
        BY <1>4 DEF TypeOK, MonitorFails, Phase, Monitors, MaybeTurn
  <2> QED BY <1>4, <2>1, FaultTyped DEF TypeOK, MonitorFails, durable, external
<1> QED BY <1>1, <1>2, <1>3, <1>4

LEMMA HarnessTyped ==
    ASSUME TypeOK, LaunchInv, DeliveryInv, NEW r \in Runs,
           \/ HelperStarts(r) \/ HarnessCompletes(r) \/ HarnessInterrupted(r) \/ HarnessEnds(r)
           \/ RequestLost(r) \/ HelperDies(r)
    PROVE  TypeOK'
<1> native \in [Runs -> Helpers] /\ delivered \in [Turns -> Nat] /\ gate \in Gates
    BY DEF TypeOK
<1>1. CASE HelperStarts(r)
  <2>1. CASE native' = [native EXCEPT ![r].helper = "alive", ![r].working = run[r].turn]
             /\ delivered' = [delivered EXCEPT ![run[r].turn] = @ + 1]
             /\ Appends(r, Supervisor("started"))
    <3>1. run[r].turn \in MaybeTurn
          BY DEF TypeOK, RunRows
    <3>2. native' \in [Runs -> Helpers]
      <4>1. native[r] \in Helpers
            OBVIOUS
      <4>2. [native[r] EXCEPT !.helper = "alive", !.working = run[r].turn] \in Helpers
            BY <3>1, <4>1 DEF Helpers
      <4>3. native' = [native EXCEPT ![r] =
                [native[r] EXCEPT !.helper = "alive", !.working = run[r].turn]]
            BY <2>1
      <4> QED BY <4>2, <4>3
    <3>3. delivered' \in [Turns -> Nat]
      <4>1. run[r].turn \in Turns
            BY <1>1, RequestedTurn DEF HelperStarts
      <4> QED BY <2>1, <4>1
    <3>4. spool' \in [Runs -> Seq(Observations)]
          BY <2>1, AppendTyped DEF Appends, Supervisor, Observation, Observations, MaybeTurn
    <3> QED BY <1>1, <3>2, <3>3, <3>4 DEF TypeOK, HelperStarts, durable, volatile, bounds
  <2>2. CASE native' = [native EXCEPT ![r].helper = "alive", ![r].exited = TRUE]
             /\ Appends(r, Supervisor("launch_failed")) /\ UNCHANGED delivered
    <3>1. native' \in [Runs -> Helpers]
          BY <2>2 DEF Helpers
    <3>2. spool' \in [Runs -> Seq(Observations)]
          BY <2>2, AppendTyped DEF Appends, Supervisor, Observation, Observations, MaybeTurn
    <3> QED BY <1>1, <2>2, <3>1, <3>2 DEF TypeOK, HelperStarts, durable, volatile, bounds
  <2> QED BY <1>1, <2>1, <2>2 DEF HelperStarts
<1>2. CASE HarnessCompletes(r)
  <2>1. native' \in [Runs -> Helpers]
    <3>1. native \in [Runs -> Helpers] /\ NoTurn \in MaybeTurn
          BY DEF TypeOK, MaybeTurn
    <3>2. native' = [native EXCEPT ![r].working = NoTurn, ![r].cancelling = FALSE]
          BY <1>2 DEF HarnessCompletes
    <3> QED BY <3>1, <3>2 DEF Helpers
  <2>2. native[r].working \in MaybeTurn
        BY DEF TypeOK, Helpers
  <2>3. spool' \in [Runs -> Seq(Observations)]
        BY <1>2, <2>2, AppendTyped DEF HarnessCompletes, Appends, Observation, Observations
  <2> QED BY <1>2, <2>1, <2>3 DEF TypeOK, HarnessCompletes, durable, volatile, bounds
<1>3. CASE HarnessInterrupted(r)
  <2>1. native' \in [Runs -> Helpers]
        BY <1>3 DEF HarnessInterrupted, Helpers, MaybeTurn
  <2>2. native[r].working \in MaybeTurn
        BY DEF TypeOK, Helpers
  <2>3. spool' \in [Runs -> Seq(Observations)]
        BY <1>3, <2>2, AppendTyped DEF HarnessInterrupted, Appends, Observation, Observations
  <2> QED BY <1>3, <2>1, <2>3 DEF TypeOK, HarnessInterrupted, durable, volatile, bounds
<1>4. CASE HarnessEnds(r)
  <2>1. native' \in [Runs -> Helpers]
        BY <1>4, EndsTyped DEF HarnessEnds
  <2>2. PICK kind \in {"ended_well", "ended_badly"} : Appends(r, Supervisor(kind))
        BY <1>4 DEF HarnessEnds
  <2>3. spool' \in [Runs -> Seq(Observations)]
        BY <2>2, AppendTyped DEF Appends, Supervisor, Observation, Observations, MaybeTurn
  <2> QED BY <1>4, <2>1, <2>3 DEF TypeOK, HarnessEnds, durable, volatile, bounds
<1>5. CASE RequestLost(r)
  <2>1. native' \in [Runs -> Helpers]
        BY <1>5 DEF RequestLost, Helpers
  <2> QED BY <1>5, <2>1, FaultTyped DEF TypeOK, RequestLost, durable, volatile
<1>6. CASE HelperDies(r)
  <2>1. native' \in [Runs -> Helpers]
        BY <1>6, DiesTyped DEF HelperDies, Dies
  <2>2. spool' \in [Runs -> Seq(Observations)]
        BY <1>6 DEF TypeOK, HelperDies, Dies
  <2>3. monitor' \in [Runs -> Monitors]
        BY <1>6 DEF TypeOK, HelperDies, Monitors, MaybeTurn
  <2> QED BY <1>6, <2>1, <2>2, <2>3, FaultTyped DEF TypeOK, HelperDies, durable
<1> QED BY <1>1, <1>2, <1>3, <1>4, <1>5, <1>6

(* Which actions commit an observation.                                    *)
LEMMA RunOfMonitor ==
    ASSUME LaunchInv, NEW r \in Runs,
           monitor[r].phase /= "none" \/ Launching(r) \/ native[r].helper /= "none"
    PROVE  Created(r)
BY DEF LaunchInv, LaunchOK, Created

LEMMA HeadSeen ==
    ASSUME TypeOK, NEW r \in Runs, spool[r] /= <<>>
    PROVE  Head(spool[r]) \in Seen /\ Head(spool[r]) \in Observations
           /\ Tail(spool[r]) \in Seq(Observations)
<1>1. spool[r] \in Seq(Observations)
      BY DEF TypeOK
<1> QED BY <1>1 DEF Seen

(* A Craft may give an end of a Turn another name; it makes no other       *)
(* observation an end, and no end anything else.                           *)
LEMMA HeardSeen ==
    ASSUME TypeOK, NEW r \in Runs, spool[r] /= <<>>
    PROVE  /\ Heard(r) \in Seen /\ Heard(r).kind \in SeenKinds /\ Heard(r).kind /= "lost"
           /\ Heard(r).kind \in EndKinds => Head(spool[r]).kind \in {"turn_completed", "interrupted"}
<1>1. PICK obs \in Observations : obs = Head(spool[r])
      BY HeadSeen
<1>2. CASE obs.kind \in {"turn_completed", "interrupted"} /\ Craft # "fixture"
  <2>1. PICK as \in {"turn_completed", "completed_interrupted"}, t \in MaybeTurn :
             Heard(r) = Observation(as, t)
    <3>1. obs.turn \in MaybeTurn /\ run[r].turn \in MaybeTurn
          BY DEF Observations, TypeOK, RunRows
    <3> QED BY <1>1, <1>2, <3>1 DEF Heard
  <2>2. Observation(as, t) \in [kind : {"turn_completed", "completed_interrupted"}, turn : MaybeTurn]
        /\ Observation(as, t).kind = as
        BY DEF Observation
  <2>3. Observation(as, t) \in Seen
        BY <2>2 DEF Observations, Seen
  <2> QED BY <1>1, <1>2, <2>1, <2>2, <2>3 DEF SeenKinds
<1>3. CASE ~(obs.kind \in {"turn_completed", "interrupted"} /\ Craft # "fixture")
  <2>1. Heard(r) = obs
        BY <1>1, <1>3 DEF Heard
  <2> QED BY <1>1, <2>1 DEF Observations, Seen, SeenKinds, EndKinds
<1> QED BY <1>2, <1>3

LEMMA CommitGroupStep ==
    ASSUME CoreInv, LaunchInv, NEW r \in Runs, CommitGroup(r)
    PROVE  Recorded(r, Heard(r).kind, "pending")
<1>1. Created(r)
      BY RunOfMonitor DEF CommitGroup, Reading
<1>2. Heard(r) \in Seen
      BY HeardSeen DEF CommitGroup, Reading, CoreInv
<1>3. record(r, Heard(r), "pending")
      BY DEF CommitGroup
<1> QED BY <1>1, <1>2, <1>3, RecordStep

LEMMA CommitBoundaryStep ==
    ASSUME CoreInv, LaunchInv, NEW r \in Runs, CommitBoundary(r), ~run[r].partial
    PROVE  Recorded(r, Heard(r).kind, "complete")
<1>1. Created(r)
      BY RunOfMonitor DEF CommitBoundary, Reading
<1>2. Heard(r) \in Seen
      BY HeardSeen DEF CommitBoundary, Reading, CoreInv
<1>3. record(r, Heard(r), "complete")
      BY DEF CommitBoundary
<1> QED BY <1>1, <1>2, <1>3, RecordStep

LEMMA ObservingSteps ==
    ASSUME CoreInv, LaunchInv, NEW r \in Runs
    PROVE  /\ LaunchRefused(r) /\ Accepts(r, Supervisor("launch_failed")) =>
                Recorded(r, "launch_failed", "none")
           /\ MonitorSettles(r) => Recorded(r, "disconnected", "none")
           /\ RecoverLost(r) => Recorded(r, "lost", "none")
           /\ RecoverUnavailable(r) => Recorded(r, "disconnected", "none")
           /\ RecoverConnects(r) \/ ResolveAdopt(r) =>
                \/ native' = [native EXCEPT ![r].helper = "finished"]
                    /\ UNCHANGED <<queue, status, run, monitor>> /\ is_terminal(run[r].life)
                \/ Recorded(r, "reconnected", "none") /\ Phase(r, "read") /\ UNCHANGED native
<1>1. ASSUME LaunchRefused(r), Accepts(r, Supervisor("launch_failed"))
      PROVE  Recorded(r, "launch_failed", "none")
  <2>1. Created(r) /\ observe_run(r, "launch_failed")
        BY <1>1, RunOfMonitor DEF LaunchRefused
  <2> QED BY <2>1, ObserveStep
<1>2. ASSUME MonitorSettles(r)
      PROVE  Recorded(r, "disconnected", "none")
  <2>1. Created(r) /\ observe_run(r, "disconnected")
        BY <1>2, RunOfMonitor DEF MonitorSettles
  <2> QED BY <2>1, ObserveStep
<1>3. ASSUME RecoverLost(r)
      PROVE  Recorded(r, "lost", "none")
  <2>1. Created(r) /\ observe_run(r, "lost")
        BY <1>3 DEF RecoverLost, Recovering, Created
  <2> QED BY <2>1, ObserveStep
<1>4. ASSUME RecoverUnavailable(r)
      PROVE  Recorded(r, "disconnected", "none")
  <2>1. Created(r) /\ observe_run(r, "disconnected")
        BY <1>4 DEF RecoverUnavailable, Recovering, Created
  <2> QED BY <2>1, ObserveStep
<1>5. ASSUME RecoverConnects(r) \/ ResolveAdopt(r)
      PROVE  \/ native' = [native EXCEPT ![r].helper = "finished"]
                 /\ UNCHANGED <<queue, status, run, monitor>> /\ is_terminal(run[r].life)
             \/ Recorded(r, "reconnected", "none") /\ Phase(r, "read") /\ UNCHANGED native
  <2>1. Created(r) /\ Reconnect(r)
        BY <1>5, RunOfMonitor DEF RecoverConnects, ResolveAdopt
  <2> QED BY <2>1, ObserveStep DEF Reconnect
<1> QED BY <1>1, <1>2, <1>3, <1>4, <1>5

LEMMA StrikeTyped ==
    ASSUME TypeOK, NEW r \in Runs, Strike(r)
    PROVE  strikes' \in [Runs -> 0..MaxStrikes] /\ orphans' \subseteq Runs
<1>1. strikes \in [Runs -> 0..MaxStrikes] /\ orphans \subseteq Runs
      BY DEF TypeOK
<1>2. strikes' \in [Runs -> 0..MaxStrikes]
      BY <1>1, RunAssumption DEF Strike
<1> QED BY <1>1, <1>2 DEF Strike

LEMMA PhaseTyped ==
    ASSUME TypeOK, NEW r \in Runs, NEW phase \in {"none", "read", "finish", "failing"}, Phase(r, phase)
    PROVE  monitor' \in [Runs -> Monitors]
BY DEF TypeOK, Phase, Monitors, MaybeTurn

LEMMA RecordedTyped ==
    ASSUME NEW r \in Runs, NEW kind, NEW boundary, Recorded(r, kind, boundary)
    PROVE  queue' \in Seq(Entry) /\ status' \in [Turns -> Statuses] /\ run' \in [Runs -> RunRows]
BY DEF Recorded, Advance, QueueOK

LEMMA CommitsTyped ==
    ASSUME CoreInv, LaunchInv, NEW r \in Runs,
           LaunchRefused(r) \/ CommitGroup(r) \/ CommitBoundary(r) \/ MonitorSettles(r)
    PROVE  TypeOK'
<1> TypeOK
    BY DEF CoreInv
<1>1. CASE LaunchRefused(r)
  <2>1. gate' \in Gates
        BY <1>1 DEF LaunchRefused, Gates
  <2>2. CASE Accepts(r, Supervisor("launch_failed"))
    <3>1. queue' \in Seq(Entry) /\ status' \in [Turns -> Statuses] /\ run' \in [Runs -> RunRows]
          BY <1>1, <2>2, ObservingSteps, RecordedTyped
    <3> QED BY <1>1, <2>1, <2>2, <3>1 DEF TypeOK, LaunchRefused, Start, external, bounds
  <2>3. CASE ~Accepts(r, Supervisor("launch_failed"))
        BY <1>1, <2>1, <2>3 DEF TypeOK, LaunchRefused, external, bounds
  <2> QED BY <2>2, <2>3
<1>2. CASE CommitGroup(r)
  <2>1. queue' \in Seq(Entry) /\ status' \in [Turns -> Statuses] /\ run' \in [Runs -> RunRows]
        BY <1>2, CommitGroupStep, RecordedTyped
  <2> QED BY <1>2, <2>1 DEF TypeOK, CommitGroup, volatile, external, bounds
<1>3. CASE CommitBoundary(r)
  <2>1. queue' \in Seq(Entry) /\ status' \in [Turns -> Statuses] /\ run' \in [Runs -> RunRows]
    <3>1. CASE run[r].partial
      <4>1. queue' = queue /\ status' = status /\ run' = [run EXCEPT ![r] = AtSource(run[r], "complete")]
            BY <1>3, <3>1 DEF CommitBoundary
      <4>2. AtSource(run[r], "complete") \in RunRows
        <5>1. PICK s \in RunRows : s = run[r]
              BY DEF TypeOK
        <5>2. [s EXCEPT !.boundary = TRUE, !.partial = FALSE] \in RunRows
              BY DEF RunRows
        <5> QED BY <5>1, <5>2 DEF AtSource
      <4> QED BY <4>1, <4>2 DEF TypeOK
    <3>2. CASE ~run[r].partial
          BY <1>3, <3>2, CommitBoundaryStep, RecordedTyped
    <3> QED BY <3>1, <3>2
  <2>2. spool' \in [Runs -> Seq(Observations)]
    <3>1. Tail(spool[r]) \in Seq(Observations)
          BY <1>3, HeadSeen DEF CommitBoundary, Reading
    <3> QED BY <1>3, <3>1 DEF TypeOK, CommitBoundary
  <2>3. monitor' \in [Runs -> Monitors]
        BY <1>3, PhaseTyped DEF CommitBoundary
  <2>4. strikes' \in [Runs -> 0..MaxStrikes]
        BY <1>3, RunAssumption DEF TypeOK, CommitBoundary
  <2> QED BY <1>3, <2>1, <2>2, <2>3, <2>4 DEF TypeOK, CommitBoundary, bounds
<1>4. CASE MonitorSettles(r)
  <2>1. queue' \in Seq(Entry) /\ status' \in [Turns -> Statuses] /\ run' \in [Runs -> RunRows]
        BY <1>4, ObservingSteps, RecordedTyped
  <2>2. monitor' \in [Runs -> Monitors]
        BY <1>4, PhaseTyped DEF MonitorSettles
  <2>3. strikes' \in [Runs -> 0..MaxStrikes] /\ orphans' \subseteq Runs
        BY <1>4, StrikeTyped DEF MonitorSettles
  <2> QED BY <1>4, <2>1, <2>2, <2>3 DEF TypeOK, MonitorSettles, external, bounds
<1> QED BY <1>1, <1>2, <1>3, <1>4

LEMMA RecoverTyped ==
    ASSUME CoreInv, LaunchInv, NEW r \in Runs,
           \/ RecoverLost(r) \/ RecoverUnsafe(r) \/ RecoverConnects(r) \/ RecoverUnavailable(r)
           \/ ResolveAdopt(r) \/ ResolveTerminate(r) \/ ResolveSettles(r)
    PROVE  TypeOK'
<1> TypeOK
    BY DEF CoreInv
<1> DEFINE resolving == [task |-> "resolve", run |-> r, control |-> NoControl,
                         request |-> NoRequest, step |-> 0]
<1>1. [Free EXCEPT !.task = "resolve", !.run = r] = resolving /\ resolving \in Gates
  <2>1. PICK g : g = [Free EXCEPT !.task = "resolve", !.run = r]
        OBVIOUS
  <2>2. g = resolving
        BY <2>1 DEF Free
  <2>3. resolving \in Gates
        BY DEF Gates
  <2> QED BY <2>1, <2>2, <2>3
<1> HIDE DEF resolving
<1>2. CASE RecoverLost(r)
  <2>1. queue' \in Seq(Entry) /\ status' \in [Turns -> Statuses] /\ run' \in [Runs -> RunRows]
        BY <1>2, ObservingSteps, RecordedTyped
  <2>2. strikes' \in [Runs -> 0..MaxStrikes] /\ orphans' \subseteq Runs
        BY <1>2, RunAssumption DEF TypeOK, RecoverLost
  <2> QED BY <1>2, <2>1, <2>2 DEF TypeOK, RecoverLost, external, bounds
<1>3. CASE RecoverUnsafe(r)
      BY <1>3 DEF TypeOK, RecoverUnsafe, volatile, external, bounds
<1>4. CASE RecoverUnavailable(r)
  <2>1. queue' \in Seq(Entry) /\ status' \in [Turns -> Statuses] /\ run' \in [Runs -> RunRows]
        BY <1>4, ObservingSteps, RecordedTyped
  <2>2. strikes' \in [Runs -> 0..MaxStrikes] /\ orphans' \subseteq Runs
        BY <1>4, StrikeTyped DEF RecoverUnavailable
  <2>3. faults' \in 0..MaxFaults
        BY <1>4, RunAssumption DEF TypeOK, RecoverUnavailable
  <2> QED BY <1>4, <2>1, <2>2, <2>3 DEF TypeOK, RecoverUnavailable, external
<1>5. CASE RecoverConnects(r) \/ ResolveAdopt(r)
  <2>1. /\ queue' \in Seq(Entry) /\ status' \in [Turns -> Statuses] /\ run' \in [Runs -> RunRows]
        /\ native' \in [Runs -> Helpers] /\ monitor' \in [Runs -> Monitors]
    <3>1. CASE native' = [native EXCEPT ![r].helper = "finished"]
               /\ UNCHANGED <<queue, status, run, monitor>>
      <4>1. native \in [Runs -> Helpers]
            BY DEF TypeOK
      <4>2. native' \in [Runs -> Helpers]
            BY <3>1, <4>1 DEF Helpers
      <4> QED BY <3>1, <4>2 DEF TypeOK
    <3>2. CASE Recorded(r, "reconnected", "none") /\ Phase(r, "read") /\ UNCHANGED native
          BY <3>2, RecordedTyped, PhaseTyped DEF TypeOK
    <3> QED BY <1>5, <3>1, <3>2, ObservingSteps
  <2>4. told' \in [Runs -> BOOLEAN]
        BY <1>5 DEF TypeOK, RecoverConnects, ResolveAdopt, Reconnect
  <2>2. CASE RecoverConnects(r)
        BY <2>1, <2>2, <2>4 DEF TypeOK, RecoverConnects, bounds
  <2>3. CASE ResolveAdopt(r)
    <3>1. strikes' \in [Runs -> 0..MaxStrikes] /\ gate' \in Gates
          BY <1>1, <2>3, RunAssumption DEF TypeOK, ResolveAdopt
    <3> QED BY <2>1, <2>3, <2>4, <3>1 DEF TypeOK, ResolveAdopt, bounds
  <2> QED BY <1>5, <2>2, <2>3
<1>6. CASE ResolveTerminate(r)
  <2>1. native \in [Runs -> Helpers]
        BY DEF TypeOK
  <2>2. native' \in [Runs -> Helpers]
        BY <1>6, <2>1, DiesTyped DEF ResolveTerminate, Dies
  <2>3. gate' \in Gates /\ spool' \in [Runs -> Seq(Observations)]
        BY <1>1, <1>6 DEF TypeOK, ResolveTerminate, Dies
  <2> QED BY <1>6, <2>2, <2>3 DEF TypeOK, ResolveTerminate, durable, bounds
<1>7. CASE ResolveSettles(r)
  <2>1. gate' \in Gates /\ orphans' \subseteq Runs
        BY <1>7 DEF TypeOK, ResolveSettles, Gates
  <2> QED BY <1>7, <2>1 DEF TypeOK, ResolveSettles, external, bounds
<1> QED BY <1>2, <1>3, <1>4, <1>5, <1>6, <1>7

(* The Effect of a control request and the Run it is about.                *)
LEMMA ControlTypes ==
    ASSUME TypeOK, NEW c \in Controls
    PROVE  /\ control[c].state /= "none" => control[c].run \in Runs
           /\ Controlling(c) => /\ gate.run \in Runs /\ gate.request \in Requests
                                /\ gate.step \in 0..3
                                /\ gate = [task |-> "control", run |-> gate.run, control |-> c,
                                           request |-> gate.request, step |-> gate.step]
<1>1. control[c] \in Effects /\ gate \in Gates
      BY DEF TypeOK
<1>2. control[c].state /= "none" => control[c].run \in Runs
      BY <1>1 DEF Effects
<1>3. ASSUME Controlling(c)
      PROVE  /\ gate.run \in Runs /\ gate.request \in Requests /\ gate.step \in 0..3
             /\ gate = [task |-> "control", run |-> gate.run, control |-> c,
                        request |-> gate.request, step |-> gate.step]
      BY <1>1, <1>3 DEF Gates, Free, Controlling
<1> QED BY <1>2, <1>3

LEMMA HitTyped ==
    ASSUME TypeOK, NEW r \in Runs, gate.request \in Requests, Hit(r)
    PROVE  hits' \subseteq (Turns \X Turns)
<1>1. hits \subseteq (Turns \X Turns)
      BY DEF TypeOK
<1>2. native[r].working \in MaybeTurn
      BY DEF TypeOK, Helpers
<1>3. gate.request.control = "interrupt" => gate.request.turn \in Turns
      BY DEF Requests, NoRequest
<1> QED BY <1>1, <1>2, <1>3 DEF Hit, MaybeTurn

LEMMA ForgetTyped ==
    ASSUME TypeOK, NEW r \in Runs, Forget(r)
    PROVE  /\ run' \in [Runs -> RunRows] /\ \A s \in Runs : s /= r => run'[s] = run[s]
           /\ run'[r].life = run[r].life /\ run'[r].turn = run[r].turn
           /\ run'[r].partial = run[r].partial /\ run'[r].request = NoRequest
<1>1. run \in [Runs -> RunRows] /\ NoRequest \in Requests
      BY DEF TypeOK, Requests
<1>2. run' = [run EXCEPT ![r].request = NoRequest]
      BY DEF Forget
<1> QED BY <1>1, <1>2 DEF RunRows

LEMMA EffectTyped ==
    ASSUME TypeOK, NEW c \in Controls, control[c].state /= "none",
           NEW state \in {"completed", "in_flight", "outcome_unknown"}, Effect(c, state)
    PROVE  control' \in [Controls -> Effects]
<1>1. control \in [Controls -> Effects] /\ control[c] \in Effects
      BY DEF TypeOK
<1>2. PICK e \in Runs : control[c].run = e
      BY ControlTypes
<1>3. control[c] \in [run : Runs, state : {"pending", "in_flight", "completed", "outcome_unknown"}]
      BY <1>1 DEF Effects
<1>4. [control[c] EXCEPT !.state = state] \in Effects
      BY <1>3 DEF Effects
<1>5. control' = [control EXCEPT ![c] = [control[c] EXCEPT !.state = state]]
      BY <1>1 DEF Effect
<1> QED BY <1>1, <1>4, <1>5

(* While a control Effect holds the gate, its row is there.                *)
ControlInv == gate.task = "control" => control[gate.control].state /= "none"

LEMMA ControlTyped ==
    ASSUME TypeOK, ControlInv, NEW c \in Controls, Control(c)
    PROVE  TypeOK'
<1>1. gate \in Gates /\ Free \in Gates /\ run \in [Runs -> RunRows]
      BY DEF TypeOK, Gates
<1>2. CASE ControlBegins(c)
  <2> DEFINE r == control[c].run
  <2>1. control[c].state = "pending" /\ r \in Runs
        BY <1>2, ControlTypes DEF ControlBegins
  <2>2. control' \in [Controls -> Effects]
        BY <1>2, <2>1, EffectTyped DEF ControlBegins
  <2>3. run' \in [Runs -> RunRows]
        BY <1>1, <1>2, <2>1, ForgetTyped DEF ControlBegins
  <2>4. gate' \in Gates
    <3>1. CASE gate' = gate
          BY <1>1, <3>1
    <3>2. CASE gate' = [task |-> "control", run |-> r, control |-> c,
                        request |-> run[r].request, step |-> 0]
      <4>1. run[r].request \in Requests
            BY <1>1, <2>1 DEF RunRows
      <4> HIDE DEF r
      <4> QED BY <2>1, <3>2, <4>1 DEF Gates
    <3> QED BY <1>2, <3>1, <3>2 DEF ControlBegins
  <2> QED BY <1>2, <2>2, <2>3, <2>4 DEF TypeOK, ControlBegins, external, bounds
<1>3. ASSUME Controlling(c)
      PROVE  control[c].state /= "none" /\ gate.run \in Runs /\ gate.request \in Requests
      BY <1>3, ControlTypes DEF Controlling, ControlInv
<1>4. CASE ControlNative(c)
  <2>1. gate' = Free /\ Controlling(c) /\ Effect(c, "completed")
        BY <1>4 DEF ControlNative
  <2>2. control' \in [Controls -> Effects]
        BY <1>3, <2>1, EffectTyped
  <2>3. /\ native' \in [Runs -> Helpers] /\ monitor' \in [Runs -> Monitors]
        /\ hits' \subseteq (Turns \X Turns)
    <3>1. CASE ~(Reaches(gate.run) /\ ~Breaks(gate.run))
      <4>1. (Phase(gate.run, "failing") \/ UNCHANGED monitor) /\ UNCHANGED <<native, hits>>
            BY <1>4, <3>1 DEF ControlNative
      <4> QED BY <1>3, <2>1, <4>1, PhaseTyped DEF TypeOK
    <3>2. CASE Reaches(gate.run) /\ ~Breaks(gate.run)
      <4>1. native' = [native EXCEPT ![gate.run].cancelling = native[gate.run].working # NoTurn]
            /\ Hit(gate.run) /\ UNCHANGED monitor /\ Natively(gate.run)
            BY <1>4, <3>2 DEF ControlNative
      <4>2. native \in [Runs -> Helpers] /\ hits \subseteq (Turns \X Turns)
            BY DEF TypeOK
      <4>3. native' \in [Runs -> Helpers]
        <5>1. gate.run \in Runs /\ (native[gate.run].working # NoTurn) \in BOOLEAN
              BY <1>3, <2>1
        <5>2. native[gate.run] \in Helpers
              BY <4>2, <5>1
        <5>3. [native[gate.run] EXCEPT !.cancelling = native[gate.run].working # NoTurn] \in Helpers
              BY <5>1, <5>2 DEF Helpers
        <5> QED BY <4>1, <4>2, <5>1, <5>3
      <4>4. hits' \subseteq (Turns \X Turns)
            BY <1>3, <2>1, <4>1, <4>2, HitTyped
      <4> QED BY <4>1, <4>3, <4>4 DEF TypeOK
    <3> QED BY <3>1, <3>2
  <2> QED BY <1>1, <1>4, <2>1, <2>2, <2>3 DEF TypeOK, ControlNative, bounds
<1>5. CASE ControlNativeFails(c)
  <2>1. gate' = Free /\ Phase(gate.run, "failing") /\ gate.run \in Runs
        BY <1>3, <1>5 DEF ControlNativeFails
  <2>2. monitor' \in [Runs -> Monitors]
        BY <2>1, PhaseTyped
  <2>3. faults' \in 0..MaxFaults
        BY <1>5, RunAssumption DEF TypeOK, ControlNativeFails
  <2> QED BY <1>1, <1>5, <2>1, <2>2, <2>3 DEF TypeOK, ControlNativeFails, durable, external
<1>6. CASE ControlSignals(c)
  <2>1. /\ gate.run \in Runs /\ gate.request \in Requests /\ gate.step \in 0..2
        /\ gate = [task |-> "control", run |-> gate.run, control |-> c,
                   request |-> gate.request, step |-> gate.step]
        BY <1>6, ControlTypes DEF ControlSignals
  <2>2. gate' \in Gates
    <3>1. PICK p \in Runs, q \in Requests, n \in 0..2 :
              gate = [task |-> "control", run |-> p, control |-> c, request |-> q, step |-> n]
          BY <2>1
    <3>2. gate' = [task |-> "control", run |-> p, control |-> c, request |-> q, step |-> n + 1]
          BY <1>6, <3>1 DEF ControlSignals
    <3>3. n + 1 \in 0..3
          OBVIOUS
    <3> QED BY <3>2, <3>3 DEF Gates
  <2>3. hits' \subseteq (Turns \X Turns)
        BY <1>6, <2>1, HitTyped DEF TypeOK, ControlSignals
  <2> QED BY <1>6, <2>2, <2>3 DEF TypeOK, ControlSignals, durable, bounds
<1>7. CASE ControlSettles(c)
  <2>1. gate' = Free /\ Forget(gate.run) /\ Effect(c, "completed") /\ gate.run \in Runs
        /\ control[c].state /= "none"
        BY <1>3, <1>7 DEF ControlSettles
  <2>2. run' \in [Runs -> RunRows] /\ control' \in [Controls -> Effects]
        BY <2>1, ForgetTyped, EffectTyped
  <2> QED BY <1>1, <1>7, <2>1, <2>2 DEF TypeOK, ControlSettles, external, bounds
<1>8. CASE ControlUnknown(c)
      BY <1>1, <1>8 DEF TypeOK, ControlUnknown, durable, external, bounds
<1>9. CASE ControlReconciles(c)
  <2>1. control[c].state = "in_flight" /\ control[c].run \in Runs
        BY <1>9, ControlTypes DEF ControlReconciles
  <2>2. run' \in [Runs -> RunRows] /\ control' \in [Controls -> Effects]
        BY <1>1, <1>9, <2>1, ForgetTyped, EffectTyped DEF ControlReconciles
  <2> QED BY <1>9, <2>2 DEF TypeOK, ControlReconciles, volatile, external, bounds
<1> QED BY <1>2, <1>4, <1>5, <1>6, <1>7, <1>8, <1>9 DEF Control, ControlGoesOn

(* Run r is created for Turn t.                                            *)
Installs(r, t) ==
    /\ Advance /\ ~Begun(status, t) /\ Begun(status', t)
    /\ \A p \in Runs : \A u : Holds(queue', p, u) <=> p = r /\ u = t
    /\ run[r].life = "none" /\ \A p \in Runs : ~Live(p)
    /\ run' \in [Runs -> RunRows] /\ \A s \in Runs : s /= r => run'[s] = run[s]
    /\ run'[r].life = "starting" /\ run'[r].turn = t /\ run'[r].request = NoRequest
    /\ start' = [start EXCEPT ![r] = "pending"] /\ last' = r
    /\ UNCHANGED <<control, orphans, volatile, external, bounds>>

LEMMA InstallStep ==
    ASSUME TypeOK, NEW r \in Runs, NEW q, NEW t \in Turns, q[claimed(q)].turn = t,
           Advance, ~Begun(status, t), Begun(status', t), create_run(r), install(r, q),
           \A p \in Runs : \A u : Holds(queue', p, u) <=> p = r /\ u = t
    PROVE  Installs(r, t)
<1>1. PICK n : n = [NewRun EXCEPT !.life = "starting", !.turn = t]
      OBVIOUS
<1>2. n = [life |-> "starting", turn |-> t, disconnected |-> FALSE, boundary |-> FALSE,
           partial |-> FALSE, request |-> NoRequest]
      BY <1>1 DEF NewRun
<1>3. n \in RunRows /\ n.life = "starting" /\ n.turn = t /\ n.request = NoRequest
      BY <1>2 DEF RunRows, MaybeTurn, Requests
<1>4. run' = [run EXCEPT ![r] = n]
      BY <1>1 DEF install
<1>5. run' \in [Runs -> RunRows] /\ run'[r] = n /\ \A s \in Runs : s /= r => run'[s] = run[s]
      BY <1>3, <1>4 DEF TypeOK
<1> QED BY <1>3, <1>5 DEF Installs, install, create_run

LEMMA StartRunStep ==
    ASSUME CoreInv, NEW r \in Runs, NEW u \in Turns, StartRun(r, u)
    PROVE  \E t \in Turns : Installs(r, t)
<1>1. PICK q : q = prepare(queue, u)
      OBVIOUS
<1>2. PICK s : s = AfterAdmission(queue, status, u)
      OBVIOUS
<1>3. status \in [Turns -> Statuses] /\ QueueOK(queue, status) /\ status[u] = "absent" /\ TypeOK
      BY DEF CoreInv, TypeOK, StartRun
<1>4. s \in [Turns -> Statuses] /\ s = Admitted(u)
      BY <1>2, <1>3 DEF AfterAdmission, Admitted, DisplacedState, Statuses
<1>5. QueueOK(q, s)
      BY <1>1, <1>2, <1>3, PrepareOK
<1>6. \A w \in Turns : Begun(status, w) => Begun(s, w)
      BY <1>2, <1>3, PrepareHolds
<1>7. /\ ready(q) /\ create_run(r) /\ install(r, q) /\ queue' = claim(q, r)
      /\ status' = [s EXCEPT ![q[claimed(q)].turn] = "active"]
      BY <1>1, <1>4 DEF StartRun, install
<1>8. PICK t : t = q[claimed(q)].turn
      OBVIOUS
<1>9. /\ Advance /\ t \in Turns /\ Begun(status', t) /\ ~Begun(status, t)
      /\ \A p \in Runs : \A w : Holds(queue', p, w) <=> p = r /\ w = t
  <2>1. /\ Advance /\ q[claimed(q)].turn \in Turns /\ Begun(status', q[claimed(q)].turn)
        /\ ~Begun(status, q[claimed(q)].turn)
        /\ \A p \in Runs : \A w : Holds(queue', p, w) <=> p = r /\ w = q[claimed(q)].turn
    <3>1. s \in [Turns -> Statuses] /\ ready(q) /\ queue' = claim(q, r)
          /\ status' = [s EXCEPT ![q[claimed(q)].turn] = "active"]
          BY <1>4, <1>7
    <3> QED BY <1>5, <1>6, <3>1, ClaimStep, ZenonT(40)
  <2> QED BY <1>8, <2>1
<1>10. Installs(r, t)
       BY <1>3, <1>7, <1>8, <1>9, InstallStep
<1> QED BY <1>9, <1>10

LEMMA ContinueStep ==
    ASSUME CoreInv, NEW r \in Runs, prepare_queued_run(r)
    PROVE  \E t \in Turns : Installs(r, t)
<1>1. status \in [Turns -> Statuses] /\ QueueOK(queue, status) /\ TypeOK
      BY DEF CoreInv, TypeOK
<1>2. /\ ready(queue) /\ create_run(r) /\ install(r, queue) /\ queue' = claim(queue, r)
      /\ status' = [status EXCEPT ![queue[claimed(queue)].turn] = "active"]
      BY DEF prepare_queued_run, install
<1>3. PICK t : t = queue[claimed(queue)].turn
      OBVIOUS
<1>4. /\ Advance /\ t \in Turns /\ Begun(status', t) /\ ~Begun(status, t)
      /\ \A p \in Runs : \A w : Holds(queue', p, w) <=> p = r /\ w = t
      BY <1>1, <1>2, <1>3, ClaimStep
<1>5. Installs(r, t)
      BY <1>1, <1>2, <1>3, <1>4, InstallStep
<1> QED BY <1>4, <1>5

(* Turn t is claimed for the live Run r, whose monitor delivers it next.   *)
Dispatches(r, t) ==
    /\ Advance /\ ~Begun(status, t) /\ Begun(status', t)
    /\ \A p \in Runs : \A u : Holds(queue', p, u) <=> p = r /\ u = t
    /\ \A p \in Runs : \A u : ~Holds(queue, p, u)
    /\ run[r].life = "active" /\ monitor[r].phase = "read" /\ ~run[r].partial
    /\ monitor' = [monitor EXCEPT ![r] = [phase |-> "submit", turn |-> t]]
    /\ UNCHANGED <<run, last, start, control, orphans, gate, strikes, external, bounds>>

LEMMA DispatchStep ==
    ASSUME CoreInv, NEW r \in Runs, DispatchTurn(r)
    PROVE  \E t \in Turns : Dispatches(r, t)
<1>1. status \in [Turns -> Statuses] /\ QueueOK(queue, status)
      BY DEF CoreInv, TypeOK
<1>2. /\ ready(queue) /\ queue' = claim(queue, r)
      /\ status' = [status EXCEPT ![queue[claimed(queue)].turn] = "active"]
      BY DEF DispatchTurn, MayDispatch
<1>3. PICK t : t = queue[claimed(queue)].turn
      OBVIOUS
<1>4. /\ Advance /\ t \in Turns /\ Begun(status', t) /\ ~Begun(status, t)
      /\ \A p \in Runs : \A w : Holds(queue', p, w) <=> p = r /\ w = t
      BY <1>1, <1>2, <1>3, ClaimStep
<1>5. \A p \in Runs : \A u : ~Holds(queue, p, u)
      BY <1>1, <1>2, ReadyIsFree
<1>6. Dispatches(r, t)
      BY <1>3, <1>4, <1>5 DEF Dispatches, DispatchTurn, MayDispatch
<1> QED BY <1>4, <1>6

(* A request is on the record of Run r.                                    *)
Requested(r) ==
    /\ run' \in [Runs -> RunRows] /\ \A s \in Runs : s /= r => run'[s] = run[s]
    /\ run'[r].turn = run[r].turn /\ run'[r].partial = run[r].partial
    /\ executing(run[r].life) /\ run'[r].life \in {run[r].life, "stopping"}

LEMMA RecordControlStep ==
    ASSUME CoreInv, NEW c \in Controls, NEW r \in Runs, NEW kind \in {"interrupt", "stop"},
           RecordControl(c, r, kind)
    PROVE  Requested(r)
<1>1. QueueOK(queue, status) /\ status \in [Turns -> Statuses] /\ run \in [Runs -> RunRows]
      BY DEF CoreInv, TypeOK
<1>2. PICK active \in MaybeTurn : /\ active = active_turn(queue, r)
                                  /\ active /= NoTurn => Holds(queue, r, active)
      BY <1>1, ActiveTurn DEF MaybeTurn
<1>3. kind = "interrupt" => active \in Turns /\ Holds(queue, r, active)
      BY <1>2 DEF RecordControl, MaybeTurn
<1>4. PICK s \in RunRows : s = run[r]
      BY <1>1
<1>5. PICK q \in Requests :
        q = IF s.request.control = kind THEN s.request ELSE [control |-> kind, turn |-> active]
  <2>1. CASE s.request.control = kind
        BY <2>1 DEF RunRows
  <2>2. CASE s.request.control /= kind
    <3>1. PICK x : x = [control |-> kind, turn |-> active]
          OBVIOUS
    <3>2. x \in Requests
          BY <1>3, <3>1 DEF Requests
    <3> QED BY <2>2, <3>1, <3>2
  <2> QED BY <2>1, <2>2
<1>6. PICK n : n = [s EXCEPT !.request = q, !.life = IF kind = "stop" THEN "stopping" ELSE @]
      OBVIOUS
<1>7. n \in RunRows /\ n.turn = s.turn /\ n.partial = s.partial /\ n.request = q
      /\ n.life \in {s.life, "stopping"}
      BY <1>6 DEF RunRows
<1>8. run' = [run EXCEPT ![r] = n]
      BY <1>1, <1>2, <1>4, <1>5, <1>6 DEF RecordControl
<1>9. run' \in [Runs -> RunRows] /\ run'[r] = n /\ \A p \in Runs : p /= r => run'[p] = run[p]
      BY <1>1, <1>7, <1>8
<1>10. executing(run[r].life)
       BY DEF RecordControl
<1> QED BY <1>4, <1>5, <1>7, <1>9, <1>10 DEF Requested

LEMMA CommandTyped ==
    ASSUME CoreInv,
           \/ \E t \in Turns : admit(t) \/ Withdraw(t)
           \/ \E r \in Runs : \/ \E t \in Turns : StartRun(r, t)
                              \/ prepare_queued_run(r) \/ DispatchTurn(r)
                              \/ \E c \in Controls, kind \in {"interrupt", "stop"} : RecordControl(c, r, kind)
    PROVE  TypeOK'
<1> TypeOK
    BY DEF CoreInv
<1>1. ASSUME Advance
      PROVE  queue' \in Seq(Entry) /\ status' \in [Turns -> Statuses]
      BY <1>1 DEF Advance, QueueOK
<1>2. ASSUME NEW t \in Turns, admit(t)
      PROVE  TypeOK'
  <2>1. Advance
        BY <1>2, AdmitStep DEF admit
  <2> QED BY <1>1, <1>2, <2>1 DEF TypeOK, admit, volatile, external, bounds
<1>3. ASSUME NEW t \in Turns, Withdraw(t)
      PROVE  TypeOK'
  <2>1. Advance
        BY <1>3, WithdrawStep
  <2> QED BY <1>1, <1>3, <2>1 DEF TypeOK, Withdraw, volatile, external, bounds
<1>4. ASSUME NEW r \in Runs, (\E t \in Turns : StartRun(r, t)) \/ prepare_queued_run(r)
      PROVE  TypeOK'
  <2>1. PICK u \in Turns : Installs(r, u)
        BY <1>4, StartRunStep, ContinueStep
  <2> QED BY <1>1, <2>1 DEF TypeOK, Installs, volatile, external, bounds
<1>5. ASSUME NEW r \in Runs, DispatchTurn(r)
      PROVE  TypeOK'
  <2>1. PICK u \in Turns : Dispatches(r, u)
        BY <1>5, DispatchStep
  <2>2. monitor' \in [Runs -> Monitors]
        BY <2>1 DEF TypeOK, Dispatches, Monitors, MaybeTurn
  <2> QED BY <1>1, <2>1, <2>2 DEF TypeOK, Dispatches, external, bounds
<1>6. ASSUME NEW r \in Runs, NEW c \in Controls, NEW kind \in {"interrupt", "stop"},
             RecordControl(c, r, kind)
      PROVE  TypeOK'
  <2>1. run' \in [Runs -> RunRows]
        BY <1>6, RecordControlStep DEF Requested
  <2>2. control' \in [Controls -> Effects]
        BY <1>6 DEF TypeOK, RecordControl, Effects
  <2> QED BY <1>6, <2>1, <2>2 DEF TypeOK, RecordControl, volatile, external, bounds
<1> QED BY <1>2, <1>3, <1>4, <1>5, <1>6

(* No process of the machine is left, and no memory of jetd.               *)
Restarted ==
    /\ native' \in [Runs -> Helpers]
    /\ \A r \in Runs :
          /\ native'[r].helper \notin {"requested", "alive"}
          /\ native[r].helper \in {"none", "requested"} => native'[r].helper = "none"
          /\ native'[r].working = NoTurn /\ ~native'[r].cancelling
    /\ spool' = [r \in Runs |-> <<>>]

LEMMA RebootStep ==
    ASSUME TypeOK, Reboot
    PROVE  Restarted
<1> DEFINE After(r) == [native[r] EXCEPT !.helper = CASE @ = "alive" -> "dead"
                                                  [] @ = "requested" -> "none" [] OTHER -> @,
                                         !.working = NoTurn, !.exited = TRUE, !.cancelling = FALSE,
                                         !.stale = run[r].life # "none"]
<1>1. native' = [r \in Runs |-> After(r)] /\ spool' = [r \in Runs |-> <<>>]
      BY DEF Reboot
<1>2. ASSUME NEW r \in Runs
      PROVE  /\ After(r) \in Helpers /\ After(r).helper \notin {"requested", "alive"}
             /\ native[r].helper \in {"none", "requested"} => After(r).helper = "none"
             /\ After(r).working = NoTurn /\ ~After(r).cancelling
  <2>1. PICK h \in Helpers : h = native[r]
        BY DEF TypeOK
  <2>2. PICK gone \in BOOLEAN : gone = (run[r].life # "none")
        OBVIOUS
  <2>3. PICK to \in {"none", "finished", "dead"} :
            /\ to = CASE h.helper = "alive" -> "dead" [] h.helper = "requested" -> "none"
                      [] OTHER -> h.helper
            /\ h.helper \in {"none", "requested"} => to = "none"
        BY DEF Helpers
  <2>4. PICK n : n = [h EXCEPT !.helper = to, !.working = NoTurn, !.exited = TRUE,
                               !.cancelling = FALSE, !.stale = gone]
        OBVIOUS
  <2>5. n \in Helpers /\ n.helper = to /\ n.working = NoTurn /\ n.cancelling = FALSE
        BY <2>4 DEF Helpers, MaybeTurn
  <2>6. n = After(r)
        BY <2>1, <2>2, <2>3, <2>4
  <2> HIDE DEF After
  <2> QED BY <2>1, <2>3, <2>5, <2>6
<1> HIDE DEF After
<1> QED BY <1>1, <1>2 DEF Restarted

LEMMA RestartTyped ==
    ASSUME TypeOK, Crash \/ Reboot
    PROVE  TypeOK'
<1>1. ASSUME Forgotten
      PROVE  /\ gate' \in Gates /\ monitor' \in [Runs -> Monitors]
             /\ strikes' \in [Runs -> 0..MaxStrikes]
      BY <1>1, RunAssumption DEF Forgotten, Gates, NoMonitor, Monitors, MaybeTurn
<1>2. CASE Crash
      BY <1>1, <1>2, FaultTyped DEF TypeOK, Crash, durable, external
<1>3. CASE Reboot
  <2>1. native' \in [Runs -> Helpers] /\ spool' \in [Runs -> Seq(Observations)]
    <3>1. <<>> \in Seq(Observations)
          OBVIOUS
    <3> QED BY <1>3, <3>1, RebootStep DEF Restarted
  <2>2. reboots' \in 0..MaxReboots
    <3>1. reboots \in 0..MaxReboots
          BY DEF TypeOK
    <3>2. reboots < MaxReboots /\ reboots' = reboots + 1
          BY <1>3 DEF Reboot
    <3> QED BY <3>1, <3>2, RunAssumption
  <2> QED BY <1>1, <1>3, <2>1, <2>2 DEF TypeOK, Reboot, durable
<1> QED BY <1>2, <1>3

LEMMA TypeNext ==
    ASSUME CoreInv, ControlInv, LaunchInv, DeliveryInv, [Next]_vars
    PROVE  TypeOK'
<1> TypeOK
    BY DEF CoreInv
<1>1. CASE UNCHANGED vars
      BY <1>1 DEF TypeOK, vars, durable, volatile, external, bounds
<1>2. CASE Next
  <2>1. ASSUME NEW r \in Runs,
               \/ Launch(r) \/ Monitor(r) \/ Recover(r) \/ Resolve(r)
               \/ ResolveSettles(r) \/ Harness(r) \/ MonitorFails(r) \/ RequestLost(r) \/ HelperDies(r)
        PROVE  TypeOK'
        BY <2>1, CommandTyped, LaunchTyped, MonitorTyped, CommitsTyped, RecoverTyped, HarnessTyped
           DEF Launch, LaunchGoesOn, Monitor, Recover, Resolve, Harness
  <2> QED BY <1>2, <2>1, CommandTyped, ControlTyped, RestartTyped DEF Next
<1> QED BY <1>1, <1>2

-----------------------------------------------------------------------------
(* The queue and its owner.                                                *)

(* Neither the queue nor the life of a Run changes.                        *)
Quiet ==
    /\ UNCHANGED <<queue, status>>
    /\ \A s \in Runs : run'[s].life = run[s].life /\ run'[s].turn = run[s].turn

(* What a step is to the queue and the Runs.                               *)
Kinds ==
    \/ Quiet
    \/ \E t \in Turns : admit(t) \/ Withdraw(t)
    \/ \E r \in Runs, t \in Turns : Installs(r, t) \/ Dispatches(r, t)
    \/ \E r \in Runs : Requested(r) /\ UNCHANGED <<queue, status>>
    \/ \E r \in Runs, kind \in SeenKinds, boundary \in {"none", "pending", "complete"} :
          Recorded(r, kind, boundary)

LEMMA SameRun ==
    ASSUME UNCHANGED <<queue, status, run>>
    PROVE  Kinds
BY DEF Kinds, Quiet

LEMMA StepKinds ==
    ASSUME CoreInv, ControlInv, LaunchInv, [Next]_vars
    PROVE  Kinds
<1>1. TypeOK
      BY DEF CoreInv
<1>2. CASE UNCHANGED vars
      BY <1>2, SameRun DEF vars, durable
<1>3. ASSUME NEW r \in Runs, NEW kind \in SeenKinds, NEW boundary \in {"none", "pending", "complete"},
             Recorded(r, kind, boundary)
      PROVE  Kinds
      BY <1>3 DEF Kinds
<1>4. ASSUME NEW r \in Runs, Forget(r), UNCHANGED <<queue, status>>
      PROVE  Kinds
      BY <1>1, <1>4, ForgetTyped DEF Kinds, Quiet
<1>5. CASE Next
  <2>1. CASE \E t \in Turns : admit(t) \/ Withdraw(t)
        BY <2>1 DEF Kinds
  <2>2. ASSUME NEW r \in Runs, NEW t \in Turns, StartRun(r, t)
        PROVE  Kinds
        BY <2>2, StartRunStep DEF Kinds
  <2>3. ASSUME NEW r \in Runs, NEW c \in Controls, NEW kind \in {"interrupt", "stop"},
               RecordControl(c, r, kind)
        PROVE  Kinds
    <3>1. Requested(r) /\ UNCHANGED <<queue, status>>
          BY <2>3, RecordControlStep DEF RecordControl
    <3> QED BY <3>1 DEF Kinds
  <2>4. ASSUME NEW r \in Runs, prepare_queued_run(r)
        PROVE  Kinds
        BY <2>4, ContinueStep DEF Kinds
  <2>5. ASSUME NEW r \in Runs, Launch(r)
        PROVE  Kinds
    <3>1. CASE LaunchRefused(r)
      <4>1. CASE Accepts(r, Supervisor("launch_failed"))
            BY <1>3, <3>1, <4>1, ObservingSteps DEF SeenKinds
      <4>2. CASE ~Accepts(r, Supervisor("launch_failed"))
            BY <3>1, <4>2, SameRun DEF LaunchRefused
      <4> QED BY <4>1, <4>2
    <3>2. CASE ~LaunchRefused(r)
          BY <2>5, <3>2, SameRun DEF Launch, LaunchGoesOn, LaunchBegins, LaunchSends, LaunchReturns, LaunchUnknown,
             LaunchReconciles, durable
    <3> QED BY <3>1, <3>2
  <2>6. ASSUME NEW r \in Runs, Monitor(r)
        PROVE  Kinds
    <3>1. CASE CommitGroup(r)
      <4>1. Recorded(r, Heard(r).kind, "pending") /\ Heard(r).kind \in SeenKinds
            BY <1>1, <3>1, CommitGroupStep, HeardSeen DEF CommitGroup, Reading
      <4> QED BY <3>1, <4>1 DEF Kinds, CommitGroup
    <3>2. CASE CommitBoundary(r)
      <4>1. CASE ~run[r].partial
        <5>1. Recorded(r, Heard(r).kind, "complete") /\ Heard(r).kind \in SeenKinds
              BY <1>1, <3>2, <4>1, CommitBoundaryStep, HeardSeen DEF CommitBoundary, Reading
        <5> QED BY <3>2, <4>1, <5>1 DEF Kinds, CommitBoundary
      <4>2. CASE run[r].partial
        <5>1. PICK s \in RunRows : s = run[r]
              BY <1>1 DEF TypeOK
        <5>2. PICK n : n = [s EXCEPT !.boundary = TRUE, !.partial = FALSE]
              OBVIOUS
        <5>3. n.life = s.life /\ n.turn = s.turn
              BY <5>2 DEF RunRows
        <5>4. run' = [run EXCEPT ![r] = n] /\ UNCHANGED <<queue, status>>
              BY <3>2, <4>2, <5>1, <5>2 DEF CommitBoundary, AtSource
        <5>5. \A p \in Runs : run'[p].life = run[p].life /\ run'[p].turn = run[p].turn
              BY <1>1, <5>1, <5>3, <5>4 DEF TypeOK
        <5> QED BY <5>4, <5>5 DEF Kinds, Quiet
      <4> QED BY <4>1, <4>2
    <3>3. CASE DispatchTurn(r)
          BY <3>3, DispatchStep DEF Kinds
    <3>4. CASE MonitorSettles(r)
          BY <1>3, <3>4, ObservingSteps DEF SeenKinds
    <3>5. CASE CommitRefused(r) \/ SubmitTurn(r) \/ MonitorFinishes(r)
          BY <3>5, SameRun DEF CommitRefused, SubmitTurn, MonitorFinishes, durable
    <3> QED BY <2>6, <3>1, <3>2, <3>3, <3>4, <3>5 DEF Monitor
  <2>7. ASSUME NEW r \in Runs, Recover(r) \/ Resolve(r) \/ ResolveSettles(r)
        PROVE  Kinds
    <3>1. CASE RecoverLost(r) \/ RecoverUnavailable(r)
          BY <1>3, <3>1, ObservingSteps DEF SeenKinds
    <3>2. CASE RecoverConnects(r) \/ ResolveAdopt(r)
          BY <1>3, <3>2, ObservingSteps, SameRun DEF SeenKinds
    <3>3. CASE RecoverUnsafe(r) \/ ResolveTerminate(r) \/ ResolveSettles(r)
          BY <3>3, SameRun DEF RecoverUnsafe, ResolveTerminate, ResolveSettles, durable
    <3> QED BY <2>7, <3>1, <3>2, <3>3 DEF Recover, Resolve
  <2>8. ASSUME NEW r \in Runs, Harness(r) \/ MonitorFails(r) \/ RequestLost(r) \/ HelperDies(r)
        PROVE  Kinds
        BY <2>8, SameRun DEF Harness, HelperStarts, HarnessCompletes, HarnessInterrupted, HarnessEnds,
           MonitorFails, RequestLost, HelperDies, durable
  <2>9. ASSUME NEW c \in Controls, Control(c)
        PROVE  Kinds
    <3>1. CASE ControlBegins(c)
          BY <1>1, <1>4, <3>1, ControlTypes, SameRun DEF ControlBegins
    <3>2. CASE ControlSettles(c)
          BY <1>1, <1>4, <3>2, ControlTypes DEF ControlSettles
    <3>3. CASE ControlReconciles(c)
          BY <1>1, <1>4, <3>3, ControlTypes, SameRun DEF ControlReconciles
    <3>4. CASE ControlNative(c) \/ ControlNativeFails(c) \/ ControlSignals(c) \/ ControlUnknown(c)
          BY <3>4, SameRun DEF ControlNative, ControlNativeFails, ControlSignals, ControlUnknown, durable
    <3> QED BY <2>9, <3>1, <3>2, <3>3, <3>4 DEF Control, ControlGoesOn
  <2>10. CASE Crash \/ Reboot
        BY <2>10, SameRun DEF Crash, Reboot, durable
  <2> QED BY <1>5, <2>1, <2>2, <2>3, <2>4, <2>5, <2>6, <2>7, <2>8, <2>9, <2>10 DEF Next
<1> QED BY <1>2, <1>5

LEMMA OwnerNext ==
    ASSUME CoreInv, Kinds
    PROVE  Advance /\ OwnerInv'
<1>1. QueueOK(queue, status) /\ OwnerInv /\ status \in [Turns -> Statuses]
      BY DEF CoreInv, TypeOK
<1>2. ASSUME UNCHANGED <<queue, status>>
      PROVE  Advance
      BY <1>1, <1>2 DEF Advance
<1>3. CASE Quiet
      BY <1>1, <1>2, <1>3 DEF Quiet, OwnerInv, Live
<1>4. ASSUME NEW t \in Turns, admit(t) \/ Withdraw(t)
      PROVE  Advance /\ OwnerInv'
  <2>1. Advance /\ \A r \in Runs : \A u : Holds(queue', r, u) <=> Holds(queue, r, u)
        BY <1>4, AdmitStep, WithdrawStep DEF admit
  <2>2. run' = run
        BY <1>4 DEF admit, Withdraw
  <2> QED BY <1>1, <2>1, <2>2 DEF OwnerInv, Live
<1>5. ASSUME NEW r \in Runs, NEW t \in Turns, Installs(r, t)
      PROVE  Advance /\ OwnerInv'
  <2>1. \A s \in Runs : Live(s)' <=> s = r
        BY <1>5 DEF Installs, Live, Terminal
  <2> QED BY <1>5, <2>1 DEF Installs, OwnerInv
<1>6. ASSUME NEW r \in Runs, NEW t \in Turns, Dispatches(r, t)
      PROVE  Advance /\ OwnerInv'
  <2>1. run' = run /\ Live(r)
        BY <1>6 DEF Dispatches, Live, Terminal
  <2> QED BY <1>1, <1>6, <2>1 DEF Dispatches, OwnerInv, Live
<1>7. ASSUME NEW r \in Runs, Requested(r), UNCHANGED <<queue, status>>
      PROVE  Advance /\ OwnerInv'
  <2>1. \A s \in Runs : Live(s)' <=> Live(s)
        BY <1>7 DEF Requested, executing, Live, Terminal
  <2> QED BY <1>1, <1>2, <1>7, <2>1 DEF OwnerInv
<1>8. ASSUME NEW r \in Runs, NEW kind, NEW boundary, Recorded(r, kind, boundary)
      PROVE  Advance /\ OwnerInv'
      BY <1>8 DEF Recorded
<1> QED BY <1>3, <1>4, <1>5, <1>6, <1>7, <1>8 DEF Kinds

LEMMA CoreNext ==
    ASSUME CoreInv, ControlInv, LaunchInv, DeliveryInv, [Next]_vars
    PROVE  CoreInv' /\ Advance
<1>1. TypeOK'
      BY TypeNext
<1>2. Advance /\ OwnerInv'
      BY StepKinds, OwnerNext
<1> QED BY <1>1, <1>2 DEF CoreInv, Advance

-----------------------------------------------------------------------------
(* Launches and helpers.                                                   *)

(* A step that is not about Run s.                                         *)
Aside(s) ==
    /\ run'[s] = run[s] /\ start'[s] = start[s] /\ native'[s] = native[s]
    /\ monitor'[s] = monitor[s] /\ spool'[s] = spool[s]
    /\ gate'.task \in {"launch", "control"} /\ gate'.run = s => gate' = gate

(* The steps of the launch, the monitor, recovery and the helper of Run r. *)
RunStep(r) ==
    \/ Launch(r) \/ Monitor(r) \/ Recover(r) \/ Resolve(r) \/ ResolveSettles(r)
    \/ Harness(r) \/ MonitorFails(r) \/ RequestLost(r) \/ HelperDies(r)

LEMMA RunStepAside ==
    ASSUME CoreInv, LaunchInv, NEW r \in Runs, RunStep(r), NEW s \in Runs, s /= r
    PROVE  Aside(s)
<1> /\ run \in [Runs -> RunRows] /\ native \in [Runs -> Helpers] /\ monitor \in [Runs -> Monitors]
    /\ spool \in [Runs -> Seq(Observations)] /\ gate \in Gates
    /\ DOMAIN start = Runs
    BY DEF CoreInv, TypeOK
<1>1. CASE LaunchBegins(r)
      BY <1>1 DEF Aside, LaunchBegins, Start, Free, Launching, external
<1>2. CASE LaunchSends(r)
      BY <1>2 DEF Aside, LaunchSends, Launching, durable, Gates
<1>3. CASE LaunchReturns(r)
      BY <1>3 DEF Aside, LaunchReturns, Launching, Start, Free, external
<1>4. CASE LaunchUnknown(r)
      BY <1>4 DEF Aside, LaunchUnknown, Launching, Free, durable, external
<1>5. CASE LaunchReconciles(r)
      BY <1>5 DEF Aside, LaunchReconciles, Start, volatile, external
<1>6. CASE CommitRefused(r)
      BY <1>6 DEF Aside, CommitRefused, Phase, durable, external
<1>7. CASE SubmitTurn(r)
      BY <1>7 DEF Aside, SubmitTurn, Deliver, Phase, durable
<1>8. CASE MonitorFinishes(r)
      BY <1>8 DEF Aside, MonitorFinishes, Phase, durable
<1>9. CASE MonitorFails(r)
      BY <1>9 DEF Aside, MonitorFails, Phase, durable, external
<1>10. CASE HelperStarts(r)
      BY <1>10 DEF Aside, HelperStarts, Appends, durable, volatile
<1>11. CASE HarnessCompletes(r)
      BY <1>11 DEF Aside, HarnessCompletes, Appends, durable, volatile
<1>12. CASE HarnessInterrupted(r)
      BY <1>12 DEF Aside, HarnessInterrupted, Appends, durable, volatile
<1>13. CASE HarnessEnds(r)
      BY <1>13 DEF Aside, HarnessEnds, Appends, durable, volatile
<1>14. CASE RequestLost(r)
      BY <1>14 DEF Aside, RequestLost, durable, volatile
<1>15. CASE HelperDies(r)
      BY <1>15 DEF Aside, HelperDies, Dies, durable
<1>16. CASE RecoverUnsafe(r)
      BY <1>16 DEF Aside, RecoverUnsafe, volatile, external
<1>17. CASE ResolveTerminate(r)
      BY <1>17 DEF Aside, ResolveTerminate, Dies, Free, Launching, durable
<1>18. CASE ResolveSettles(r)
      BY <1>18 DEF Aside, ResolveSettles, Free, Launching, external
<1>19. CASE LaunchRefused(r)
  <2>1. run'[s] = run[s] /\ start'[s] = start[s]
    <3>1. CASE Accepts(r, Supervisor("launch_failed"))
      <4>1. Recorded(r, "launch_failed", "none")
            BY <1>19, <3>1, ObservingSteps
      <4>2. start' = [start EXCEPT ![r] = "failed"]
            BY <1>19, <3>1 DEF LaunchRefused, Start
      <4>3. run'[s] = run[s]
            BY <4>1 DEF Recorded
      <4>4. start \in [Runs -> {start[x] : x \in Runs}]
            BY DEF CoreInv, TypeOK
      <4> QED BY <4>2, <4>3, <4>4
    <3>2. CASE ~Accepts(r, Supervisor("launch_failed"))
          BY <1>19, <3>2 DEF LaunchRefused
    <3> QED BY <3>1, <3>2
  <2> QED BY <1>19, <2>1 DEF Aside, LaunchRefused, Free, external
<1>20. CASE CommitGroup(r)
  <2>1. run'[s] = run[s]
        BY <1>20, CommitGroupStep DEF Recorded
  <2> QED BY <1>20, <2>1 DEF Aside, CommitGroup, volatile, external
<1>21. CASE MonitorSettles(r)
  <2>1. run'[s] = run[s]
        BY <1>21, ObservingSteps DEF Recorded
  <2> QED BY <1>21, <2>1 DEF Aside, MonitorSettles, Phase, external
<1>22. CASE RecoverLost(r)
  <2>1. run'[s] = run[s]
        BY <1>22, ObservingSteps DEF Recorded
  <2> QED BY <1>22, <2>1 DEF Aside, RecoverLost, external
<1>23. CASE RecoverUnavailable(r)
  <2>1. run'[s] = run[s]
        BY <1>23, ObservingSteps DEF Recorded
  <2> QED BY <1>23, <2>1 DEF Aside, RecoverUnavailable, external
<1>24. CASE CommitBoundary(r)
  <2>1. run'[s] = run[s]
    <3>1. CASE run[r].partial
          BY <1>24, <3>1 DEF CommitBoundary
    <3>2. CASE ~run[r].partial
          BY <1>24, <3>2, CommitBoundaryStep DEF Recorded
    <3> QED BY <3>1, <3>2
  <2> QED BY <1>24, <2>1 DEF Aside, CommitBoundary, Phase
<1>25. CASE DispatchTurn(r)
  <2>1. PICK t \in Turns : Dispatches(r, t)
        BY <1>25, DispatchStep
  <2> QED BY <2>1 DEF Aside, Dispatches, external
<1>26. CASE RecoverConnects(r) \/ ResolveAdopt(r)
  <2>1. run'[s] = run[s] /\ native'[s] = native[s] /\ monitor'[s] = monitor[s]
    <3>1. CASE native' = [native EXCEPT ![r].helper = "finished"]
               /\ UNCHANGED <<queue, status, run, monitor>>
          BY <3>1
    <3>2. CASE Recorded(r, "reconnected", "none") /\ Phase(r, "read") /\ UNCHANGED native
          BY <3>2 DEF Recorded, Phase
    <3> QED BY <1>26, <3>1, <3>2, ObservingSteps
  <2>2. start' = start /\ spool' = spool /\ (gate' = gate \/ gate'.task = "resolve")
        BY <1>26 DEF RecoverConnects, ResolveAdopt, Free
  <2> QED BY <2>1, <2>2 DEF Aside
<1> QED BY <1>1, <1>2, <1>3, <1>4, <1>5, <1>6, <1>7, <1>8, <1>9, <1>10, <1>11, <1>12, <1>13, <1>14, <1>15, <1>16, <1>17, <1>18, <1>19, <1>20, <1>21, <1>22, <1>23, <1>24, <1>25, <1>26
         DEF RunStep, Launch, LaunchGoesOn, Monitor, Recover, Resolve, Harness

LEMMA LaunchAside ==
    ASSUME NEW s \in Runs, LaunchOK(s), Aside(s)
    PROVE  LaunchOK(s)'
BY DEF LaunchOK, Aside, Launching

LEMMA LaunchOwn ==
    ASSUME CoreInv, LaunchInv, NEW r \in Runs, RunStep(r)
    PROVE  LaunchOK(r)'
<1> /\ run \in [Runs -> RunRows] /\ native \in [Runs -> Helpers] /\ monitor \in [Runs -> Monitors]
    /\ spool \in [Runs -> Seq(Observations)] /\ gate \in Gates /\ DOMAIN start = Runs /\ LaunchOK(r)
    BY DEF CoreInv, TypeOK, LaunchInv
<1>1. CASE LaunchBegins(r)
      BY <1>1 DEF LaunchOK, LaunchBegins, Start, Free, Launching, external
<1>2. CASE LaunchSends(r)
      BY <1>2 DEF LaunchOK, LaunchSends, Launching, durable, Gates, Helpers
<1>3. CASE LaunchReturns(r)
      BY <1>3 DEF LaunchOK, LaunchReturns, Launching, Start, Free, external, Monitors
<1>4. CASE LaunchUnknown(r)
      BY <1>4 DEF LaunchOK, LaunchUnknown, Launching, Free, durable, external
<1>5. CASE LaunchReconciles(r)
      BY <1>5 DEF LaunchOK, LaunchReconciles, Launching, Start, Free, volatile, external
<1>6. CASE CommitRefused(r)
      BY <1>6 DEF LaunchOK, CommitRefused, Reading, Launching, Phase, durable, external
<1>7. CASE SubmitTurn(r)
      BY <1>7 DEF LaunchOK, SubmitTurn, Launching, Deliver, Phase, durable, Helpers
<1>8. CASE MonitorFinishes(r)
      BY <1>8 DEF LaunchOK, MonitorFinishes, Launching, Phase, durable, Helpers
<1>9. CASE MonitorFails(r)
      BY <1>9 DEF LaunchOK, MonitorFails, Launching, Phase, durable, external
<1>10. CASE HarnessCompletes(r)
      BY <1>10 DEF LaunchOK, HarnessCompletes, Works, Launching, Appends, durable, volatile, Helpers
<1>11. CASE HarnessInterrupted(r)
      BY <1>11 DEF LaunchOK, HarnessInterrupted, Works, Launching, Appends, durable, volatile, Helpers
<1>12. CASE HarnessEnds(r)
      BY <1>12 DEF LaunchOK, HarnessEnds, Works, Launching, Appends, durable, volatile, Helpers
<1>13. CASE RequestLost(r)
      BY <1>13 DEF LaunchOK, RequestLost, Launching, durable, volatile, Helpers
<1>14. CASE HelperDies(r)
      BY <1>14 DEF LaunchOK, HelperDies, Launching, Dies, durable, Helpers
<1>15. CASE RecoverUnsafe(r)
      BY <1>15 DEF LaunchOK, RecoverUnsafe, Launching, volatile, external
<1>16. CASE ResolveTerminate(r)
      BY <1>16 DEF LaunchOK, ResolveTerminate, Dies, Free, Launching, durable, Helpers
<1>17. CASE ResolveSettles(r)
      BY <1>17 DEF LaunchOK, ResolveSettles, Free, Launching, external
<1>18. CASE HelperStarts(r)
  <2>1. native'[r].helper = "alive" /\ native'[r].cancelling = native[r].cancelling
        BY <1>18 DEF HelperStarts, Helpers
  <2> QED BY <1>18, <2>1 DEF LaunchOK, HelperStarts, Launching, durable, volatile
<1>19. CASE LaunchRefused(r)
  <2>1. Created(r)' /\ start'[r] /= "none" /\ start'[r] /= "pending"
    <3>1. CASE Accepts(r, Supervisor("launch_failed"))
          BY <1>19, <3>1, ObservingSteps DEF LaunchRefused, Recorded, Start, Created
    <3>2. CASE ~Accepts(r, Supervisor("launch_failed"))
          BY <1>19, <3>2 DEF LaunchRefused, LaunchOK, Created
    <3> QED BY <3>1, <3>2
  <2> QED BY <1>19, <2>1 DEF LaunchOK, LaunchRefused, Launching, Free, Created, external
<1>20. CASE CommitGroup(r)
  <2>1. Created(r)' /\ Created(r)
        BY <1>20, CommitGroupStep, RunOfMonitor DEF Recorded, Created, CommitGroup, Reading
  <2> QED BY <1>20, <2>1 DEF LaunchOK, Created, CommitGroup, Launching, volatile, external
<1>21. CASE MonitorSettles(r)
  <2>1. Created(r)' /\ Created(r)
        BY <1>21, ObservingSteps, RunOfMonitor DEF Recorded, Created, MonitorSettles
  <2> QED BY <1>21, <2>1 DEF LaunchOK, Created, MonitorSettles, Launching, Phase, external
<1>22. CASE RecoverLost(r)
  <2>1. Created(r)' /\ Created(r)
        BY <1>22, ObservingSteps, RunOfMonitor DEF Recorded, Created, RecoverLost, Recovering
  <2> QED BY <1>22, <2>1 DEF LaunchOK, Created, RecoverLost, Launching, external
<1>23. CASE RecoverUnavailable(r)
  <2>1. Created(r)' /\ Created(r)
        BY <1>23, ObservingSteps, RunOfMonitor DEF Recorded, Created, RecoverUnavailable, Recovering
  <2> QED BY <1>23, <2>1 DEF LaunchOK, Created, RecoverUnavailable, Launching, external
<1>24. CASE CommitBoundary(r)
  <2>1. Created(r)
        BY <1>24, RunOfMonitor DEF CommitBoundary, Reading
  <2>2. run'[r].life /= "none"
    <3>1. CASE run[r].partial
      <4>1. PICK n \in RunRows : n = run[r]
            OBVIOUS
      <4>2. PICK m : m = [n EXCEPT !.boundary = TRUE, !.partial = FALSE]
            OBVIOUS
      <4>3. m.life = n.life /\ run'[r] = m
            BY <1>24, <3>1, <4>1, <4>2 DEF CommitBoundary, AtSource, RunRows
      <4> QED BY <2>1, <4>1, <4>3 DEF Created
    <3>2. CASE ~run[r].partial
          BY <1>24, <3>2, CommitBoundaryStep DEF Recorded
    <3> QED BY <3>1, <3>2
  <2>3. native'[r] = native[r] /\ start' = start /\ gate' = gate
        /\ native[r].helper \notin {"none", "requested"}
        BY <1>24 DEF CommitBoundary, Reading, LaunchOK
  <2>4. native[r] \in Helpers
        OBVIOUS
  <2> QED BY <2>1, <2>2, <2>3, <2>4 DEF LaunchOK, Created, Launching, Helpers
<1>25. CASE DispatchTurn(r)
  <2>1. PICK t \in Turns : Dispatches(r, t)
        BY <1>25, DispatchStep
  <2> QED BY <2>1 DEF LaunchOK, Launching, Dispatches, external
<1>26. CASE RecoverConnects(r) \/ ResolveAdopt(r)
  <2>1. Created(r) /\ native[r].helper = "alive"
        BY <1>26, RunOfMonitor DEF RecoverConnects, ResolveAdopt
  <2>2. /\ Created(r)' /\ native'[r].helper \in {"alive", "finished"}
        /\ native'[r].cancelling = native[r].cancelling /\ native'[r].working = native[r].working
    <3>1. CASE native' = [native EXCEPT ![r].helper = "finished"]
               /\ UNCHANGED <<queue, status, run, monitor>>
          BY <2>1, <3>1 DEF Helpers, Created
    <3>2. CASE Recorded(r, "reconnected", "none") /\ Phase(r, "read") /\ UNCHANGED native
          BY <2>1, <3>2 DEF Recorded, Created
    <3> QED BY <1>26, <3>1, <3>2, ObservingSteps
  <2>3. start' = start /\ spool' = spool /\ gate'.task /= "launch"
    <3>1. CASE RecoverConnects(r)
          BY <3>1 DEF RecoverConnects, Recovering, Free
    <3>2. CASE ResolveAdopt(r)
          BY <3>2 DEF ResolveAdopt, Free
    <3> QED BY <1>26, <3>1, <3>2
  <2> QED BY <2>1, <2>2, <2>3 DEF LaunchOK, Launching, Created
<1> QED BY <1>1, <1>2, <1>3, <1>4, <1>5, <1>6, <1>7, <1>8, <1>9, <1>10, <1>11, <1>12, <1>13, <1>14, <1>15, <1>16, <1>17, <1>18, <1>19, <1>20, <1>21, <1>22, <1>23, <1>24, <1>25, <1>26
         DEF RunStep, Launch, LaunchGoesOn, Monitor, Recover, Resolve, Harness

(* A step of execution control of Run r.                                   *)
Controlled(r) ==
    /\ UNCHANGED <<queue, status, start, spool, delivered>>
    /\ run'[r].life = run[r].life /\ run'[r].turn = run[r].turn /\ run'[r].partial = run[r].partial
    /\ run'[r].request \in {run[r].request, NoRequest}
    /\ native'[r].helper = native[r].helper /\ native'[r].working = native[r].working
    /\ native'[r].exited = native[r].exited /\ native'[r].stale = native[r].stale
    /\ \/ native'[r].cancelling = native[r].cancelling
       \/ /\ native'[r].cancelling = (native[r].working /= NoTurn)
          /\ monitor[r].phase /= "none"
    /\ \/ monitor'[r] = monitor[r]
       \/ monitor[r].phase /= "none" /\ monitor'[r] = [phase |-> "failing", turn |-> NoTurn]
    /\ \/ gate' = gate
       \/ gate' = Free
       \/ gate'.task = "control" /\ gate'.run = r /\ gate'.request = run[r].request
             /\ run' = run /\ gate'.control \in Controls /\ control'[gate'.control].state = "in_flight"
       \/ gate'.task = "control" /\ gate.task = "control" /\ gate'.run = r /\ gate.run = r
             /\ gate'.request = gate.request /\ gate'.control = gate.control
    /\ \A c \in Controls : control[c].state /= "none" => control'[c].state /= "none"

LEMMA EffectSteps ==
    ASSUME TypeOK, NEW c \in Controls, NEW state, state /= "none", Effect(c, state)
    PROVE  /\ \A d \in Controls : control[d].state /= "none" => control'[d].state /= "none"
           /\ control'[c].state = state
<1>1. control \in [Controls -> Effects] /\ control' = [control EXCEPT ![c].state = state]
      BY DEF TypeOK, Effect
<1> QED BY <1>1 DEF Effects

LEMMA ControlStep ==
    ASSUME TypeOK, ControlInv, NEW c \in Controls, Control(c)
    PROVE  \E r \in Runs : Controlled(r) /\ \A s \in Runs : s /= r => Aside(s)
<1> /\ run \in [Runs -> RunRows] /\ native \in [Runs -> Helpers] /\ monitor \in [Runs -> Monitors]
    /\ spool \in [Runs -> Seq(Observations)] /\ gate \in Gates /\ DOMAIN start = Runs
    BY DEF TypeOK
<1>1. ASSUME NEW r \in Runs, Forget(r)
      PROVE  /\ \A s \in Runs : s /= r => run'[s] = run[s]
             /\ run'[r].life = run[r].life /\ run'[r].turn = run[r].turn
             /\ run'[r].partial = run[r].partial /\ run'[r].request = NoRequest
      BY <1>1, ForgetTyped
<1>2. CASE ControlBegins(c)
  <2>1. PICK r \in Runs : r = control[c].run
        BY <1>2, ControlTypes DEF ControlBegins
  <2>2. gate.task = "none" /\ gate = Free
        BY <1>2 DEF ControlBegins, Free
  <2>3. UNCHANGED <<queue, status, start, spool, delivered, native, monitor>>
        BY <1>2 DEF ControlBegins, external
  <2>4. CASE gate' = gate
    <3>1. Effect(c, "completed") /\ (run' = run \/ Forget(r))
          BY <1>2, <2>1, <2>2, <2>4 DEF ControlBegins, Free
    <3>2. Controlled(r)
          BY <1>1, <2>3, <2>4, <3>1, EffectSteps DEF Controlled
    <3>3. \A s \in Runs : s /= r => Aside(s)
          BY <1>1, <2>3, <2>4, <3>1 DEF Aside
    <3> QED BY <3>2, <3>3
  <2>5. CASE gate' /= gate
    <3>1. /\ Effect(c, "in_flight") /\ run' = run
          /\ gate' = [task |-> "control", run |-> r, control |-> c,
                      request |-> run[r].request, step |-> 0]
          BY <1>2, <2>1, <2>5 DEF ControlBegins
    <3>2. gate'.task = "control" /\ gate'.run = r /\ gate'.request = run[r].request /\ gate'.control = c
          BY <3>1
    <3>3. Controlled(r)
          BY <2>3, <3>1, <3>2, EffectSteps DEF Controlled
    <3>4. \A s \in Runs : s /= r => Aside(s)
          BY <2>3, <3>1, <3>2 DEF Aside
    <3> QED BY <3>3, <3>4
  <2> QED BY <2>4, <2>5
<1>3. CASE ControlReconciles(c)
  <2>1. PICK r \in Runs : r = control[c].run
        BY <1>3, ControlTypes DEF ControlReconciles
  <2>2. UNCHANGED <<queue, status, start, spool, delivered, native, monitor, gate>>
        BY <1>3 DEF ControlReconciles, volatile, external
  <2>3. (run' = run \/ Forget(r)) /\ (Effect(c, "outcome_unknown") \/ Effect(c, "completed"))
        BY <1>3, <2>1 DEF ControlReconciles
  <2>4. Controlled(r)
        BY <1>1, <2>2, <2>3, EffectSteps DEF Controlled
  <2>5. \A s \in Runs : s /= r => Aside(s)
        BY <1>1, <2>2, <2>3 DEF Aside
  <2> QED BY <2>4, <2>5
<1>4. ASSUME Controlling(c)
      PROVE  \E r \in Runs : r = gate.run /\ gate.task = "control" /\ gate.control = c
      BY <1>4, ControlTypes DEF Controlling
<1>5. CASE ControlNative(c)
  <2>1. PICK r \in Runs : r = gate.run /\ gate.task = "control" /\ gate.control = c
        BY <1>4, <1>5 DEF ControlNative
  <2>2. /\ gate' = Free /\ Effect(c, "completed") /\ Natively(r)
        /\ UNCHANGED <<queue, status, run, start, spool, delivered>>
        BY <1>5, <2>1 DEF ControlNative
  <2>3. monitor[r].phase /= "none" /\ Free.task = "none"
        BY <2>2 DEF Natively, Free
  <2>4. CASE (Phase(r, "failing") \/ UNCHANGED monitor) /\ UNCHANGED native
    <3>1. /\ monitor'[r] \in {monitor[r], [phase |-> "failing", turn |-> NoTurn]}
          /\ \A s \in Runs : s /= r => monitor'[s] = monitor[s]
          BY <2>4 DEF Phase
    <3>2. Controlled(r)
          BY <2>2, <2>3, <2>4, <3>1, EffectSteps DEF Controlled
    <3>3. \A s \in Runs : s /= r => Aside(s)
          BY <2>2, <2>3, <2>4, <3>1 DEF Aside
    <3> QED BY <3>2, <3>3
  <2>5. CASE /\ native' = [native EXCEPT ![r].cancelling = native[r].working # NoTurn]
             /\ UNCHANGED monitor
    <3>1. /\ native'[r].helper = native[r].helper /\ native'[r].working = native[r].working
          /\ native'[r].exited = native[r].exited /\ native'[r].stale = native[r].stale
          /\ native'[r].cancelling = (native[r].working /= NoTurn)
          /\ \A s \in Runs : s /= r => native'[s] = native[s]
          BY <2>5 DEF Helpers
    <3>2. Controlled(r)
          BY <2>1, <2>2, <2>3, <2>5, <3>1, EffectSteps DEF Controlled
    <3>3. \A s \in Runs : s /= r => Aside(s)
          BY <2>2, <2>3, <2>5, <3>1 DEF Aside
    <3> QED BY <3>2, <3>3
  <2> QED BY <1>5, <2>1, <2>4, <2>5 DEF ControlNative
<1>6. CASE ControlNativeFails(c)
  <2>1. PICK r \in Runs : r = gate.run /\ gate.task = "control" /\ gate.control = c
        BY <1>4, <1>6 DEF ControlNativeFails
  <2>2. /\ gate' = Free /\ Phase(r, "failing") /\ Natively(r)
        /\ UNCHANGED <<queue, status, run, start, control, native, spool, delivered>>
        BY <1>6, <2>1 DEF ControlNativeFails, durable, external
  <2>3. monitor[r].phase /= "none" /\ Free.task = "none"
        BY <2>2 DEF Natively, Free
  <2>4. /\ monitor'[r] = [phase |-> "failing", turn |-> NoTurn]
        /\ \A s \in Runs : s /= r => monitor'[s] = monitor[s]
        BY <2>2 DEF Phase
  <2>5. Controlled(r)
        BY <2>2, <2>3, <2>4 DEF Controlled
  <2>6. \A s \in Runs : s /= r => Aside(s)
        BY <2>2, <2>3, <2>4 DEF Aside
  <2> QED BY <2>5, <2>6
<1>7. CASE ControlSignals(c) \/ ControlUnknown(c)
  <2>1. PICK r \in Runs : r = gate.run /\ gate.task = "control" /\ gate.control = c
        BY <1>4, <1>7 DEF ControlSignals, ControlUnknown
  <2>2. UNCHANGED <<queue, status, run, start, control, native, monitor, spool, delivered>>
        BY <1>7 DEF ControlSignals, ControlUnknown, durable, external
  <2>3. \/ gate' = Free /\ gate'.task = "none"
        \/ gate'.task = "control" /\ gate'.run = r /\ gate'.request = gate.request
              /\ gate'.control = gate.control
    <3>1. CASE ControlUnknown(c)
          BY <3>1 DEF ControlUnknown, Free
    <3>2. CASE ControlSignals(c)
      <4>1. PICK p \in Runs, q \in Requests, n \in 0..3 :
              gate = [task |-> "control", run |-> p, control |-> c, request |-> q, step |-> n]
            BY <3>2, ControlTypes DEF ControlSignals
      <4>2. gate' = [task |-> "control", run |-> p, control |-> c, request |-> q, step |-> n + 1]
            BY <3>2, <4>1 DEF ControlSignals
      <4> QED BY <2>1, <4>1, <4>2
    <3> QED BY <1>7, <3>1, <3>2
  <2>4. Controlled(r)
        BY <2>1, <2>2, <2>3 DEF Controlled
  <2>5. \A s \in Runs : s /= r => Aside(s)
        BY <2>1, <2>2, <2>3 DEF Aside
  <2> QED BY <2>4, <2>5
<1>8. CASE ControlSettles(c)
  <2>1. PICK r \in Runs : r = gate.run /\ gate.task = "control" /\ gate.control = c
        BY <1>4, <1>8 DEF ControlSettles
  <2>2. /\ gate' = Free /\ Forget(r) /\ Effect(c, "completed")
        /\ UNCHANGED <<queue, status, start, monitor, native, spool, delivered>>
        BY <1>8, <2>1 DEF ControlSettles, external
  <2>3. Free.task = "none"
        BY DEF Free
  <2>4. Controlled(r)
        BY <1>1, <2>2, EffectSteps DEF Controlled
  <2>5. \A s \in Runs : s /= r => Aside(s)
        BY <1>1, <2>2, <2>3 DEF Aside
  <2> QED BY <2>4, <2>5
<1> QED BY <1>2, <1>3, <1>5, <1>6, <1>7, <1>8 DEF Control, ControlGoesOn


LEMMA CommandAside ==
    ASSUME CoreInv, NEW s \in Runs,
           \/ \E t \in Turns : admit(t) \/ Withdraw(t)
           \/ \E r \in Runs : r /= s /\ \E t \in Turns : Installs(r, t)
           \/ \E r \in Runs, c \in Controls, kind \in {"interrupt", "stop"} :
                 r /= s /\ RecordControl(c, r, kind)
    PROVE  Aside(s)
<1>1. CASE \E t \in Turns : admit(t) \/ Withdraw(t)
      BY <1>1 DEF Aside, admit, Withdraw, volatile, external
<1>2. ASSUME NEW r \in Runs, r /= s, NEW t \in Turns, Installs(r, t)
      PROVE  Aside(s)
      BY <1>2 DEF Aside, Installs, volatile, external, CoreInv, TypeOK
<1>3. ASSUME NEW r \in Runs, r /= s, NEW c \in Controls, NEW kind \in {"interrupt", "stop"},
             RecordControl(c, r, kind)
      PROVE  Aside(s)
  <2>1. run'[s] = run[s]
        BY <1>3, RecordControlStep DEF Requested
  <2> QED BY <1>3, <2>1 DEF Aside, RecordControl, volatile, external
<1> QED BY <1>1, <1>2, <1>3

(* Every step: what is not a step of one Run.                              *)
LEMMA NextCases ==
    ASSUME CoreInv, ControlInv, [Next]_vars
    PROVE  \/ UNCHANGED vars
           \/ \E t \in Turns : admit(t) \/ Withdraw(t)
           \/ \E r \in Runs, t \in Turns : Installs(r, t)
           \/ \E r \in Runs, c \in Controls, kind \in {"interrupt", "stop"} : RecordControl(c, r, kind)
           \/ \E r \in Runs : RunStep(r)
           \/ \E r \in Runs : Controlled(r) /\ \A s \in Runs : s /= r => Aside(s)
           \/ Crash \/ Reboot
<1>1. TypeOK
      BY DEF CoreInv
<1> QED BY <1>1, StartRunStep, ContinueStep, ControlStep DEF Next, RunStep

LEMMA LaunchNext ==
    ASSUME CoreInv, ControlInv, LaunchInv, [Next]_vars
    PROVE  LaunchInv'
<1> SUFFICES ASSUME NEW s \in Runs
             PROVE  LaunchOK(s)'
    BY DEF LaunchInv
<1> LaunchOK(s)
    BY DEF LaunchInv
<1>1. ASSUME Aside(s)
      PROVE  LaunchOK(s)'
      BY <1>1, LaunchAside
<1>2. CASE UNCHANGED vars
      BY <1>2 DEF LaunchOK, Launching, vars, durable, volatile, external
<1>3. CASE \E t \in Turns : admit(t) \/ Withdraw(t)
      BY <1>1, <1>3, CommandAside
<1>4. ASSUME NEW r \in Runs, NEW t \in Turns, Installs(r, t)
      PROVE  LaunchOK(s)'
  <2>1. CASE s /= r
        BY <1>1, <1>4, <2>1, CommandAside
  <2>2. CASE s = r
    <3>1. start[s] = "none" /\ native[s].helper = "none" /\ ~Launching(s) /\ monitor[s].phase = "none"
          BY <1>4, <2>2 DEF LaunchOK, Installs
    <3>2. start'[s] = "pending" /\ run'[s].life /= "none"
          BY <1>4, <2>2 DEF Installs, CoreInv, TypeOK
    <3>3. UNCHANGED <<gate, monitor, native, spool>>
          BY <1>4 DEF Installs, volatile, external
    <3> QED BY <3>1, <3>2, <3>3 DEF LaunchOK, Launching
  <2> QED BY <2>1, <2>2
<1>5. ASSUME NEW r \in Runs, NEW c \in Controls, NEW kind \in {"interrupt", "stop"},
             RecordControl(c, r, kind)
      PROVE  LaunchOK(s)'
  <2>1. CASE s /= r
        BY <1>1, <1>5, <2>1, CommandAside
  <2>2. CASE s = r
    <3>1. run[s].life /= "none" /\ run'[s].life /= "none"
          BY <1>5, <2>2, RecordControlStep DEF Requested, executing
    <3> QED BY <1>5, <3>1 DEF RecordControl, LaunchOK, Launching, volatile, external
  <2> QED BY <2>1, <2>2
<1>6. ASSUME NEW r \in Runs, RunStep(r)
      PROVE  LaunchOK(s)'
      BY <1>1, <1>6, LaunchOwn, RunStepAside
<1>7. ASSUME NEW r \in Runs, Controlled(r), \A p \in Runs : p /= r => Aside(p)
      PROVE  LaunchOK(s)'
  <2>1. CASE s = r
    <3>1. /\ UNCHANGED <<start, spool>> /\ run'[s].life = run[s].life
          /\ native'[s].helper = native[s].helper /\ native'[s].working = native[s].working
          BY <1>7, <2>1 DEF Controlled
    <3>2. Launching(s)' => Launching(s) /\ gate' = gate
          BY <1>7, <2>1 DEF Controlled, Launching, Free
    <3>3. monitor'[s].phase /= "none" => monitor[s].phase /= "none"
          BY <1>7, <2>1 DEF Controlled
    <3>4. native'[s].cancelling =>
             native[s].cancelling \/ (native[s].working /= NoTurn /\ monitor[s].phase /= "none")
          BY <1>7, <2>1 DEF Controlled
    <3>5. native'[s].cancelling => native'[s].working /= NoTurn /\ native'[s].helper \notin {"none", "requested"}
          BY <3>1, <3>4 DEF LaunchOK
    <3> QED BY <3>1, <3>2, <3>3, <3>5 DEF LaunchOK, Launching
  <2> QED BY <1>1, <1>7, <2>1
<1>8. CASE Crash
      BY <1>8 DEF Crash, Forgotten, LaunchOK, Launching, Free, NoMonitor, durable, external
<1>9. CASE Reboot
  <2>1. Restarted /\ native \in [Runs -> Helpers]
        BY <1>9, RebootStep DEF CoreInv, TypeOK
  <2>2. /\ native'[s].helper \notin {"requested", "alive"} /\ ~native'[s].cancelling
        /\ native[s].helper = "none" => native'[s].helper = "none"
        /\ spool'[s] = <<>> /\ native'[s].helper \in {"none", "requested", "alive", "finished", "dead"}
        BY <2>1 DEF Restarted, Helpers
  <2>3. /\ gate'.task = "none" /\ monitor'[s].phase = "none" /\ start' = start /\ run' = run
        BY <1>9 DEF Reboot, Forgotten, Free, NoMonitor, durable
  <2> QED BY <2>2, <2>3 DEF LaunchOK, Launching
<1> QED BY <1>2, <1>3, <1>4, <1>5, <1>6, <1>7, <1>8, <1>9, NextCases

LEMMA RunStepGate ==
    ASSUME CoreInv, NEW r \in Runs, RunStep(r)
    PROVE  control' = control /\ (gate' = gate \/ gate'.task /= "control")
<1>0. Free.task = "none"
      BY DEF Free
<1>1. CASE Launch(r)
  <2>1. CASE LaunchSends(r)
    <3>1. gate'.task /= "control" /\ control' = control
          BY <2>1 DEF LaunchSends, Launching, durable, CoreInv, TypeOK, Gates, Free
    <3> QED BY <3>1
  <2>2. CASE LaunchBegins(r)
    <3>1. gate'.task /= "control" /\ control' = control
          BY <2>2 DEF LaunchBegins, Free
    <3> QED BY <3>1
  <2> QED BY <1>0, <1>1, <2>1, <2>2 DEF Launch, LaunchGoesOn, LaunchRefused, LaunchReturns,
          LaunchUnknown, LaunchReconciles, durable, volatile
<1>2. CASE Monitor(r)
      BY <1>2 DEF Monitor, CommitGroup, CommitBoundary, CommitRefused, DispatchTurn, SubmitTurn,
         MonitorFinishes, MonitorSettles, durable, volatile
<1>3. CASE Recover(r)
      BY <1>3 DEF Recover, RecoverLost, RecoverUnsafe, RecoverConnects, RecoverUnavailable, volatile
<1>4. CASE Resolve(r) \/ ResolveSettles(r)
  <2>1. control' = control /\ (gate' = Free \/ gate' = [Free EXCEPT !.task = "resolve", !.run = r])
        BY <1>4 DEF Resolve, ResolveAdopt, ResolveTerminate, ResolveSettles, durable
  <2>2. [Free EXCEPT !.task = "resolve", !.run = r].task = "resolve"
        BY DEF Free
  <2>3. gate'.task /= "control"
        BY <1>0, <2>1, <2>2
  <2> QED BY <2>1, <2>3
<1>5. CASE Harness(r) \/ MonitorFails(r) \/ RequestLost(r) \/ HelperDies(r)
      BY <1>5 DEF Harness, HelperStarts, HarnessCompletes, HarnessInterrupted, HarnessEnds,
         MonitorFails, RequestLost, HelperDies, durable, volatile
<1> QED BY <1>1, <1>2, <1>3, <1>4, <1>5 DEF RunStep

LEMMA ControlNext ==
    ASSUME CoreInv, ControlInv, [Next]_vars
    PROVE  ControlInv'
<1>0. Free.task = "none"
      BY DEF Free
<1>1. ASSUME control' = control, gate' = gate \/ gate'.task /= "control"
      PROVE  ControlInv'
      BY <1>1 DEF ControlInv
<1>2. CASE UNCHANGED vars
      BY <1>1, <1>2 DEF vars, durable, volatile
<1>3. CASE \E t \in Turns : admit(t) \/ Withdraw(t)
      BY <1>1, <1>3 DEF admit, Withdraw, volatile
<1>4. ASSUME NEW r \in Runs, NEW t \in Turns, Installs(r, t)
      PROVE  ControlInv'
      BY <1>1, <1>4 DEF Installs, volatile
<1>5. ASSUME NEW r \in Runs, NEW c \in Controls, NEW kind \in {"interrupt", "stop"},
             RecordControl(c, r, kind)
      PROVE  ControlInv'
  <2>1. control' = [control EXCEPT ![c] = [run |-> r, state |-> "pending"]] /\ gate' = gate
        BY <1>5 DEF RecordControl, volatile
  <2> QED BY <2>1 DEF ControlInv, CoreInv, TypeOK, Gates
<1>6. ASSUME NEW r \in Runs, RunStep(r)
      PROVE  ControlInv'
      BY <1>1, <1>6, RunStepGate
<1>7. ASSUME NEW r \in Runs, Controlled(r)
      PROVE  ControlInv'
      BY <1>7 DEF Controlled, ControlInv, Free, CoreInv, TypeOK, Gates
<1>8. CASE Crash \/ Reboot
      BY <1>0, <1>1, <1>8 DEF Crash, Reboot, Forgotten, durable
<1> QED BY <1>2, <1>3, <1>4, <1>5, <1>6, <1>7, <1>8, NextCases

-----------------------------------------------------------------------------
(* Deliveries.                                                             *)

(* A step that begins neither a Turn nor its delivery for Run s.           *)
Calm(s) ==
    /\ run'[s].turn = run[s].turn /\ (Created(s)' <=> Created(s))
    /\ Unlaunched(s)' => Unlaunched(s)
    /\ Submits(s)' => Submits(s) /\ monitor'[s] = monitor[s]

LEMMA AsideCalm ==
    ASSUME NEW s \in Runs, Aside(s)
    PROVE  Calm(s)
BY DEF Aside, Calm, Created, Unlaunched, Launching, Submits

LEMMA DeliveryCalm ==
    ASSUME DeliveryInv, LaunchInv, Advance, \A s \in Runs : Calm(s), delivered' = delivered
    PROVE  DeliveryInv'
<1>1. \A s \in Runs : Unlaunched(s) => Created(s)
      BY DEF LaunchInv, LaunchOK, Unlaunched, Created
<1>2. \A u \in Turns : Begun(status, u) => Begun(status', u)
      BY DEF Advance
<1>3. \A s \in Runs : Created(s)' => run'[s].turn \in Turns /\ Begun(status', run'[s].turn)
      BY <1>2 DEF DeliveryInv, Calm
<1>4. \A s \in Runs : Unlaunched(s)' => delivered'[run'[s].turn] = 0
      BY <1>1 DEF DeliveryInv, Calm
<1>5. \A r, s \in Runs : Created(r)' /\ Created(s)' /\ run'[r].turn = run'[s].turn => r = s
      BY DEF DeliveryInv, Calm
<1>6. ASSUME NEW r \in Runs, Submits(r)'
      PROVE  /\ monitor'[r].turn \in Turns /\ Begun(status', monitor'[r].turn)
             /\ delivered'[monitor'[r].turn] = 0
             /\ \A s \in Runs : Created(s)' => run'[s].turn /= monitor'[r].turn
             /\ \A s \in Runs : Submits(s)' /\ monitor'[s].turn = monitor'[r].turn => s = r
      BY <1>2, <1>6 DEF DeliveryInv, Calm
<1>7. \A t \in Turns : delivered'[t] > 0 => delivered'[t] = 1 /\ Begun(status', t)
      BY <1>2 DEF DeliveryInv
<1> QED BY <1>3, <1>4, <1>5, <1>6, <1>7 DEF DeliveryInv

LEMMA BoundaryFields ==
    ASSUME TypeOK, NEW r \in Runs, CommitBoundary(r), run[r].partial
    PROVE  /\ run'[r].life = run[r].life /\ run'[r].turn = run[r].turn
           /\ run'[r].request = run[r].request /\ ~run'[r].partial
           /\ UNCHANGED <<queue, status>>
<1>1. PICK n \in RunRows : n = run[r]
      BY DEF TypeOK
<1>2. PICK m : m = [n EXCEPT !.boundary = TRUE, !.partial = FALSE]
      OBVIOUS
<1>3. run'[r] = m /\ UNCHANGED <<queue, status>>
      BY <1>1, <1>2 DEF CommitBoundary, AtSource, TypeOK
<1>4. m.life = n.life /\ m.turn = n.turn /\ m.request = n.request /\ m.partial = FALSE
      BY <1>2 DEF RunRows
<1> QED BY <1>1, <1>3, <1>4

LEMMA RunStepCalm ==
    ASSUME CoreInv, LaunchInv, NEW r \in Runs, RunStep(r),
           ~DispatchTurn(r), ~SubmitTurn(r), ~HelperStarts(r)
    PROVE  Calm(r) /\ delivered' = delivered
<1> /\ run \in [Runs -> RunRows] /\ native \in [Runs -> Helpers] /\ monitor \in [Runs -> Monitors]
    /\ gate \in Gates /\ DOMAIN start = Runs /\ LaunchOK(r)
    BY DEF CoreInv, TypeOK, LaunchInv
<1> USE DEF Calm, Created, Unlaunched, Submits
<1>1. CASE LaunchBegins(r)
      BY <1>1 DEF LaunchBegins, Start, external
<1>2. CASE LaunchSends(r)
      BY <1>2 DEF LaunchSends, Launching, durable, Gates, Helpers
<1>3. CASE LaunchReturns(r)
      BY <1>3 DEF LaunchReturns, Start, Free, Launching, external, Monitors
<1>4. CASE LaunchUnknown(r)
      BY <1>4 DEF LaunchUnknown, Launching, Free, durable, external
<1>5. CASE LaunchReconciles(r)
      BY <1>5 DEF LaunchReconciles, Launching, Start, volatile, external
<1>6. CASE CommitRefused(r)
      BY <1>6 DEF CommitRefused, Launching, Phase, durable, external
<1>8. CASE MonitorFinishes(r)
      BY <1>8 DEF MonitorFinishes, Launching, Phase, durable, Helpers
<1>9. CASE MonitorFails(r)
      BY <1>9 DEF MonitorFails, Launching, Phase, durable, external
<1>10. CASE HarnessCompletes(r)
      BY <1>10 DEF HarnessCompletes, Launching, durable, volatile, Helpers
<1>11. CASE HarnessInterrupted(r)
      BY <1>11 DEF HarnessInterrupted, Launching, durable, volatile, Helpers
<1>12. CASE HarnessEnds(r)
      BY <1>12 DEF HarnessEnds, Launching, durable, volatile, Helpers
<1>13. CASE RequestLost(r)
      BY <1>13 DEF RequestLost, Launching, durable, volatile, Helpers
<1>14. CASE HelperDies(r)
      BY <1>14 DEF HelperDies, Launching, Dies, durable, Helpers, Monitors
<1>15. CASE RecoverUnsafe(r)
      BY <1>15 DEF RecoverUnsafe, Launching, volatile, external
<1>16. CASE ResolveTerminate(r)
      BY <1>16 DEF ResolveTerminate, Dies, Free, Launching, durable, Helpers
<1>17. CASE ResolveSettles(r)
      BY <1>17 DEF ResolveSettles, Free, Launching, external
<1>18. CASE LaunchRefused(r)
  <2>1. Created(r) /\ start[r] = "in_flight"
        BY <1>18, RunOfMonitor DEF LaunchRefused, LaunchOK
  <2>2. run'[r].life /= "none" /\ run'[r].turn = run[r].turn /\ start'[r] /= "pending"
    <3>1. CASE Accepts(r, Supervisor("launch_failed"))
          BY <1>18, <3>1, ObservingSteps DEF LaunchRefused, Recorded, Start
    <3>2. CASE ~Accepts(r, Supervisor("launch_failed"))
          BY <1>18, <2>1, <3>2 DEF LaunchRefused
    <3> QED BY <3>1, <3>2
  <2> QED BY <1>18, <2>1, <2>2 DEF LaunchRefused, Launching, Free, external
<1>19. CASE CommitGroup(r)
  <2>1. Created(r) /\ run'[r].life /= "none" /\ run'[r].turn = run[r].turn
        BY <1>19, CommitGroupStep, RunOfMonitor DEF Recorded, CommitGroup, Reading
  <2> QED BY <1>19, <2>1 DEF CommitGroup, Launching, volatile, external
<1>20. CASE MonitorSettles(r)
  <2>1. Created(r) /\ run'[r].life /= "none" /\ run'[r].turn = run[r].turn
        BY <1>20, ObservingSteps, RunOfMonitor DEF Recorded, MonitorSettles
  <2> QED BY <1>20, <2>1 DEF MonitorSettles, Launching, Phase, external
<1>21. CASE RecoverLost(r)
  <2>1. Created(r) /\ run'[r].life /= "none" /\ run'[r].turn = run[r].turn
        BY <1>21, ObservingSteps DEF Recorded, RecoverLost, Recovering
  <2> QED BY <1>21, <2>1 DEF RecoverLost, Launching, external
<1>22. CASE RecoverUnavailable(r)
  <2>1. Created(r) /\ run'[r].life /= "none" /\ run'[r].turn = run[r].turn
        BY <1>22, ObservingSteps DEF Recorded, RecoverUnavailable, Recovering
  <2> QED BY <1>22, <2>1 DEF RecoverUnavailable, Launching, external
<1>23. CASE CommitBoundary(r)
  <2>1. Created(r)
        BY <1>23, RunOfMonitor DEF CommitBoundary, Reading
  <2>2. run'[r].life /= "none" /\ run'[r].turn = run[r].turn
    <3>1. CASE run[r].partial
      <4>1. TypeOK
            BY DEF CoreInv
      <4>2. run'[r].life = run[r].life /\ run'[r].turn = run[r].turn
            BY <1>23, <3>1, <4>1, BoundaryFields
      <4> QED BY <2>1, <4>2
    <3>2. CASE ~run[r].partial
          BY <1>23, <3>2, CommitBoundaryStep DEF Recorded
    <3> QED BY <3>1, <3>2
  <2>3. monitor'[r].phase /= "submit"
        BY <1>23 DEF CommitBoundary, Phase
  <2> QED BY <1>23, <2>1, <2>2, <2>3 DEF CommitBoundary, Launching
<1>24. CASE RecoverConnects(r) \/ ResolveAdopt(r)
  <2>1. /\ Created(r) /\ native[r].helper = "alive" /\ gate = Free
        /\ start' = start /\ delivered' = delivered
        BY <1>24, RunOfMonitor DEF RecoverConnects, ResolveAdopt, Recovering
  <2>2. gate' = Free \/ gate' = [Free EXCEPT !.task = "resolve", !.run = r]
        BY <1>24, <2>1 DEF RecoverConnects, ResolveAdopt
  <2>3. ~Launching(r)'
    <3>1. Free.task = "none" /\ [Free EXCEPT !.task = "resolve", !.run = r].task = "resolve"
          BY DEF Free
    <3> QED BY <2>2, <3>1 DEF Launching
  <2>4. /\ run'[r].life /= "none" /\ run'[r].turn = run[r].turn
        /\ native'[r].helper /= "requested"
        /\ monitor'[r] = monitor[r] \/ monitor'[r].phase = "read"
    <3>1. CASE native' = [native EXCEPT ![r].helper = "finished"]
               /\ UNCHANGED <<queue, status, run, monitor>>
          BY <2>1, <3>1 DEF Helpers
    <3>2. CASE Recorded(r, "reconnected", "none") /\ Phase(r, "read") /\ UNCHANGED native
          BY <2>1, <3>2 DEF Recorded, Phase
    <3> QED BY <1>24, <3>1, <3>2, ObservingSteps
  <2> QED BY <2>1, <2>3, <2>4
<1> QED BY <1>1, <1>2, <1>3, <1>4, <1>5, <1>6, <1>8, <1>9, <1>10, <1>11, <1>12, <1>13, <1>14, <1>15, <1>16, <1>17, <1>18, <1>19, <1>20, <1>21, <1>22, <1>23, <1>24
         DEF RunStep, Launch, LaunchGoesOn, Monitor, Recover, Resolve, Harness

LEMMA DeliveryHelper ==
    ASSUME CoreInv, LaunchInv, DeliveryInv, Advance, NEW r \in Runs, HelperStarts(r)
    PROVE  DeliveryInv'
<1>1. /\ native \in [Runs -> Helpers] /\ delivered \in [Turns -> Nat] /\ LaunchOK(r)
      /\ native[r].helper = "requested" /\ UNCHANGED <<run, start, monitor, gate, status>>
      BY DEF CoreInv, TypeOK, LaunchInv, HelperStarts, durable, volatile
<1>2. native'[r].helper = "alive" /\ \A s \in Runs : s /= r => native'[s] = native[s]
      BY <1>1 DEF HelperStarts, Helpers
<1>3. ~Unlaunched(r)' /\ \A s \in Runs : Unlaunched(s)' => Unlaunched(s)
      BY <1>1, <1>2 DEF Unlaunched, LaunchOK, Launching
<1>4. CASE delivered' = delivered
  <2>1. \A s \in Runs : Calm(s)
        BY <1>1, <1>3 DEF Calm, Created, Submits
  <2> QED BY <1>4, <2>1, DeliveryCalm
<1>5. CASE delivered' /= delivered
  <2>1. PICK t : t = run[r].turn
        OBVIOUS
  <2>2. Created(r) /\ t \in Turns /\ Begun(status, t) /\ delivered[t] = 0
        BY <1>1, <2>1, RunOfMonitor DEF DeliveryInv, Unlaunched
  <2>3. delivered'[t] = 1 /\ \A u \in Turns : u /= t => delivered'[u] = delivered[u]
        BY <1>1, <1>5, <2>1, <2>2 DEF HelperStarts
  <2>4. \A s \in Runs : Unlaunched(s) => Created(s)
        BY DEF LaunchInv, LaunchOK, Unlaunched, Created
  <2>5. \A s \in Runs : Unlaunched(s)' => delivered'[run'[s].turn] = 0
        BY <1>1, <1>3, <2>1, <2>2, <2>3, <2>4 DEF DeliveryInv
  <2>6. \A u \in Turns : delivered'[u] > 0 => delivered'[u] = 1 /\ Begun(status', u)
        BY <1>1, <2>2, <2>3 DEF DeliveryInv
  <2>7. \A s \in Runs : (Created(s)' <=> Created(s)) /\ (Submits(s)' <=> Submits(s))
        BY <1>1 DEF Created, Submits
  <2>8. \A s \in Runs : Submits(s) => monitor[s].turn /= t
        BY <2>1, <2>2 DEF DeliveryInv
  <2>9. \A s \in Runs : Submits(s) => delivered'[monitor[s].turn] = 0
        BY <2>3, <2>8 DEF DeliveryInv
  <2> QED BY <1>1, <2>5, <2>6, <2>7, <2>9 DEF DeliveryInv
<1> QED BY <1>4, <1>5

LEMMA DeliverySubmit ==
    ASSUME CoreInv, LaunchInv, DeliveryInv, Advance, NEW r \in Runs, SubmitTurn(r)
    PROVE  DeliveryInv'
<1>1. /\ native \in [Runs -> Helpers] /\ delivered \in [Turns -> Nat] /\ LaunchOK(r)
      /\ monitor \in [Runs -> Monitors]
      /\ Submits(r) /\ UNCHANGED <<run, start, gate, status>>
      BY DEF CoreInv, TypeOK, LaunchInv, SubmitTurn, Submits, durable
<1>2. \A s \in Runs : native'[s].helper = native[s].helper
      BY <1>1 DEF SubmitTurn, Deliver, Helpers
<1>3. ~Submits(r)' /\ \A s \in Runs : s /= r => monitor'[s] = monitor[s]
      BY <1>1 DEF SubmitTurn, Phase, Submits
<1>4. \A s \in Runs : Calm(s)
      BY <1>1, <1>2, <1>3 DEF Calm, Created, Unlaunched, Launching, Submits
<1>5. CASE delivered' = delivered
      BY <1>4, <1>5, DeliveryCalm
<1>6. CASE delivered' /= delivered
  <2>1. PICK t : t = monitor[r].turn
        OBVIOUS
  <2>2. t \in Turns /\ Begun(status, t) /\ delivered[t] = 0
        BY <1>1, <2>1 DEF DeliveryInv
  <2>3. delivered'[t] = 1 /\ \A u \in Turns : u /= t => delivered'[u] = delivered[u]
        BY <1>1, <1>6, <2>1, <2>2 DEF SubmitTurn, Deliver
  <2>4. \A s \in Runs : Created(s) => run[s].turn /= t
        BY <1>1, <2>1 DEF DeliveryInv
  <2>5. \A s \in Runs : Unlaunched(s)' => delivered'[run'[s].turn] = 0
    <3>1. \A s \in Runs : Unlaunched(s) => Created(s)
          BY DEF LaunchInv, LaunchOK, Unlaunched, Created
    <3> QED BY <1>1, <1>4, <2>3, <2>4, <3>1 DEF DeliveryInv, Calm
  <2>6. \A u \in Turns : delivered'[u] > 0 => delivered'[u] = 1 /\ Begun(status', u)
        BY <1>1, <2>2, <2>3 DEF DeliveryInv
  <2>7. \A s \in Runs : (Created(s)' <=> Created(s)) /\ (Submits(s)' => Submits(s) /\ s /= r)
        BY <1>3, <1>4 DEF Calm
  <2>8. \A s \in Runs : Submits(s) /\ s /= r => monitor[s].turn /= t
        BY <1>1, <2>1 DEF DeliveryInv
  <2>9. \A s \in Runs : Submits(s)' => delivered'[monitor[s].turn] = 0 /\ monitor'[s] = monitor[s]
        BY <1>3, <2>3, <2>7, <2>8 DEF DeliveryInv
  <2> QED BY <1>1, <2>5, <2>6, <2>7, <2>9 DEF DeliveryInv
<1> QED BY <1>5, <1>6

LEMMA DeliveryClaim ==
    ASSUME CoreInv, LaunchInv, DeliveryInv, NEW r \in Runs, NEW t \in Turns,
           Installs(r, t) \/ Dispatches(r, t)
    PROVE  DeliveryInv'
<1>1. /\ delivered \in [Turns -> Nat] /\ monitor \in [Runs -> Monitors] /\ DOMAIN start = Runs
      /\ LaunchOK(r)
      BY DEF CoreInv, TypeOK, LaunchInv
<1>2. /\ UNCHANGED <<delivered, native, gate>> /\ Advance /\ ~Begun(status, t) /\ Begun(status', t)
      BY DEF Installs, Dispatches, volatile, external
<1>3. delivered[t] = 0 /\ \A u \in Turns : Begun(status, u) => u /= t /\ Begun(status', u)
      BY <1>1, <1>2 DEF DeliveryInv, Advance
<1>4. \A u \in Turns : delivered'[u] > 0 => delivered'[u] = 1 /\ Begun(status', u)
      BY <1>2, <1>3 DEF DeliveryInv
<1>5. \A s \in Runs : Unlaunched(s) => Created(s)
      BY DEF LaunchInv, LaunchOK, Unlaunched, Created
<1>6. CASE Installs(r, t)
  <2>1. /\ run'[r].turn = t /\ Created(r)' /\ ~Created(r) /\ start'[r] = "pending" /\ monitor' = monitor
        /\ \A s \in Runs : s /= r => run'[s] = run[s] /\ start'[s] = start[s]
        BY <1>1, <1>6 DEF Installs, Created, volatile
  <2>2. \A s \in Runs : s /= r => (Created(s)' <=> Created(s)) /\ (Unlaunched(s)' <=> Unlaunched(s))
        BY <1>2, <2>1 DEF Created, Unlaunched, Launching
  <2>3. \A s \in Runs : Submits(s)' <=> Submits(s)
        BY <2>1 DEF Submits
  <2>4. \A s \in Runs : Created(s)' => /\ run'[s].turn \in Turns /\ Begun(status', run'[s].turn)
                                       /\ s /= r => run'[s].turn /= t
        BY <1>2, <1>3, <2>1, <2>2 DEF DeliveryInv
  <2>5. \A p, s \in Runs : Created(p)' /\ Created(s)' /\ run'[p].turn = run'[s].turn => p = s
    <3>1. \A p, s \in Runs : p /= r /\ s /= r /\ Created(p)' /\ Created(s)' /\ run'[p].turn = run'[s].turn => p = s
          BY <2>1, <2>2 DEF DeliveryInv
    <3> QED BY <2>1, <2>4, <3>1
  <2>6. \A s \in Runs : Unlaunched(s)' => delivered'[run'[s].turn] = 0
        BY <1>2, <1>3, <1>5, <2>1, <2>2 DEF DeliveryInv
  <2>7. ASSUME NEW p \in Runs, Submits(p)'
        PROVE  /\ monitor'[p].turn \in Turns /\ Begun(status', monitor'[p].turn)
               /\ delivered'[monitor'[p].turn] = 0
               /\ \A s \in Runs : Created(s)' => run'[s].turn /= monitor'[p].turn
               /\ \A s \in Runs : Submits(s)' /\ monitor'[s].turn = monitor'[p].turn => s = p
        BY <1>2, <1>3, <2>1, <2>2, <2>3, <2>7 DEF DeliveryInv
  <2> QED BY <1>4, <2>4, <2>5, <2>6, <2>7 DEF DeliveryInv
<1>7. CASE Dispatches(r, t)
  <2>1. /\ run' = run /\ start' = start /\ monitor'[r].turn = t
        /\ \A s \in Runs : s /= r => monitor'[s] = monitor[s]
        BY <1>1, <1>7 DEF Dispatches
  <2>2. \A s \in Runs : (Created(s)' <=> Created(s)) /\ (Unlaunched(s)' <=> Unlaunched(s))
        BY <1>2, <2>1 DEF Created, Unlaunched, Launching
  <2>3. \A s \in Runs : s /= r => (Submits(s)' <=> Submits(s))
        BY <2>1 DEF Submits
  <2>4. \A s \in Runs : Created(s)' => /\ run'[s].turn \in Turns /\ Begun(status', run'[s].turn)
                                       /\ run'[s].turn /= t
        BY <1>3, <2>1, <2>2 DEF DeliveryInv
  <2>5. \A p, s \in Runs : Created(p)' /\ Created(s)' /\ run'[p].turn = run'[s].turn => p = s
        BY <2>1, <2>2 DEF DeliveryInv
  <2>6. \A s \in Runs : Unlaunched(s)' => delivered'[run'[s].turn] = 0
        BY <1>2, <2>1, <2>2 DEF DeliveryInv
  <2>7. \A s \in Runs : s /= r /\ Submits(s) => /\ monitor[s].turn /= t /\ monitor[s].turn \in Turns
                                                /\ Begun(status', monitor[s].turn)
        BY <1>3 DEF DeliveryInv
  <2>8. ASSUME NEW p \in Runs, Submits(p)'
        PROVE  /\ monitor'[p].turn \in Turns /\ Begun(status', monitor'[p].turn)
               /\ delivered'[monitor'[p].turn] = 0
               /\ \A s \in Runs : Created(s)' => run'[s].turn /= monitor'[p].turn
               /\ \A s \in Runs : Submits(s)' /\ monitor'[s].turn = monitor'[p].turn => s = p
    <3>1. CASE p = r
          BY <1>2, <1>3, <2>1, <2>3, <2>4, <2>7, <3>1
    <3>2. CASE p /= r
          BY <1>2, <2>1, <2>2, <2>3, <2>7, <2>8, <3>2 DEF DeliveryInv
    <3> QED BY <3>1, <3>2
  <2> QED BY <1>4, <2>4, <2>5, <2>6, <2>8 DEF DeliveryInv
<1> QED BY <1>6, <1>7


LEMMA DeliveryNext ==
    ASSUME CoreInv, ControlInv, LaunchInv, DeliveryInv, [Next]_vars
    PROVE  DeliveryInv'
<1>0. Advance
      BY CoreNext
<1>1. ASSUME \A s \in Runs : Calm(s), delivered' = delivered
      PROVE  DeliveryInv'
      BY <1>0, <1>1, DeliveryCalm
<1>2. CASE UNCHANGED vars
  <2>1. \A s \in Runs : Calm(s)
        BY <1>2 DEF Calm, Created, Unlaunched, Launching, Submits, vars, durable, volatile, external
  <2> QED BY <1>1, <1>2, <2>1 DEF vars, external
<1>3. CASE \E t \in Turns : admit(t) \/ Withdraw(t)
  <2>1. \A s \in Runs : Calm(s)
        BY <1>3, CommandAside, AsideCalm
  <2> QED BY <1>1, <1>3, <2>1 DEF admit, Withdraw, external
<1>4. ASSUME NEW r \in Runs, NEW t \in Turns, Installs(r, t)
      PROVE  DeliveryInv'
      BY <1>4, DeliveryClaim
<1>5. ASSUME NEW r \in Runs, NEW c \in Controls, NEW kind \in {"interrupt", "stop"},
             RecordControl(c, r, kind)
      PROVE  DeliveryInv'
  <2>1. Calm(r)
    <3>1. Requested(r) /\ UNCHANGED <<start, gate, monitor, native>>
          BY <1>5, RecordControlStep DEF RecordControl, volatile, external
    <3> QED BY <3>1 DEF Requested, Calm, Created, Unlaunched, Launching, Submits, executing
  <2>2. \A s \in Runs : s /= r => Calm(s)
        BY <1>5, CommandAside, AsideCalm
  <2> QED BY <1>1, <1>5, <2>1, <2>2 DEF RecordControl, external
<1>6. ASSUME NEW r \in Runs, RunStep(r)
      PROVE  DeliveryInv'
  <2>1. CASE DispatchTurn(r)
        BY <2>1, DispatchStep, DeliveryClaim
  <2>2. CASE SubmitTurn(r)
        BY <1>0, <2>2, DeliverySubmit
  <2>3. CASE HelperStarts(r)
        BY <1>0, <2>3, DeliveryHelper
  <2>4. CASE ~DispatchTurn(r) /\ ~SubmitTurn(r) /\ ~HelperStarts(r)
    <3>1. Calm(r) /\ delivered' = delivered
          BY <1>6, <2>4, RunStepCalm
    <3>2. \A s \in Runs : s /= r => Calm(s)
          BY <1>6, RunStepAside, AsideCalm
    <3> QED BY <1>1, <3>1, <3>2
  <2> QED BY <2>1, <2>2, <2>3, <2>4
<1>7. ASSUME NEW r \in Runs, Controlled(r), \A s \in Runs : s /= r => Aside(s)
      PROVE  DeliveryInv'
  <2>1. delivered' = delivered
        BY <1>7 DEF Controlled
  <2>2. Launching(r)' => Launching(r) /\ gate' = gate
        BY <1>7 DEF Controlled, Launching, Free
  <2>3. monitor'[r] = monitor[r] \/ monitor'[r].phase = "failing"
        BY <1>7 DEF Controlled
  <2>4. Calm(r)
        BY <1>7, <2>2, <2>3 DEF Controlled, Calm, Created, Unlaunched, Submits
  <2> QED BY <1>1, <1>7, <2>1, <2>4, AsideCalm
<1>8. CASE Crash
  <2>1. \A s \in Runs : Calm(s)
        BY <1>8 DEF Crash, Forgotten, Calm, Created, Unlaunched, Launching, Submits, Free, NoMonitor,
           durable, external
  <2> QED BY <1>1, <1>8, <2>1 DEF Crash, external
<1>9. CASE Reboot
  <2>1. /\ delivered' = delivered /\ run' = run /\ start' = start
        /\ \A s \in Runs : /\ native'[s].helper /= "requested"
                           /\ monitor'[s].phase = "none" /\ gate'.task = "none"
        BY <1>9, RebootStep DEF Reboot, Restarted, Forgotten, Free, NoMonitor, durable, CoreInv
  <2>2. \A s \in Runs : Calm(s)
        BY <2>1 DEF Calm, Created, Unlaunched, Launching, Submits
  <2> QED BY <1>1, <2>1, <2>2
<1> QED BY <1>2, <1>3, <1>4, <1>5, <1>6, <1>7, <1>8, <1>9, NextCases

-----------------------------------------------------------------------------
(* Who owns the queue, and what reaches a Harness.                         *)

SafeInv == CoreInv /\ ControlInv /\ LaunchInv /\ DeliveryInv

LEMMA InitSafe ==
    ASSUME Init
    PROVE  SafeInv
<1> USE DEF Init
<1>1. /\ \A r \in Runs : run[r] = NewRun /\ start[r] = "none" /\ monitor[r] = NoMonitor
                         /\ native[r] = NoHelper /\ spool[r] = <<>>
      /\ gate = Free /\ queue = <<>>
      OBVIOUS
<1>2. TypeOK
  <2>1. NewRun \in RunRows /\ NoHelper \in Helpers /\ NoMonitor \in Monitors
        BY DEF NewRun, RunRows, NoHelper, Helpers, NoMonitor, Monitors, MaybeTurn, Requests
  <2> QED BY <2>1, RunAssumption DEF TypeOK, Gates, Effects, Statuses
<1>3. QueueOK(queue, status)
      BY DEF QueueOK, Claims
<1>4. OwnerInv
      BY <1>1 DEF OwnerInv, Live, NewRun, Holds, Owned
<1>5. ControlInv
      BY DEF ControlInv, Free
<1>6. LaunchInv
      BY <1>1 DEF LaunchInv, LaunchOK, Launching, NewRun, NoMonitor, NoHelper, Free
<1>7. DeliveryInv
  <2>1. \A r \in Runs : ~Created(r) /\ ~Submits(r) /\ ~Unlaunched(r)
        BY <1>1 DEF Created, Submits, Unlaunched, Launching, NewRun, NoMonitor, NoHelper, Free
  <2>2. \A t \in Turns : delivered[t] = 0
        OBVIOUS
  <2> QED BY <2>1, <2>2 DEF DeliveryInv
<1> QED BY <1>2, <1>3, <1>4, <1>5, <1>6, <1>7 DEF SafeInv, CoreInv

LEMMA SafeNext ==
    ASSUME SafeInv, [Next]_vars
    PROVE  SafeInv'
BY CoreNext, ControlNext, LaunchNext, DeliveryNext DEF SafeInv

LEMMA AlwaysSafe == Spec => []SafeInv
<1>1. Init => SafeInv
      BY InitSafe
<1>2. SafeInv /\ [Next]_vars => SafeInv'
      BY SafeNext
<1> QED BY <1>1, <1>2, PTL DEF Spec

(* Every variable of the Runs, their queue, their Effects and their        *)
(* helpers keeps its type.                                                 *)
THEOREM TypeCorrect == Spec => []TypeOK
<1>1. SafeInv => TypeOK
      BY DEF SafeInv, CoreInv
<1> QED BY <1>1, AlwaysSafe, PTL

(* create_run, the claims of the queue and their settlement: one Run of a  *)
(* Conversation is live, and a claim is at the head of the queue and       *)
(* belongs to that Run, whatever crashes, dies or restarts in between.     *)
THEOREM OneLiveOwner == Spec => []OneOwner
<1>1. SafeInv => OneOwner
  <2> SUFFICES ASSUME SafeInv
               PROVE  OneOwner
      OBVIOUS
  <2>1. OwnerInv /\ QueueOK(queue, status) /\ status \in [Turns -> Statuses]
        BY DEF SafeInv, CoreInv, TypeOK
  <2>2. ASSUME NEW i \in DOMAIN queue, queue[i].state \in Claims
        PROVE  i = 1 /\ queue[i].run # NoRun /\ Live(queue[i].run)
    <3>1. i = 1 /\ queue[i].run \in Runs /\ Holds(queue, queue[i].run, queue[i].turn)
          BY <2>1, <2>2, ClaimIsHeld
    <3> QED BY <2>1, <3>1, QueueAssumption DEF OwnerInv
  <2> QED BY <2>1, <2>2 DEF OwnerInv, OneOwner
<1> QED BY <1>1, AlwaysSafe, PTL

(* The launch Effect, dispatch_turn and the monitor: a Turn reaches a      *)
(* Harness at most once and only under a claim, although launches are      *)
(* reconciled, monitors fail and Runs are recovered.                       *)
THEOREM AtMostOneDelivery == Spec => []DeliveredOnce
<1>1. SafeInv => DeliveredOnce
      BY DEF SafeInv, DeliveryInv, DeliveredOnce, Begun
<1> QED BY <1>1, AlwaysSafe, PTL

(* The projection of observations: no later observation, request or        *)
(* recovery changes how a Run ended.                                       *)
THEOREM EndsAreFinal == Spec => EndIsFinal
<1>1. ASSUME SafeInv, [Next]_vars
      PROVE  [\A r \in Runs : is_terminal(run[r].life) => run'[r].life = run[r].life]_vars
  <2>1. SUFFICES ASSUME NEW r \in Runs, is_terminal(run[r].life)
                 PROVE  run'[r].life = run[r].life
        OBVIOUS
  <2>2. Kinds
        BY <1>1, StepKinds DEF SafeInv
  <2>3. CASE Quiet
        BY <2>3 DEF Quiet
  <2>4. CASE \E t \in Turns : admit(t) \/ Withdraw(t)
        BY <2>4 DEF admit, Withdraw
  <2>5. ASSUME NEW p \in Runs, NEW t \in Turns, Installs(p, t) \/ Dispatches(p, t)
        PROVE  run'[r].life = run[r].life
        BY <2>1, <2>5 DEF Installs, Dispatches, is_terminal, Terminal
  <2>6. ASSUME NEW p \in Runs, Requested(p)
        PROVE  run'[r].life = run[r].life
        BY <2>1, <2>6 DEF Requested, executing, is_terminal, Terminal
  <2>7. ASSUME NEW p \in Runs, NEW kind, NEW boundary, Recorded(p, kind, boundary)
        PROVE  run'[r].life = run[r].life
        BY <2>1, <2>7 DEF Recorded
  <2> QED BY <2>2, <2>3, <2>4, <2>5, <2>6, <2>7 DEF Kinds
<1> QED BY <1>1, AlwaysSafe, PTL DEF Spec, EndIsFinal


-----------------------------------------------------------------------------
(* Lost Runs.                                                              *)

LEMMA DeadStays ==
    ASSUME CoreInv, LaunchInv, NEW r \in Runs, RunStep(r)
    PROVE  /\ native'[r].stale = native[r].stale
           /\ native[r].helper \in {"dead", "finished"} => native'[r].helper \in {"dead", "finished"}
<1>1. native \in [Runs -> Helpers] /\ LaunchOK(r)
      BY DEF CoreInv, TypeOK, LaunchInv
<1>2. CASE Launch(r)
      BY <1>1, <1>2 DEF Launch, LaunchGoesOn, LaunchBegins, LaunchRefused, LaunchSends, LaunchReturns, LaunchUnknown,
         LaunchReconciles, LaunchOK, Helpers, external
<1>3. CASE Monitor(r)
      BY <1>1, <1>3 DEF Monitor, CommitGroup, CommitBoundary, CommitRefused, DispatchTurn, SubmitTurn,
         Deliver, MonitorFinishes, MonitorSettles, Helpers, external
<1>4. CASE Recover(r) \/ Resolve(r) \/ ResolveSettles(r)
      BY <1>1, <1>4 DEF Recover, Resolve, RecoverLost, RecoverUnsafe, RecoverConnects, Reconnect, Dies,
         RecoverUnavailable, ResolveAdopt, ResolveTerminate, ResolveSettles, Helpers, external
<1>5. CASE Harness(r)
      BY <1>1, <1>5 DEF Harness, HelperStarts, HarnessCompletes, HarnessInterrupted, HarnessEnds, Works,
         Helpers
<1>6. CASE MonitorFails(r) \/ RequestLost(r) \/ HelperDies(r)
      BY <1>1, <1>6 DEF MonitorFails, RequestLost, HelperDies, Dies, Helpers, external
<1> QED BY <1>2, <1>3, <1>4, <1>5, <1>6 DEF RunStep

LEMMA LostByRecovery ==
    ASSUME CoreInv, LaunchInv, NEW r \in Runs, RunStep(r), run'[r].life = "lost"
    PROVE  run[r].life = "lost" \/ (Gone(r) /\ native' = native)
<1>1. TypeOK
      BY DEF CoreInv
<1>2. ASSUME NEW kind, NEW boundary, Recorded(r, kind, boundary), kind /= "lost"
      PROVE  run[r].life = "lost"
      BY <1>2 DEF Recorded
<1>3. CASE run'[r] = run[r]
      BY <1>3
<1>4. CASE LaunchRefused(r)
      BY <1>2, <1>3, <1>4, ObservingSteps DEF LaunchRefused
<1>5. ASSUME spool[r] /= <<>>
      PROVE  Heard(r).kind /= "lost"
      BY <1>1, <1>5, HeardSeen
<1>6. CASE CommitGroup(r)
      BY <1>2, <1>5, <1>6, CommitGroupStep DEF CommitGroup, Reading
<1>7. CASE CommitBoundary(r)
  <2>1. CASE run[r].partial
        BY <1>1, <1>7, <2>1, BoundaryFields
  <2>2. CASE ~run[r].partial
        BY <1>2, <1>5, <1>7, <2>2, CommitBoundaryStep DEF CommitBoundary, Reading
  <2> QED BY <2>1, <2>2
<1>8. CASE MonitorSettles(r) \/ RecoverUnavailable(r) \/ RecoverConnects(r) \/ ResolveAdopt(r)
      BY <1>2, <1>3, <1>8, ObservingSteps
<1>9. CASE RecoverLost(r)
      BY <1>9 DEF RecoverLost, external
<1>10. CASE /\ ~LaunchRefused(r) /\ ~CommitGroup(r) /\ ~CommitBoundary(r) /\ ~MonitorSettles(r)
            /\ ~RecoverUnavailable(r) /\ ~RecoverConnects(r) /\ ~ResolveAdopt(r) /\ ~RecoverLost(r)
  <2>1. run' = run
        BY <1>10 DEF RunStep, Launch, LaunchGoesOn, LaunchBegins, LaunchSends, LaunchReturns, LaunchUnknown,
           LaunchReconciles, Monitor, CommitRefused, DispatchTurn, SubmitTurn, MonitorFinishes,
           Recover, Resolve, RecoverUnsafe, ResolveTerminate, ResolveSettles, Harness, HelperStarts,
           HarnessCompletes, HarnessInterrupted, HarnessEnds, MonitorFails, RequestLost, HelperDies, durable
  <2> QED BY <1>3, <2>1
<1> QED BY <1>4, <1>6, <1>7, <1>8, <1>9, <1>10

LEMMA DeathNext ==
    ASSUME SafeInv, DeathInv, MaxReboots = 0, [Next]_vars
    PROVE  DeathInv'
<1> CoreInv /\ ControlInv /\ LaunchInv /\ native \in [Runs -> Helpers]
    BY DEF SafeInv, CoreInv, TypeOK
<1> DEFINE Dead(s) == /\ ~native[s].stale
                      /\ run[s].life = "lost" => native[s].helper \in {"dead", "finished"}
<1> SUFFICES ASSUME NEW s \in Runs
             PROVE  Dead(s)'
    BY DEF DeathInv
<1>0. Dead(s)
      BY DEF DeathInv
<1>1. ASSUME Aside(s)
      PROVE  Dead(s)'
      BY <1>0, <1>1 DEF Aside
<1>2. CASE UNCHANGED vars \/ Crash
      BY <1>0, <1>2 DEF Crash, vars, durable, external
<1>3. CASE \E t \in Turns : admit(t) \/ Withdraw(t)
      BY <1>1, <1>3, CommandAside
<1>4. ASSUME NEW r \in Runs, NEW t \in Turns, Installs(r, t)
      PROVE  Dead(s)'
  <2>1. CASE s = r
        BY <1>0, <1>4, <2>1 DEF Installs, external
  <2> QED BY <1>1, <1>4, <2>1, CommandAside
<1>5. ASSUME NEW r \in Runs, NEW c \in Controls, NEW kind \in {"interrupt", "stop"},
             RecordControl(c, r, kind)
      PROVE  Dead(s)'
  <2>1. CASE s = r
    <3>1. run'[s].life /= "lost" /\ native' = native
          BY <1>5, <2>1, RecordControlStep DEF Requested, executing, RecordControl, external
    <3> QED BY <1>0, <3>1
  <2> QED BY <1>1, <1>5, <2>1, CommandAside
<1>6. ASSUME NEW r \in Runs, RunStep(r)
      PROVE  Dead(s)'
  <2>1. CASE s = r
    <3>1. ~native'[s].stale
          BY <1>0, <1>6, <2>1, DeadStays
    <3>2. ASSUME run'[s].life = "lost"
          PROVE  native'[s].helper \in {"dead", "finished"}
      <4>1. CASE run[s].life = "lost"
            BY <1>0, <1>6, <2>1, <4>1, DeadStays
      <4>2. CASE Gone(s) /\ native' = native
            BY <1>0, <4>2 DEF Gone
      <4> QED BY <1>6, <2>1, <3>2, <4>1, <4>2, LostByRecovery
    <3> QED BY <3>1, <3>2
  <2> QED BY <1>1, <1>6, <2>1, RunStepAside
<1>7. ASSUME NEW r \in Runs, Controlled(r), \A p \in Runs : p /= r => Aside(p)
      PROVE  Dead(s)'
  <2>1. CASE s = r
        BY <1>0, <1>7, <2>1 DEF Controlled
  <2> QED BY <1>1, <1>7, <2>1
<1>8. ~Reboot
  <2>1. reboots \in 0..MaxReboots
        BY DEF CoreInv, TypeOK
  <2> QED BY <2>1 DEF Reboot
<1> QED BY <1>2, <1>3, <1>4, <1>5, <1>6, <1>7, <1>8, NextCases

(* recover_runs marks a Run as lost only on proof of death, so that while  *)
(* the operating system is not restarted no helper of a lost Run is there  *)
(* to work beside the next Run.                                            *)
THEOREM LostRunsAreDead == MaxReboots = 0 => (Spec => []LostIsDead)
<1> SUFFICES ASSUME MaxReboots = 0
             PROVE  Spec => []LostIsDead
    OBVIOUS
<1>1. Init => SafeInv /\ DeathInv
      BY InitSafe DEF Init, DeathInv, NewRun, NoHelper
<1>2. SafeInv /\ DeathInv /\ [Next]_vars => SafeInv' /\ DeathInv'
      BY SafeNext, DeathNext
<1>3. DeathInv => LostIsDead
      BY DEF DeathInv, LostIsDead
<1> QED BY <1>1, <1>2, <1>3, PTL DEF Spec


-----------------------------------------------------------------------------
(* Who answers for a claim.                                                *)

(* What a step of Run r is to the queue.                                   *)
LEMMA RunStepQueue ==
    ASSUME CoreInv, LaunchInv, NEW r \in Runs, RunStep(r)
    PROVE  \/ UNCHANGED <<queue, status>>
           \/ \E kind, boundary : Recorded(r, kind, boundary)
           \/ \E t \in Turns : Dispatches(r, t)
<1>1. CASE LaunchRefused(r)
      BY <1>1, ObservingSteps DEF LaunchRefused
<1>2. CASE CommitGroup(r)
      BY <1>2, CommitGroupStep
<1>3. CASE CommitBoundary(r)
      BY <1>3, CommitBoundaryStep DEF CommitBoundary
<1>4. CASE MonitorSettles(r) \/ RecoverUnavailable(r) \/ RecoverLost(r)
      BY <1>4, ObservingSteps
<1>5. CASE RecoverConnects(r) \/ ResolveAdopt(r)
      BY <1>5, ObservingSteps
<1>6. CASE DispatchTurn(r)
      BY <1>6, DispatchStep
<1>7. CASE /\ ~LaunchRefused(r) /\ ~CommitGroup(r) /\ ~CommitBoundary(r) /\ ~MonitorSettles(r)
           /\ ~RecoverUnavailable(r) /\ ~RecoverConnects(r) /\ ~ResolveAdopt(r) /\ ~RecoverLost(r)
           /\ ~DispatchTurn(r)
      BY <1>7 DEF RunStep, Launch, LaunchGoesOn, LaunchBegins, LaunchSends, LaunchReturns, LaunchUnknown,
         LaunchReconciles, Monitor, CommitRefused, SubmitTurn, MonitorFinishes,
         Recover, Resolve, RecoverUnsafe, ResolveTerminate, ResolveSettles, Harness, HelperStarts,
         HarnessCompletes, HarnessInterrupted, HarnessEnds, MonitorFails, RequestLost, HelperDies, durable
<1> QED BY <1>1, <1>2, <1>3, <1>4, <1>5, <1>6, <1>7

LEMMA HoldsAside ==
    ASSUME CoreInv, LaunchInv, NEW r \in Runs, RunStep(r), NEW s \in Runs, s /= r, Live(s)
    PROVE  \A u : Holds(queue, s, u) => Holds(queue', s, u)
<1>1. ASSUME NEW t \in Turns, Dispatches(r, t)
      PROVE  FALSE
  <2>1. Live(r)
        BY <1>1 DEF Dispatches, Live, Terminal
  <2> QED BY <2>1 DEF CoreInv, OwnerInv
<1>2. ASSUME NEW kind, NEW boundary, Recorded(r, kind, boundary)
      PROVE  \A u : Holds(queue, s, u) => Holds(queue', s, u)
      BY <1>2 DEF Recorded
<1> QED BY <1>1, <1>2, RunStepQueue

(* Nothing of Run s begins, and none of its observations is added.         *)
LEMMA WorkKept ==
    ASSUME NEW s \in Runs, WorkOK(s), Calm(s), \A u : Holds(queue, s, u) => Holds(queue', s, u),
           Busy(s)' => Busy(s) /\ native'[s].working = native[s].working,
           Ends(s)' \subseteq Ends(s), spool'[s] = spool[s] \/ spool'[s] = <<>>
    PROVE  WorkOK(s)'
<1>1. Unlaunched(s)' => Holds(queue', s, run'[s].turn)
      BY DEF Calm, WorkOK
<1>2. Busy(s)' => Holds(queue', s, native'[s].working)
      BY DEF WorkOK
<1>3. Submits(s)' => Holds(queue', s, monitor'[s].turn) /\ ~Busy(s)'
      BY DEF Calm, WorkOK
<1>4. ASSUME NEW k \in Ends(s)'
      PROVE  Holds(queue', s, spool'[s][k].turn) /\ ~Busy(s)' /\ ~Submits(s)'
  <2>1. spool'[s] = spool[s]
        BY <1>4 DEF Ends
  <2> QED BY <1>4, <2>1 DEF WorkOK, Calm
<1>5. \A k, m \in Ends(s)' : k = m
      BY DEF WorkOK
<1> QED BY <1>1, <1>2, <1>3, <1>4, <1>5 DEF WorkOK

LEMMA EndsKept ==
    ASSUME NEW s \in Runs, (spool'[s] = spool[s] /\ (run[s].partial => run'[s].partial)) \/ spool'[s] = <<>>
    PROVE  Ends(s)' \subseteq Ends(s) /\ (spool'[s] = spool[s] \/ spool'[s] = <<>>)
BY DEF Ends

LEMMA WorkAside ==
    ASSUME NEW s \in Runs, WorkOK(s), Aside(s), \A u : Holds(queue, s, u) => Holds(queue', s, u)
    PROVE  WorkOK(s)'
<1>1. Calm(s)
      BY AsideCalm
<1>2. Busy(s)' => Busy(s) /\ native'[s].working = native[s].working
      BY DEF Aside, Busy, Works
<1>3. Ends(s)' \subseteq Ends(s) /\ spool'[s] = spool[s]
      BY EndsKept DEF Aside
<1> QED BY <1>1, <1>2, <1>3, WorkKept


(* A monitor means that the Turn of the Run has been launched.             *)
LEMMA MonitorLaunched ==
    ASSUME LaunchInv, NEW r \in Runs, monitor[r].phase /= "none" \/ native[r].helper = "alive"
    PROVE  ~Unlaunched(r)
BY DEF LaunchInv, LaunchOK, Unlaunched

LEMMA WorkCommit ==
    ASSUME CoreInv, LaunchInv, NEW r \in Runs, CommitGroup(r) \/ CommitBoundary(r), WorkOK(r),
           Calm(r), Live(r)'
    PROVE  WorkOK(r)'
<1> DEFINE obs == Head(spool[r])
           ending == ~run[r].partial /\ obs.kind \in {"turn_completed", "interrupted"}
<1>1. /\ spool[r] \in Seq(Observations) /\ spool[r] /= <<>> /\ monitor[r].phase = "read"
      /\ spool \in [Runs -> Seq(Observations)]
      BY DEF CoreInv, TypeOK, CommitGroup, CommitBoundary, Reading
<1>2. 1 \in DOMAIN spool[r] /\ spool[r][1] = obs
      BY <1>1
<1>3. ending => 1 \in Ends(r)
      BY <1>2 DEF Ends
<1>4. ~Unlaunched(r)'
      BY <1>1, MonitorLaunched DEF Calm
<1>5. Busy(r)' <=> Busy(r)
      BY DEF CommitGroup, CommitBoundary, Busy, Works, external
<1>6. native' = native
      BY DEF CommitGroup, CommitBoundary, external
<1>7. ~Submits(r)'
      BY <1>1 DEF CommitGroup, CommitBoundary, Submits, Calm
<1>8. /\ ~ending => \A u : Holds(queue, r, u) => Holds(queue', r, u)
      /\ CommitGroup(r) => run'[r].partial /\ ~run[r].partial
  <2>0. ~run[r].partial /\ ~ending => Heard(r).kind \notin EndKinds
        BY <1>1, HeardSeen DEF CoreInv
  <2>1. CASE CommitGroup(r)
        BY <2>0, <2>1, CommitGroupStep DEF Recorded, CommitGroup
  <2>2. CASE ~CommitGroup(r) /\ run[r].partial
        BY <2>2, BoundaryFields DEF CoreInv
  <2>3. CASE ~CommitGroup(r) /\ ~run[r].partial
        BY <2>0, <2>3, CommitBoundaryStep DEF Recorded
  <2> QED BY <2>1, <2>2, <2>3
<1>9. ASSUME NEW k \in Ends(r)'
      PROVE  \E j \in Ends(r) : j /= 1 /\ spool'[r][k] = spool[r][j] /\ (j = k \/ j = k + 1)
  <2>1. CASE CommitGroup(r)
    <3>1. spool' = spool /\ k /= 1 /\ k \in Ends(r)
          BY <1>8, <1>9, <2>1 DEF CommitGroup, Ends, external
    <3> QED BY <3>1
  <2>2. CASE ~CommitGroup(r)
    <3>1. spool'[r] = Tail(spool[r])
          BY <1>1, <2>2 DEF CommitBoundary
    <3>2. k \in DOMAIN Tail(spool[r]) /\ Tail(spool[r])[k].kind \in {"turn_completed", "interrupted"}
          BY <1>9, <3>1 DEF Ends
    <3>3. k \in Nat /\ k >= 1 /\ k + 1 \in DOMAIN spool[r] /\ Tail(spool[r])[k] = spool[r][k + 1]
          BY <1>1, <3>2
    <3>4. k + 1 \in Ends(r) /\ k + 1 /= 1
          BY <3>2, <3>3 DEF Ends
    <3> QED BY <3>1, <3>3, <3>4
  <2> QED BY <2>1, <2>2
<1>10. ending => Ends(r)' = {} /\ ~Busy(r)
       BY <1>3, <1>9 DEF WorkOK
<1>11. \A k, m \in Ends(r)' : k = m
  <2>1. SUFFICES ASSUME NEW k \in Ends(r)', NEW m \in Ends(r)'
                 PROVE  k = m
        OBVIOUS
  <2>2. CASE CommitGroup(r)
    <3>1. k \in Ends(r) /\ m \in Ends(r)
          BY <1>8, <2>1, <2>2 DEF CommitGroup, Ends, external
    <3> QED BY <3>1 DEF WorkOK
  <2>3. CASE ~CommitGroup(r)
    <3>1. spool'[r] = Tail(spool[r])
          BY <1>1, <2>3 DEF CommitBoundary
    <3>2. /\ k \in DOMAIN Tail(spool[r]) /\ Tail(spool[r])[k].kind \in {"turn_completed", "interrupted"}
          /\ m \in DOMAIN Tail(spool[r]) /\ Tail(spool[r])[m].kind \in {"turn_completed", "interrupted"}
          BY <2>1, <3>1 DEF Ends
    <3>3. /\ k \in Nat /\ k >= 1 /\ k + 1 \in DOMAIN spool[r] /\ Tail(spool[r])[k] = spool[r][k + 1]
          /\ m \in Nat /\ m >= 1 /\ m + 1 \in DOMAIN spool[r] /\ Tail(spool[r])[m] = spool[r][m + 1]
          BY <1>1, <3>2
    <3>4. k + 1 \in Ends(r) /\ m + 1 \in Ends(r)
          BY <3>2, <3>3 DEF Ends
    <3>5. k + 1 = m + 1
          BY <3>4 DEF WorkOK
    <3> QED BY <3>3, <3>5
  <2> QED BY <2>2, <2>3
<1> HIDE DEF ending
<1>12. ASSUME NEW k \in Ends(r)'
       PROVE  Holds(queue', r, spool'[r][k].turn) /\ ~Busy(r)'
       BY <1>5, <1>8, <1>9, <1>10, <1>12 DEF WorkOK
<1>13. Busy(r)' => Holds(queue', r, native'[r].working)
       BY <1>5, <1>6, <1>8, <1>10 DEF WorkOK
<1> QED BY <1>4, <1>7, <1>11, <1>12, <1>13 DEF WorkOK

LEMMA WorkDispatch ==
    ASSUME CoreInv, LaunchInv, NEW r \in Runs, WorkOK(r), DispatchTurn(r)
    PROVE  WorkOK(r)'
<1>1. PICK t \in Turns : Dispatches(r, t)
      BY DispatchStep
<1>2. \A u : ~Holds(queue, r, u)
      BY <1>1 DEF Dispatches
<1>3. ~Busy(r) /\ ~Unlaunched(r) /\ Ends(r) = {}
      BY <1>2 DEF WorkOK
<1>4. UNCHANGED <<run, start, gate, native, spool>> /\ monitor \in [Runs -> Monitors]
      BY <1>1 DEF Dispatches, external, CoreInv, TypeOK
<1>5. ~Busy(r)' /\ ~Unlaunched(r)' /\ Ends(r)' = {}
      BY <1>3, <1>4 DEF Busy, Works, Unlaunched, Launching, Ends
<1>6. monitor'[r].turn = t /\ Holds(queue', r, t)
      BY <1>1, <1>4 DEF Dispatches
<1> QED BY <1>5, <1>6 DEF WorkOK

LEMMA WorkSubmit ==
    ASSUME CoreInv, LaunchInv, NEW r \in Runs, WorkOK(r), SubmitTurn(r)
    PROVE  WorkOK(r)'
<1>1. /\ native \in [Runs -> Helpers] /\ monitor \in [Runs -> Monitors]
      /\ Submits(r) /\ UNCHANGED <<queue, run, start, gate, spool>>
      BY DEF CoreInv, TypeOK, SubmitTurn, Submits, durable
<1>2. ~Submits(r)'
      BY <1>1 DEF SubmitTurn, Phase, Submits
<1>3. Ends(r) = {} /\ ~Busy(r) /\ Holds(queue, r, monitor[r].turn)
      BY <1>1 DEF WorkOK
<1>4. Ends(r)' = {}
      BY <1>1, <1>3 DEF Ends
<1>5. ~Unlaunched(r)'
  <2>1. ~Unlaunched(r)
        BY <1>1, MonitorLaunched DEF Submits
  <2>2. native'[r].helper = native[r].helper
        BY <1>1 DEF SubmitTurn, Deliver, Helpers
  <2> QED BY <1>1, <2>1, <2>2 DEF Unlaunched, Launching
<1>6. Busy(r)' => native'[r].working = monitor[r].turn
      BY <1>1, <1>3 DEF SubmitTurn, Deliver, Busy, Works, Helpers
<1> QED BY <1>1, <1>2, <1>3, <1>4, <1>5, <1>6 DEF WorkOK

LEMMA WorkHelper ==
    ASSUME CoreInv, LaunchInv, NEW r \in Runs, WorkOK(r), HelperStarts(r)
    PROVE  WorkOK(r)'
<1>1. /\ native \in [Runs -> Helpers] /\ spool \in [Runs -> Seq(Observations)] /\ LaunchOK(r)
      /\ native[r].helper = "requested" /\ UNCHANGED <<queue, run, start, monitor, gate>>
      BY DEF CoreInv, TypeOK, LaunchInv, HelperStarts, durable, volatile
<1>2. native'[r].helper = "alive" /\ (Busy(r)' => native'[r].working = run[r].turn)
      BY <1>1 DEF HelperStarts, Helpers, Busy, Works
<1>3. Unlaunched(r) /\ ~Unlaunched(r)' /\ ~Submits(r)'
      BY <1>1, <1>2 DEF Unlaunched, LaunchOK, Launching, Submits
<1>4. Ends(r)' = {}
  <2>1. PICK kind \in {"started", "launch_failed"} : spool'[r] = Append(spool[r], Supervisor(kind))
        BY <1>1 DEF HelperStarts, Appends
  <2>2. PICK obs : obs = Supervisor(kind)
        OBVIOUS
  <2>3. spool'[r] = <<obs>>
        BY <1>1, <2>1, <2>2 DEF LaunchOK
  <2>4. obs.kind = kind
        BY <2>2 DEF Supervisor, Observation
  <2> QED BY <2>3, <2>4 DEF Ends
<1> QED BY <1>1, <1>2, <1>3, <1>4 DEF WorkOK

LEMMA WorkHarness ==
    ASSUME CoreInv, LaunchInv, NEW r \in Runs, WorkOK(r),
           HarnessCompletes(r) \/ HarnessInterrupted(r) \/ HarnessEnds(r)
    PROVE  WorkOK(r)'
<1>1. /\ native \in [Runs -> Helpers] /\ spool \in [Runs -> Seq(Observations)] /\ LaunchOK(r)
      /\ spool[r] \in Seq(Observations)
      /\ native[r].helper = "alive" /\ ~native[r].exited
      /\ UNCHANGED <<queue, run, start, monitor, gate>>
      BY DEF CoreInv, TypeOK, LaunchInv, HarnessCompletes, HarnessInterrupted, HarnessEnds, Works,
         durable, volatile
<1>2. native'[r].working = NoTurn /\ native'[r].helper = "alive"
      BY <1>1 DEF HarnessCompletes, HarnessInterrupted, HarnessEnds, Helpers
<1>3. ~Busy(r)' /\ ~Unlaunched(r)' /\ (Submits(r)' <=> Submits(r))
      BY <1>1, <1>2 DEF Busy, Unlaunched, LaunchOK, Launching, Submits
<1>4. PICK obs : /\ spool'[r] = Append(spool[r], obs)
                 /\ obs.kind \in {"turn_completed", "interrupted"} =>
                       Busy(r) /\ obs.turn = native[r].working
  <2>1. CASE HarnessEnds(r)
    <3>1. PICK kind \in {"ended_well", "ended_badly"} : spool'[r] = Append(spool[r], Supervisor(kind))
          BY <1>1, <2>1 DEF HarnessEnds, Appends
    <3>2. Supervisor(kind).kind = kind
          BY DEF Supervisor, Observation
    <3> QED BY <3>1, <3>2
  <2>2. CASE ~HarnessEnds(r)
    <3>1. Busy(r)
          BY <1>1, <2>2 DEF HarnessCompletes, HarnessInterrupted, Busy, Works, LaunchOK
    <3>2. PICK kind : spool'[r] = Append(spool[r], Observation(kind, native[r].working))
          BY <1>1, <2>2 DEF HarnessCompletes, HarnessInterrupted, Appends
    <3>3. Observation(kind, native[r].working).turn = native[r].working
          BY DEF Observation
    <3> QED BY <3>1, <3>2, <3>3
  <2> QED BY <2>1, <2>2
<1>5. ASSUME NEW k \in Ends(r)'
      PROVE  \/ k \in Ends(r) /\ spool'[r][k] = spool[r][k]
             \/ /\ k = Len(spool[r]) + 1 /\ Busy(r) /\ spool'[r][k].turn = native[r].working
  <2>1. k \in DOMAIN Append(spool[r], obs)
        BY <1>4, <1>5 DEF Ends
  <2>2. \/ k \in DOMAIN spool[r] /\ Append(spool[r], obs)[k] = spool[r][k]
        \/ k = Len(spool[r]) + 1 /\ Append(spool[r], obs)[k] = obs
        BY <1>1, <2>1
  <2>3. CASE k \in DOMAIN spool[r] /\ Append(spool[r], obs)[k] = spool[r][k]
        BY <1>1, <1>4, <1>5, <2>3 DEF Ends
  <2>4. CASE k = Len(spool[r]) + 1 /\ Append(spool[r], obs)[k] = obs
        BY <1>4, <1>5, <2>4 DEF Ends
  <2> QED BY <2>2, <2>3, <2>4
<1>6. Busy(r) => Ends(r) = {} /\ ~Submits(r) /\ Holds(queue, r, native[r].working)
      BY DEF WorkOK
<1>7. ASSUME NEW k \in Ends(r)'
      PROVE  Holds(queue', r, spool'[r][k].turn) /\ ~Submits(r)'
      BY <1>1, <1>3, <1>5, <1>6, <1>7 DEF WorkOK
<1>8. \A k, m \in Ends(r)' : k = m
      BY <1>5, <1>6 DEF WorkOK
<1>9. Submits(r)' => Holds(queue', r, monitor'[r].turn)
      BY <1>1, <1>3 DEF WorkOK
<1> QED BY <1>3, <1>7, <1>8, <1>9 DEF WorkOK


(* What a step of Run r is to its row.                                     *)
LEMMA RunStepRun ==
    ASSUME CoreInv, LaunchInv, NEW r \in Runs, RunStep(r)
    PROVE  \/ run'[r] = run[r]
           \/ \E kind, boundary : Recorded(r, kind, boundary)
           \/ CommitBoundary(r) /\ run[r].partial
<1>1. CASE LaunchRefused(r)
      BY <1>1, ObservingSteps DEF LaunchRefused
<1>2. CASE CommitGroup(r)
      BY <1>2, CommitGroupStep
<1>3. CASE CommitBoundary(r)
      BY <1>3, CommitBoundaryStep
<1>4. CASE MonitorSettles(r) \/ RecoverUnavailable(r) \/ RecoverLost(r)
      BY <1>4, ObservingSteps
<1>5. CASE RecoverConnects(r) \/ ResolveAdopt(r)
      BY <1>5, ObservingSteps
<1>6. CASE /\ ~LaunchRefused(r) /\ ~CommitGroup(r) /\ ~CommitBoundary(r) /\ ~MonitorSettles(r)
           /\ ~RecoverUnavailable(r) /\ ~RecoverConnects(r) /\ ~ResolveAdopt(r) /\ ~RecoverLost(r)
  <2>1. run' = run
        BY <1>6 DEF RunStep, Launch, LaunchGoesOn, LaunchBegins, LaunchSends, LaunchReturns, LaunchUnknown,
           LaunchReconciles, Monitor, CommitRefused, DispatchTurn, SubmitTurn, MonitorFinishes,
           Recover, Resolve, RecoverUnsafe, ResolveTerminate, ResolveSettles, Harness, HelperStarts,
           HarnessCompletes, HarnessInterrupted, HarnessEnds, MonitorFails, RequestLost, HelperDies, durable
  <2> QED BY <2>1
<1> QED BY <1>1, <1>2, <1>3, <1>4, <1>5, <1>6

LEMMA RunStepLive ==
    ASSUME CoreInv, LaunchInv, NEW r \in Runs, RunStep(r)
    PROVE  /\ Live(r)' => Live(r)
           /\ run'[r].request \in {run[r].request, NoRequest}
<1>1. CASE run'[r] = run[r]
      BY <1>1 DEF Live
<1>2. ASSUME NEW kind, NEW boundary, Recorded(r, kind, boundary)
      PROVE  (Live(r)' => Live(r)) /\ run'[r].request \in {run[r].request, NoRequest}
      BY <1>2 DEF Recorded
<1>3. CASE CommitBoundary(r) /\ run[r].partial
      BY <1>3, BoundaryFields DEF CoreInv, Live
<1> QED BY <1>1, <1>2, <1>3, RunStepRun

(* The other steps of a Run.                                               *)
LEMMA WorkStill ==
    ASSUME CoreInv, LaunchInv, NEW r \in Runs, RunStep(r), WorkOK(r), Calm(r), Live(r)',
           ~CommitGroup(r), ~CommitBoundary(r), ~DispatchTurn(r), ~SubmitTurn(r), ~HelperStarts(r),
           ~HarnessCompletes(r), ~HarnessInterrupted(r), ~HarnessEnds(r)
    PROVE  WorkOK(r)'
<1>1. /\ native \in [Runs -> Helpers] /\ spool \in [Runs -> Seq(Observations)]
      /\ run \in [Runs -> RunRows]
      BY DEF CoreInv, TypeOK
<1>2. \/ run'[r] = run[r] /\ UNCHANGED queue
      \/ \E kind \in {"launch_failed", "lost", "reconnected", "disconnected"} : Recorded(r, kind, "none")
  <2>1. CASE LaunchRefused(r)
        BY <2>1, ObservingSteps DEF LaunchRefused
  <2>2. CASE MonitorSettles(r) \/ RecoverUnavailable(r) \/ RecoverLost(r)
        BY <2>2, ObservingSteps
  <2>3. CASE RecoverConnects(r) \/ ResolveAdopt(r)
        BY <2>3, ObservingSteps
  <2>4. CASE /\ ~LaunchRefused(r) /\ ~MonitorSettles(r) /\ ~RecoverUnavailable(r)
             /\ ~RecoverConnects(r) /\ ~ResolveAdopt(r) /\ ~RecoverLost(r)
    <3>1. UNCHANGED <<run, queue>>
          BY <2>4 DEF RunStep, Launch, LaunchGoesOn, LaunchBegins, LaunchSends, LaunchReturns, LaunchUnknown,
             LaunchReconciles, Monitor, CommitRefused, MonitorFinishes,
             Recover, Resolve, RecoverUnsafe, ResolveTerminate, ResolveSettles, Harness,
             MonitorFails, RequestLost, HelperDies, durable
    <3> QED BY <3>1
  <2> QED BY <2>1, <2>2, <2>3, <2>4
<1>3. run'[r].partial = run[r].partial /\ \A u : Holds(queue, r, u) => Holds(queue', r, u)
  <2>1. ASSUME NEW kind \in {"launch_failed", "lost", "reconnected", "disconnected"},
               Recorded(r, kind, "none")
        PROVE  run'[r].partial = run[r].partial /\ \A u : Holds(queue, r, u) => Holds(queue', r, u)
    <3>1. kind /= "lost"
          BY <2>1 DEF Recorded, Failures
    <3> QED BY <2>1, <3>1 DEF Recorded, EndKinds
  <2> QED BY <1>2, <2>1
<1>4. spool'[r] = spool[r] \/ spool'[r] = <<>>
      BY <1>1 DEF RunStep, Launch, LaunchGoesOn, LaunchBegins, LaunchRefused, LaunchSends, LaunchReturns, LaunchUnknown,
         LaunchReconciles, Monitor, CommitRefused, MonitorFinishes, MonitorSettles,
         Recover, Resolve, RecoverLost, RecoverUnsafe, RecoverConnects, RecoverUnavailable,
         ResolveAdopt, ResolveTerminate, ResolveSettles, Harness, Dies,
         MonitorFails, RequestLost, HelperDies, external
<1>5. Busy(r)' => Busy(r) /\ native'[r].working = native[r].working
  <2>1. \/ native' = native
        \/ \E to \in {"requested", "finished", "none"} : native' = [native EXCEPT ![r].helper = to]
        \/ native' = [native EXCEPT ![r].helper = IF @ = "alive" THEN "finished" ELSE @]
        \/ Dies(r)
        BY DEF RunStep, Launch, LaunchGoesOn, LaunchBegins, LaunchRefused, LaunchSends, LaunchReturns, LaunchUnknown,
           LaunchReconciles, Monitor, CommitRefused, MonitorFinishes, MonitorSettles,
           Recover, Resolve, RecoverLost, RecoverUnsafe, RecoverConnects, RecoverUnavailable, Reconnect,
           ResolveAdopt, ResolveTerminate, ResolveSettles, Harness,
           MonitorFails, RequestLost, HelperDies, external
  <2>2. ASSUME native'[r].helper /= "alive"
        PROVE  ~Busy(r)'
        BY <2>2 DEF Busy, Works
  <2>3. CASE native' = native
        BY <2>3 DEF Busy, Works
  <2>4. CASE native' /= native
    <3>1. native'[r].helper /= "alive"
          BY <1>1, <2>1, <2>4 DEF Dies, Helpers
    <3> QED BY <2>2, <3>1
  <2> QED BY <2>3, <2>4
<1>6. Ends(r)' \subseteq Ends(r)
      BY <1>3, <1>4, EndsKept
<1> QED BY <1>3, <1>4, <1>5, <1>6, WorkKept

LEMMA WorkOwn ==
    ASSUME SafeInv, NEW r \in Runs, RunStep(r), WorkOK(r), Live(r)'
    PROVE  WorkOK(r)'
<1>1. CoreInv /\ LaunchInv
      BY DEF SafeInv
<1>2. CASE DispatchTurn(r)
      BY <1>1, <1>2, WorkDispatch
<1>3. CASE SubmitTurn(r)
      BY <1>1, <1>3, WorkSubmit
<1>4. CASE HelperStarts(r)
      BY <1>1, <1>4, WorkHelper
<1>5. CASE HarnessCompletes(r) \/ HarnessInterrupted(r) \/ HarnessEnds(r)
      BY <1>1, <1>5, WorkHarness
<1>6. CASE ~DispatchTurn(r) /\ ~SubmitTurn(r) /\ ~HelperStarts(r)
           /\ ~HarnessCompletes(r) /\ ~HarnessInterrupted(r) /\ ~HarnessEnds(r)
  <2>1. Calm(r)
        BY <1>1, <1>6, RunStepCalm
  <2> QED BY <1>1, <1>6, <2>1, WorkCommit, WorkStill
<1> QED BY <1>2, <1>3, <1>4, <1>5, <1>6

LEMMA WorkNext ==
    ASSUME SafeInv, WorkInv, [Next]_vars
    PROVE  WorkInv'
<1>0. CoreInv /\ ControlInv /\ LaunchInv /\ OwnerInv /\ native \in [Runs -> Helpers]
      BY DEF SafeInv, CoreInv, TypeOK
<1> SUFFICES ASSUME NEW s \in Runs, Live(s)'
             PROVE  WorkOK(s)'
    BY DEF WorkInv
<1>1. ASSUME Aside(s), \A u : Holds(queue, s, u) => Holds(queue', s, u)
      PROVE  WorkOK(s)'
  <2>1. Live(s)
        BY <1>1 DEF Aside, Live
  <2> QED BY <1>1, <2>1, WorkAside DEF WorkInv
<1>2. CASE UNCHANGED vars
  <2>1. Aside(s)
        BY <1>2 DEF Aside, vars, durable, volatile, external
  <2> QED BY <1>1, <1>2, <2>1 DEF vars, durable
<1>3. CASE \E t \in Turns : admit(t) \/ Withdraw(t)
  <2>1. \A u : Holds(queue, s, u) => Holds(queue', s, u)
        BY <1>0, <1>3, AdmitStep, WithdrawStep DEF admit
  <2> QED BY <1>0, <1>1, <1>3, <2>1, CommandAside
<1>4. ASSUME NEW r \in Runs, NEW t \in Turns, Installs(r, t)
      PROVE  WorkOK(s)'
  <2>1. s = r
        BY <1>4 DEF Installs, Live
  <2>2. start[r] = "none" /\ native[r].helper = "none" /\ monitor[r].phase = "none" /\ spool[r] = <<>>
        BY <1>0, <1>4 DEF LaunchInv, LaunchOK, Installs
  <2>3. UNCHANGED <<monitor, native, spool>>
        BY <1>4 DEF Installs, volatile, external
  <2>4. ~Busy(r)' /\ ~Submits(r)' /\ Ends(r)' = {}
        BY <2>2, <2>3 DEF Busy, Works, Submits, Ends
  <2>5. Holds(queue', r, run'[r].turn)
        BY <1>4 DEF Installs
  <2> QED BY <2>1, <2>4, <2>5 DEF WorkOK
<1>5. ASSUME NEW r \in Runs, NEW c \in Controls, NEW kind \in {"interrupt", "stop"},
             RecordControl(c, r, kind)
      PROVE  WorkOK(s)'
  <2>1. UNCHANGED <<queue, start, gate, monitor, native, spool>> /\ Requested(r)
        BY <1>0, <1>5, RecordControlStep DEF RecordControl, volatile, external
  <2>2. CASE s = r
    <3>1. Live(s) /\ Calm(s)
          BY <2>1, <2>2 DEF Requested, Live, Terminal, Calm, Created, Unlaunched, Launching, Submits, executing
    <3>2. Busy(s)' => Busy(s) /\ native'[s].working = native[s].working
          BY <2>1 DEF Busy, Works
    <3>3. Ends(s)' \subseteq Ends(s)
          BY <2>1, <2>2, EndsKept DEF Requested
    <3> QED BY <2>1, <3>1, <3>2, <3>3, WorkKept DEF WorkInv
  <2>3. CASE s /= r
        BY <1>0, <1>1, <1>5, <2>1, <2>3, CommandAside
  <2> QED BY <2>2, <2>3
<1>6. ASSUME NEW r \in Runs, RunStep(r)
      PROVE  WorkOK(s)'
  <2>1. CASE s = r
    <3>1. Live(r)
          BY <1>0, <1>6, <2>1, RunStepLive
    <3> QED BY <1>6, <2>1, <3>1, WorkOwn DEF WorkInv
  <2>2. CASE s /= r
    <3>1. Aside(s) /\ Live(s)
          BY <1>0, <1>6, <2>2, RunStepAside DEF Aside, Live
    <3> QED BY <1>0, <1>1, <1>6, <2>2, <3>1, HoldsAside
  <2> QED BY <2>1, <2>2
<1>7. ASSUME NEW r \in Runs, Controlled(r), \A p \in Runs : p /= r => Aside(p)
      PROVE  WorkOK(s)'
  <2>1. queue' = queue
        BY <1>7 DEF Controlled
  <2>2. CASE s = r
    <3>1. Live(s)
          BY <1>7, <2>2 DEF Controlled, Live
    <3>2. Launching(r)' => Launching(r) /\ gate' = gate
          BY <1>7 DEF Controlled, Launching, Free
    <3>3. monitor'[r] = monitor[r] \/ monitor'[r].phase = "failing"
          BY <1>7 DEF Controlled
    <3>4. Calm(r)
          BY <1>7, <3>2, <3>3 DEF Controlled, Calm, Created, Unlaunched, Submits
    <3>5. Busy(r)' => Busy(r) /\ native'[r].working = native[r].working
          BY <1>7 DEF Controlled, Busy, Works
    <3>6. Ends(r)' \subseteq Ends(r) /\ spool'[r] = spool[r]
          BY <1>7, EndsKept DEF Controlled
    <3> QED BY <2>1, <2>2, <3>1, <3>4, <3>5, <3>6, WorkKept DEF WorkInv
  <2> QED BY <1>1, <1>7, <2>1, <2>2
<1>8. CASE Crash \/ Reboot
  <2>1. /\ UNCHANGED <<queue, run, start>> /\ monitor'[s].phase = "none" /\ gate'.task = "none"
    <3>1. Forgotten /\ UNCHANGED <<queue, run, start>>
          BY <1>8 DEF Crash, Reboot, durable
    <3> QED BY <3>1 DEF Forgotten, Free, NoMonitor
  <2>2. \/ native' = native /\ spool' = spool
        \/ native'[s].helper \notin {"requested", "alive"} /\ spool'[s] = <<>>
        BY <1>0, <1>8, RebootStep DEF Crash, Restarted, external, CoreInv
  <2>3. Live(s) /\ Calm(s)
        BY <2>1, <2>2 DEF Live, Calm, Created, Unlaunched, Launching, Submits
  <2>4. Busy(s)' => Busy(s) /\ native'[s].working = native[s].working
        BY <2>2 DEF Busy, Works
  <2>5. Ends(s)' \subseteq Ends(s) /\ (spool'[s] = spool[s] \/ spool'[s] = <<>>)
        BY <2>1, <2>2, EndsKept
  <2> QED BY <2>1, <2>3, <2>4, <2>5, WorkKept DEF WorkInv
<1> QED BY <1>0, <1>2, <1>3, <1>4, <1>5, <1>6, <1>7, <1>8, NextCases

LEMMA InitWork ==
    ASSUME Init
    PROVE  WorkInv
<1>1. \A r \in Runs : ~Live(r)
      BY DEF Init, Live, NewRun
<1> QED BY <1>1 DEF WorkInv

LEMMA AlwaysWork == Spec => [](SafeInv /\ WorkInv)
<1>1. Init => SafeInv /\ WorkInv
      BY InitSafe, InitWork
<1>2. SafeInv /\ WorkInv /\ [Next]_vars => (SafeInv /\ WorkInv)'
      BY SafeNext, WorkNext
<1> QED BY <1>1, <1>2, PTL DEF Spec

(* Settlement, dispatch and delivery: the Turn that a Harness works on is  *)
(* claimed by its live Run, so neither a late observation nor a lost       *)
(* connection settles it meanwhile.                                        *)
THEOREM WorkStaysClaimed == Spec => []WorkIsClaimed
<1>1. WorkInv => WorkIsClaimed
      BY DEF WorkInv, WorkOK, WorkIsClaimed, Busy, Holds
<1> QED BY <1>1, AlwaysWork, PTL


-----------------------------------------------------------------------------
(* The refinement of TurnLifecycle.                                        *)

(* Either nothing is claimed and all entries wait, or the first is and     *)
(* the others wait.                                                        *)
LEMMA QueueSeen ==
    ASSUME NEW s \in [Turns -> Statuses], NEW q, QueueOK(q, s)
    PROVE  /\ q \in Seq(Entry) /\ Len(q) \in Nat /\ DOMAIN q = 1..Len(q) /\ Ahead(q) \in {0, 1}
           /\ Ahead(q) <= Len(q)
           /\ Ahead(q) = 0 => Owner(q) = NoTurn /\ \A i \in DOMAIN q : q[i].state = "queued"
           /\ Ahead(q) = 1 => /\ 1 \in DOMAIN q /\ q[1].state \in Claims /\ Owner(q) = q[1].turn
                              /\ Owner(q) \in Turns /\ s[Owner(q)] = q[1].state
           /\ \A i \in DOMAIN q : i > Ahead(q) <=> q[i].state = "queued"
           /\ Waiting(q) \in Seq(Turns) /\ Len(Waiting(q)) = Len(q) - Ahead(q)
           /\ \A n \in 1..(Len(q) - Ahead(q)) : /\ n + Ahead(q) \in DOMAIN q
                                                /\ Waiting(q)[n] = q[n + Ahead(q)].turn
<1>1. q \in Seq(Entry) /\ Len(q) \in Nat /\ DOMAIN q = 1..Len(q)
      BY DEF QueueOK
<1>2. \A i \in DOMAIN q : /\ q[i].turn \in Turns /\ q[i].state \in {"queued"} \union Claims
                          /\ s[q[i].turn] = q[i].state /\ (q[i].state \in Claims => i = 1)
      BY <1>1, EntryFields DEF QueueOK
<1>3. "queued" \notin Claims
      BY DEF Claims
<1>4. \/ /\ Ahead(q) = 0 /\ Owner(q) = NoTurn /\ \A i \in DOMAIN q : q[i].state = "queued"
      \/ /\ Ahead(q) = 1 /\ 1 \in DOMAIN q /\ q[1].state \in Claims /\ Owner(q) = q[1].turn
         /\ \A i \in DOMAIN q : i /= 1 => q[i].state = "queued"
  <2>1. CASE Owners(q) = {}
        BY <1>2, <2>1 DEF Owners, Ahead, Owner
  <2>2. CASE Owners(q) /= {}
    <3>1. Owners(q) = {1} /\ 1 \in DOMAIN q /\ q[1].state \in Claims
          BY <1>2, <2>2 DEF Owners
    <3>2. Min({1}) = 1
          BY DEF Min
    <3> QED BY <1>2, <3>1, <3>2 DEF Ahead, Owner
  <2> QED BY <2>1, <2>2
<1>5. Ahead(q) \in {0, 1} /\ Ahead(q) <= Len(q)
      BY <1>1, <1>4
<1>6. \A n \in 1..(Len(q) - Ahead(q)) : n + Ahead(q) \in DOMAIN q
      BY <1>1, <1>5
<1>7. /\ Waiting(q) \in Seq(Turns) /\ Len(Waiting(q)) = Len(q) - Ahead(q)
      /\ \A n \in 1..(Len(q) - Ahead(q)) : Waiting(q)[n] = q[n + Ahead(q)].turn
  <2>1. PICK m \in Nat : m = Len(q) - Ahead(q)
        BY <1>1, <1>5
  <2>2. Waiting(q) = [n \in 1..m |-> q[n + Ahead(q)].turn]
        BY <2>1 DEF Waiting
  <2>3. \A n \in 1..m : q[n + Ahead(q)].turn \in Turns
        BY <1>2, <1>6, <2>1
  <2> HIDE DEF Ahead
  <2>4. Waiting(q) \in [1..m -> Turns]
        BY <2>2, <2>3
  <2> QED BY <2>1, <2>2, <2>4
<1>8. \A i \in DOMAIN q : i > Ahead(q) <=> q[i].state = "queued"
      BY <1>1, <1>3, <1>4
<1> QED BY <1>1, <1>2, <1>4, <1>5, <1>6, <1>7, <1>8

(* Two queues show a client the same.                                      *)
LEMMA SameWaiting ==
    ASSUME NEW m \in Nat, NEW v \in Seq(Turns), NEW w \in Seq(Turns), Len(v) = m, Len(w) = m,
           \A n \in 1..m : v[n] = w[n]
    PROVE  v = w
OBVIOUS

(* What waits at the positions in S.                                       *)
LEMMA WithoutIs ==
    ASSUME NEW w \in Seq(Turns), NEW S \in SUBSET DOMAIN w, NEW m \in Nat, NEW f,
           Enumerates(f, m, S)
    PROVE  /\ Sub(w, S) \in Seq(Turns) /\ Len(Sub(w, S)) = m
           /\ \A n \in 1..m : Sub(w, S)[n] = w[f[n]]
<1>1. Len(w) \in Nat /\ S \in SUBSET (1..Len(w))
      OBVIOUS
<1>2. m = Cardinality(S) /\ \A n \in 1..m : Nth(S, n) = f[n]
      BY <1>1, NthUnique, ZenonT(40)
<1> QED BY <1>2, SubProperties

(* The Turns that wait and are not in gone, as TurnLifecycle says it.      *)
Remaining(w, gone) == Sub(w, {i \in DOMAIN w : w[i] \notin gone})

(* Admission: automatic input gives way, the others keep their order, and  *)
(* the new Turn is last.                                                   *)
LEMMA PrepareWaits ==
    ASSUME NEW s \in [Turns -> Statuses], NEW q, QueueOK(q, s), NEW t \in Turns, s[t] = "absent"
    PROVE  /\ Owner(prepare(q, t)) = Owner(q)
           /\ Waiting(prepare(q, t)) = Append(Remaining(Waiting(q), Displaced(q, t)), t)
           /\ \A u \in Displaced(q, t) :
                /\ \E n \in DOMAIN Waiting(q) : Waiting(q)[n] = u
                /\ Source[u] /= "user" /\ Source[t] \in {"user", Source[u]}
<1>1. PICK p : p = prepare(q, t)
      OBVIOUS
<1>2. PICK z \in [Turns -> Statuses] : QueueOK(p, z)
  <2>1. AfterAdmission(q, s, t) \in [Turns -> Statuses]
        BY DEF AfterAdmission, DisplacedState, Statuses
  <2> QED BY <1>1, <2>1, PrepareOK
<1>3. PICK c \in {0, 1} : c = Ahead(q) /\ c <= Len(q)
      BY QueueSeen
<1>4. PICK w \in Seq(Turns) :
        /\ w = Waiting(q) /\ Len(w) = Len(q) - c /\ DOMAIN w = 1..Len(w)
        /\ \A n \in DOMAIN w : n + c \in DOMAIN q /\ w[n] = q[n + c].turn
  <2>1. /\ Waiting(q) \in Seq(Turns) /\ Len(Waiting(q)) = Len(q) - c
        /\ \A n \in 1..(Len(q) - c) : n + c \in DOMAIN q /\ Waiting(q)[n] = q[n + c].turn
        BY <1>3, QueueSeen
  <2> QED BY <2>1
<1>5. /\ q \in Seq(Entry) /\ Len(q) \in Nat /\ DOMAIN q = 1..Len(q)
      /\ \A i \in DOMAIN q : i > c <=> q[i].state = "queued"
      /\ \A i, j \in DOMAIN q : q[i].turn = q[j].turn => i = j
      /\ c = 1 => 1 \in DOMAIN q
      BY <1>3, QueueSeen DEF QueueOK
<1>6. PICK k \in Seq(Entry) : k = Kept(q, t)
      BY <1>5, KeptProperties
<1>7. PICK h \in [1..Len(k) -> DOMAIN q] :
        /\ \A n \in 1..Len(k) : k[n] = q[h[n]] /\ ~Replaced(q[h[n]], t)
        /\ \A m, n \in 1..Len(k) : m < n => h[m] < h[n]
        /\ \A i \in DOMAIN q : ~Replaced(q[i], t) => \E n \in 1..Len(k) : h[n] = i
  <2>1. PICK h \in [1..Len(Kept(q, t)) -> DOMAIN q] :
          /\ \A n \in 1..Len(Kept(q, t)) : Kept(q, t)[n] = q[h[n]] /\ ~Replaced(q[h[n]], t)
          /\ \A m, n \in 1..Len(Kept(q, t)) : m < n => h[m] < h[n]
          /\ \A i \in DOMAIN q : ~Replaced(q[i], t) =>
                \E n \in 1..Len(Kept(q, t)) : h[n] = i
    <3>1. q \in Seq(Entry)
          BY <1>5
    <3> QED BY <3>1, KeptProperties
  <2>2. h \in [1..Len(k) -> DOMAIN q]
        BY <1>6, <2>1
  <2>3. \A n \in 1..Len(k) : k[n] = q[h[n]] /\ ~Replaced(q[h[n]], t)
        BY <1>6, <2>1
  <2>4. \A m, n \in 1..Len(k) : m < n => h[m] < h[n]
        BY <1>6, <2>1
  <2>5. \A i \in DOMAIN q : ~Replaced(q[i], t) => \E n \in 1..Len(k) : h[n] = i
        BY <1>6, <2>1
  <2> QED BY <2>2, <2>3, <2>4, <2>5
<1>8. Len(k) \in Nat /\ \A n \in 1..Len(k) : h[n] \in Nat /\ 1 <= h[n]
      BY <1>5, <1>6, <1>7
<1>9. \A i \in DOMAIN q : Replaced(q[i], t) => i > c
      BY <1>5 DEF Replaced
<1>10. c = 1 => 1 \in 1..Len(k) /\ h[1] = 1
  <2> SUFFICES ASSUME c = 1
               PROVE  1 \in 1..Len(k) /\ h[1] = 1
      OBVIOUS
  <2>1. 1 \in DOMAIN q /\ ~Replaced(q[1], t)
        BY <1>5, <1>9
  <2>2. PICK n \in 1..Len(k) : h[n] = 1
        BY <1>7, <2>1
  <2>3. 1 \in 1..Len(k)
        BY <1>8, <2>2
  <2>4. 1 < n => h[1] < h[n]
        BY <1>7, <2>2, <2>3
  <2> QED BY <1>8, <2>2, <2>3, <2>4
<1>11. PICK m \in Nat : m = Len(k) - c
       BY <1>8, <1>10
<1>12. PICK g : g = Displaced(q, t)
       OBVIOUS
<1>13. \A n \in DOMAIN w : w[n] \in g <=> Replaced(q[n + c], t)
  <2> SUFFICES ASSUME NEW n \in DOMAIN w
               PROVE  w[n] \in g <=> Replaced(q[n + c], t)
      OBVIOUS
  <2>1. n + c \in DOMAIN q /\ w[n] = q[n + c].turn
        BY <1>4
  <2>2. w[n] \in g <=> \E j \in DOMAIN q : Replaced(q[j], t) /\ q[j].turn = w[n]
        BY <1>12 DEF Displaced
  <2> QED BY <1>5, <2>1, <2>2
<1>14. \A n \in 1..m : /\ n + c \in 1..Len(k) /\ h[n + c] - c \in DOMAIN w
                       /\ w[h[n + c] - c] = k[n + c].turn /\ w[h[n + c] - c] \notin g
  <2> SUFFICES ASSUME NEW n \in 1..m
               PROVE  /\ n + c \in 1..Len(k) /\ h[n + c] - c \in DOMAIN w
                      /\ w[h[n + c] - c] = k[n + c].turn /\ w[h[n + c] - c] \notin g
      OBVIOUS
  <2>1. n + c \in 1..Len(k) /\ (c = 1 => 1 < n + c)
        BY <1>8, <1>11
  <2>2. h[n + c] > c
        BY <1>7, <1>8, <1>10, <2>1
  <2>3. h[n + c] \in DOMAIN q /\ ~Replaced(q[h[n + c]], t) /\ k[n + c] = q[h[n + c]]
        BY <1>7, <2>1
  <2>4. PICK j \in Nat : j = h[n + c] - c /\ j \in DOMAIN w /\ j + c = h[n + c]
    <3>1. PICK i \in 1..Len(q) : i = h[n + c] /\ i > c
          BY <1>5, <2>2, <2>3
    <3>2. i - c \in Nat /\ i - c \in 1..Len(w) /\ (i - c) + c = i
          BY <1>3, <1>4, <1>5, <3>1
    <3> QED BY <1>4, <3>1, <3>2
  <2>5. w[j] = k[n + c].turn /\ w[j] \notin g
        BY <1>4, <1>13, <2>3, <2>4
  <2> QED BY <2>1, <2>4, <2>5
<1>25. PICK S \in SUBSET DOMAIN w : S = {i \in DOMAIN w : w[i] \notin g}
      OBVIOUS
<1>15. PICK f \in [1..m -> S] : \A n \in 1..m : f[n] = h[n + c] - c
  <2>1. \A n \in 1..m : h[n + c] - c \in S
        BY <1>14, <1>25
  <2>2. [n \in 1..m |-> h[n + c] - c] \in [1..m -> S]
        BY <2>1
  <2> QED BY <2>2
<1>16. \A a, b \in 1..m : a < b => f[a] < f[b]
  <2> SUFFICES ASSUME NEW a \in 1..m, NEW b \in 1..m, a < b
               PROVE  f[a] < f[b]
      OBVIOUS
  <2>1. a + c \in 1..Len(k) /\ b + c \in 1..Len(k) /\ a + c < b + c
    <3>1. a + c \in 1..Len(k) /\ b + c \in 1..Len(k)
          BY <1>14
    <3>2. a + c < b + c
          BY <1>3, <1>11
    <3> QED BY <3>1, <3>2
  <2>2. h[a + c] < h[b + c] /\ h[a + c] \in Nat /\ h[b + c] \in Nat
        BY <1>7, <1>8, <2>1
  <2>3. f[a] = h[a + c] - c /\ f[b] = h[b + c] - c
        BY <1>15
  <2>4. c \in Nat
        BY <1>3
  <2> QED BY <2>2, <2>3, <2>4
<1>17. \A i \in S : \E a \in 1..m : f[a] = i
  <2> SUFFICES ASSUME NEW i \in DOMAIN w, w[i] \notin g
               PROVE  \E a \in 1..m : f[a] = i
      BY <1>25
  <2>1. i + c \in DOMAIN q /\ ~Replaced(q[i + c], t) /\ i \in Nat /\ 1 <= i
        BY <1>4, <1>13
  <2>2. PICK n \in 1..Len(k) : h[n] = i + c
        BY <1>7, <2>1
  <2>3. c = 1 => n /= 1
        BY <1>10, <2>1, <2>2
  <2>4. PICK a \in 1..m : a + c = n
        BY <1>8, <1>11, <2>2, <2>3
  <2>5. f[a] = i
        BY <1>15, <2>1, <2>2, <2>4
  <2> QED BY <2>5
<1>18. PICK v \in Seq(Turns) : /\ v = Remaining(w, g) /\ Len(v) = m
                               /\ \A n \in 1..m : v[n] = w[f[n]]
  <2>1. Sub(w, S) \in Seq(Turns) /\ Len(Sub(w, S)) = m /\ \A n \in 1..m : Sub(w, S)[n] = w[f[n]]
    <3>1. w \in Seq(Turns) /\ S \in SUBSET DOMAIN w /\ m \in Nat
          BY <1>4, <1>11, <1>15, <1>25
    <3>2. Enumerates(f, m, S)
          BY <1>15, <1>16, <1>17 DEF Enumerates
    <3> QED BY <3>1, <3>2, WithoutIs, ZenonT(40)
  <2>2. Remaining(w, g) = Sub(w, S)
        BY <1>25 DEF Remaining
  <2> QED BY <2>1, <2>2
<1>19. PICK e : e = [turn |-> t, state |-> "queued", run |-> NoRun]
       OBVIOUS
<1>20. p = Append(k, e) /\ e \in Entry /\ e.turn = t /\ e.state = "queued"
       BY <1>1, <1>6, <1>19 DEF prepare, Entry
<1>21. /\ Len(p) = Len(k) + 1 /\ p[Len(k) + 1] = e /\ \A n \in 1..Len(k) : p[n] = k[n]
       /\ 1 \in DOMAIN p /\ p \in Seq(Entry)
       BY <1>20
<1>22. Ahead(p) = c /\ Owner(p) = Owner(q)
  <2>1. CASE c = 1
    <3>1. p[1] = q[1] /\ q[1].state \in Claims /\ Owner(q) = q[1].turn
          BY <1>3, <1>7, <1>10, <1>21, <2>1, QueueSeen
    <3>2. p[1].state /= "queued"
          BY <3>1 DEF Claims
    <3> QED BY <1>2, <1>21, <2>1, <3>1, <3>2, QueueSeen
  <2>2. CASE c = 0
    <3>1. p[1].state = "queued"
      <4>1. CASE Len(k) = 0
            BY <1>20, <1>21, <4>1
      <4>2. CASE Len(k) /= 0
        <5>1. 1 \in 1..Len(k)
              BY <1>8, <4>2
        <5>2. h[1] \in DOMAIN q /\ p[1] = q[h[1]] /\ h[1] > c
          <6>1. h[1] \in DOMAIN q /\ p[1] = q[h[1]] /\ h[1] \in Nat /\ 1 <= h[1]
                BY <1>7, <1>8, <1>21, <5>1
          <6> QED BY <2>2, <6>1
        <5> QED BY <1>5, <5>2
      <4> QED BY <4>1, <4>2
    <3>2. Ahead(p) = 0
          BY <1>2, <1>21, <3>1, QueueSeen DEF Claims
    <3> QED BY <1>2, <1>3, <2>2, <3>2, QueueSeen
  <2> QED BY <2>1, <2>2
<1>23. Waiting(p) = Append(v, t)
  <2>1. /\ Waiting(p) \in Seq(Turns) /\ Len(Waiting(p)) = m + 1
        /\ \A n \in 1..(m + 1) : Waiting(p)[n] = p[n + c].turn
    <3>1. Len(p) - Ahead(p) = m + 1
          BY <1>8, <1>11, <1>21, <1>22
    <3>2. /\ Waiting(p) \in Seq(Turns) /\ Len(Waiting(p)) = Len(p) - Ahead(p)
          /\ \A n \in 1..(Len(p) - Ahead(p)) : Waiting(p)[n] = p[n + Ahead(p)].turn
          BY <1>2, QueueSeen
    <3> QED BY <1>22, <3>1, <3>2
  <2>2. \A n \in 1..(m + 1) : Waiting(p)[n] = Append(v, t)[n]
    <3> SUFFICES ASSUME NEW n \in 1..(m + 1)
                 PROVE  Waiting(p)[n] = Append(v, t)[n]
        OBVIOUS
    <3>1. CASE n = m + 1
      <4>1. n + c = Len(k) + 1
            BY <1>8, <1>11, <3>1
      <4> QED BY <1>18, <1>20, <1>21, <2>1, <3>1, <4>1
    <3>2. CASE n /= m + 1
      <4>1. n \in 1..m
            BY <3>2
      <4>2. Waiting(p)[n] = k[n + c].turn
            BY <1>14, <1>21, <2>1, <4>1
      <4>3. v[n] = k[n + c].turn
            BY <1>14, <1>15, <1>18, <4>1
      <4> QED BY <1>18, <4>1, <4>2, <4>3
    <3> QED BY <3>1, <3>2
  <2>3. Append(v, t) \in Seq(Turns) /\ Len(Append(v, t)) = m + 1
        BY <1>18
  <2> QED BY <2>1, <2>2, <2>3, SameWaiting
<1>24. ASSUME NEW u \in g
       PROVE  /\ \E n \in DOMAIN w : w[n] = u
              /\ Source[u] /= "user" /\ Source[t] \in {"user", Source[u]}
  <2>1. PICK i \in DOMAIN q : Replaced(q[i], t) /\ u = q[i].turn
        BY <1>12, <1>24 DEF Displaced
  <2>2. PICK n \in DOMAIN w : n + c = i
    <3>1. i > c /\ i \in 1..Len(q)
          BY <1>5, <1>9, <2>1
    <3>2. i - c \in 1..Len(w) /\ (i - c) + c = i
          BY <1>3, <1>4, <1>5, <3>1
    <3> QED BY <1>4, <3>2
  <2>3. w[n] = u
        BY <1>4, <2>1, <2>2
  <2> QED BY <2>1, <2>3 DEF Replaced
<1> QED BY <1>1, <1>4, <1>12, <1>18, <1>22, <1>23, <1>24


(* Withdrawal: the others keep their order.                                *)
LEMMA WithdrawWaits ==
    ASSUME NEW s \in [Turns -> Statuses], NEW q, QueueOK(q, s), NEW t \in Turns,
           NEW i \in position(q, t), q[i].state = "queued"
    PROVE  /\ s[t] = "queued" /\ Owner(withdraw(q, t)) = Owner(q)
           /\ Waiting(withdraw(q, t)) = Remaining(Waiting(q), {t})
<1>1. PICK p : p = withdraw(q, t)
      OBVIOUS
<1>2. /\ i \in DOMAIN q /\ q[i].turn = t /\ s[t] = "queued" /\ Len(p) = Len(q) - 1
      /\ \A n \in 1..(Len(q) - 1) : p[n] = IF n < i THEN q[n] ELSE q[n + 1]
      BY <1>1, WithdrawOK
<1>3. PICK z \in [Turns -> Statuses] : QueueOK(p, z)
  <2>1. Said(s, t, "withdrawn") \in [Turns -> Statuses]
        BY DEF Said, Statuses
  <2> QED BY <1>1, <2>1, WithdrawOK
<1>4. PICK c \in {0, 1} : c = Ahead(q) /\ c <= Len(q)
      BY QueueSeen
<1>5. PICK w \in Seq(Turns) :
        /\ w = Waiting(q) /\ Len(w) = Len(q) - c /\ DOMAIN w = 1..Len(w)
        /\ \A n \in DOMAIN w : n + c \in DOMAIN q /\ w[n] = q[n + c].turn
  <2>1. /\ Waiting(q) \in Seq(Turns) /\ Len(Waiting(q)) = Len(q) - c
        /\ \A n \in 1..(Len(q) - c) : n + c \in DOMAIN q /\ Waiting(q)[n] = q[n + c].turn
        BY <1>4, QueueSeen
  <2> QED BY <2>1
<1>6. /\ q \in Seq(Entry) /\ Len(q) \in Nat /\ DOMAIN q = 1..Len(q)
      /\ \A j \in DOMAIN q : j > c <=> q[j].state = "queued"
      /\ \A j, k \in DOMAIN q : q[j].turn = q[k].turn => j = k
      /\ c = 1 => 1 \in DOMAIN q
      BY <1>4, QueueSeen DEF QueueOK
<1>7. i \in Nat /\ i > c /\ i <= Len(q)
      BY <1>2, <1>6
<1>8. PICK m \in Nat : m = Len(q) - c - 1
      BY <1>4, <1>6, <1>7
<1>9. PICK d \in 1..(m + 1) : d + c = i
  <2>1. i - c \in 1..(m + 1) /\ (i - c) + c = i
        BY <1>4, <1>6, <1>7, <1>8
  <2> QED BY <2>1
<1>10. DOMAIN w = 1..(m + 1) /\ \A n \in DOMAIN w : w[n] \notin {t} <=> n /= d
  <2>1. DOMAIN w = 1..(m + 1)
        BY <1>4, <1>5, <1>6, <1>8
  <2>2. ASSUME NEW n \in DOMAIN w
        PROVE  w[n] = t <=> n = d
    <3>1. n + c \in DOMAIN q /\ w[n] = q[n + c].turn /\ n \in Nat
          BY <1>5, <2>1
    <3>2. q[n + c].turn = t <=> n + c = i
          BY <1>2, <1>6, <3>1
    <3> QED BY <1>4, <1>9, <3>1, <3>2
  <2> QED BY <2>1, <2>2
<1>11. PICK S \in SUBSET DOMAIN w : S = {n \in DOMAIN w : w[n] \notin {t}}
       OBVIOUS
<1>12. PICK f \in [1..m -> S] : \A n \in 1..m : f[n] = IF n < d THEN n ELSE n + 1
  <2>1. ASSUME NEW n \in 1..m
        PROVE  (IF n < d THEN n ELSE n + 1) \in S
    <3>1. CASE n < d
      <4>1. n \in 1..(m + 1) /\ n /= d
            BY <1>9, <3>1
      <4> QED BY <1>10, <1>11, <3>1, <4>1
    <3>2. CASE ~(n < d)
      <4>1. n + 1 \in 1..(m + 1) /\ n + 1 /= d
            BY <1>9, <3>2
      <4> QED BY <1>10, <1>11, <3>2, <4>1
    <3> QED BY <3>1, <3>2
  <2>2. [n \in 1..m |-> IF n < d THEN n ELSE n + 1] \in [1..m -> S]
        BY <2>1
  <2> QED BY <2>2
<1>13. \A a, b \in 1..m : a < b => f[a] < f[b]
       BY <1>8, <1>9, <1>12
<1>14. \A j \in S : \E a \in 1..m : f[a] = j
  <2> SUFFICES ASSUME NEW j \in 1..(m + 1), j /= d
               PROVE  \E a \in 1..m : f[a] = j
      BY <1>10, <1>11
  <2>1. CASE j < d
    <3>1. j \in 1..m
          BY <1>8, <1>9, <2>1
    <3> QED BY <1>12, <2>1, <3>1
  <2>2. CASE j > d
    <3>1. j - 1 \in 1..m /\ ~(j - 1 < d) /\ (j - 1) + 1 = j
          BY <1>8, <1>9, <2>2
    <3>2. f[j - 1] = j
          BY <1>12, <3>1
    <3> QED BY <3>1, <3>2
  <2> QED BY <1>8, <1>9, <2>1, <2>2
<1>15. PICK v \in Seq(Turns) : /\ v = Remaining(w, {t}) /\ Len(v) = m
                               /\ \A n \in 1..m : v[n] = w[f[n]]
  <2>1. Sub(w, S) \in Seq(Turns) /\ Len(Sub(w, S)) = m /\ \A n \in 1..m : Sub(w, S)[n] = w[f[n]]
    <3>1. w \in Seq(Turns) /\ S \in SUBSET DOMAIN w /\ m \in Nat
          BY <1>5, <1>8, <1>11, <1>12
    <3>2. Enumerates(f, m, S)
          BY <1>12, <1>13, <1>14 DEF Enumerates
    <3> QED BY <3>1, <3>2, WithoutIs, ZenonT(40)
  <2>2. Remaining(w, {t}) = Sub(w, S)
        BY <1>11 DEF Remaining
  <2> QED BY <2>1, <2>2
<1>16. Ahead(p) = c /\ Owner(p) = Owner(q)
  <2>1. CASE c = 1
    <3>1. 1 \in 1..(Len(q) - 1) /\ 1 < i
          BY <1>6, <1>7, <2>1
    <3>2. p[1] = q[1] /\ q[1].state \in Claims /\ Owner(q) = q[1].turn
          BY <1>2, <1>4, <2>1, <3>1, QueueSeen
    <3>3. p[1].state /= "queued" /\ 1 \in DOMAIN p
          BY <1>2, <1>3, <3>1, <3>2, QueueSeen DEF Claims
    <3> QED BY <1>3, <2>1, <3>2, <3>3, QueueSeen
  <2>2. CASE c = 0
    <3>1. ASSUME Ahead(p) = 1
          PROVE  FALSE
      <4>1. 1 \in DOMAIN p /\ p[1].state \in Claims /\ DOMAIN p = 1..Len(p)
            BY <1>3, <3>1, QueueSeen
      <4>2. PICK j \in DOMAIN q : p[1] = q[j]
        <5>1. 1 \in 1..(Len(q) - 1)
              BY <1>2, <4>1
        <5>2. 1 \in DOMAIN q /\ 1 + 1 \in DOMAIN q
              BY <1>6, <5>1
        <5> QED BY <1>2, <5>1, <5>2
      <4>3. q[j].state = "queued"
            BY <1>6, <2>2, <4>2
      <4> QED BY <4>1, <4>2, <4>3 DEF Claims
    <3>2. Ahead(p) = 0
          BY <1>3, <3>1, QueueSeen
    <3> QED BY <1>3, <1>4, <2>2, <3>2, QueueSeen
  <2> QED BY <2>1, <2>2
<1>17. Waiting(p) = v
  <2>1. /\ Waiting(p) \in Seq(Turns) /\ Len(Waiting(p)) = m
        /\ \A n \in 1..m : Waiting(p)[n] = p[n + c].turn
    <3>1. Len(p) - Ahead(p) = m
          BY <1>2, <1>4, <1>6, <1>8, <1>16
    <3>2. /\ Waiting(p) \in Seq(Turns) /\ Len(Waiting(p)) = Len(p) - Ahead(p)
          /\ \A n \in 1..(Len(p) - Ahead(p)) : Waiting(p)[n] = p[n + Ahead(p)].turn
          BY <1>3, QueueSeen
    <3> QED BY <1>16, <3>1, <3>2
  <2>2. \A n \in 1..m : Waiting(p)[n] = v[n]
    <3> SUFFICES ASSUME NEW n \in 1..m
                 PROVE  Waiting(p)[n] = v[n]
        OBVIOUS
    <3>1. n + c \in 1..(Len(q) - 1) /\ (n + c < i <=> n < d) /\ n \in 1..(m + 1) /\ n + 1 \in 1..(m + 1)
          /\ (n + 1) + c = (n + c) + 1
      <4>1. Len(q) - 1 = m + c /\ c \in Nat /\ d \in Nat /\ i = d + c /\ n \in Nat
            BY <1>4, <1>6, <1>8, <1>9
      <4>2. n + c < i <=> n < d
            BY <4>1
      <4> QED BY <1>8, <4>1, <4>2
    <3>2. p[n + c] = IF n < d THEN q[n + c] ELSE q[(n + 1) + c]
          BY <1>2, <3>1
    <3>3. w[n] = q[n + c].turn /\ w[n + 1] = q[(n + 1) + c].turn
          BY <1>5, <1>10, <3>1
    <3> QED BY <1>12, <1>15, <2>1, <3>2, <3>3
  <2> QED BY <1>8, <1>15, <2>1, <2>2, SameWaiting
<1> QED BY <1>1, <1>2, <1>5, <1>15, <1>16, <1>17

(* A claim takes the Turn that waits longest.                              *)
LEMMA ClaimWaits ==
    ASSUME NEW s \in [Turns -> Statuses], NEW q, QueueOK(q, s), ready(q), NEW r \in Runs
    PROVE  /\ Owner(q) = NoTurn /\ Waiting(q) /= <<>> /\ q[1].turn = Head(Waiting(q))
           /\ Owner(claim(q, r)) = Head(Waiting(q))
           /\ Waiting(claim(q, r)) = Tail(Waiting(q))
<1>1. PICK p : p = claim(q, r)
      OBVIOUS
<1>2. /\ 1 \in DOMAIN q /\ q[1].turn \in Turns /\ Len(p) = Len(q)
      /\ p[1] = [turn |-> q[1].turn, state |-> "active", run |-> r]
      /\ \A i \in DOMAIN q : q[i].state = "queued" /\ (i /= 1 => p[i] = q[i])
      BY <1>1, ClaimOK
<1>3. PICK z \in [Turns -> Statuses] : QueueOK(p, z)
  <2>1. Said(s, q[1].turn, "active") \in [Turns -> Statuses]
        BY DEF Said, Statuses
  <2> QED BY <1>1, <2>1, ClaimOK
<1>4. Len(q) \in Nat /\ DOMAIN q = 1..Len(q) /\ Len(q) >= 1 /\ DOMAIN p = 1..Len(p)
      BY <1>2, <1>3, QueueSeen
<1>5. Ahead(q) = 0 /\ Owner(q) = NoTurn
      BY <1>2, QueueSeen DEF Claims
<1>6. p[1].state = "active" /\ p[1].turn = q[1].turn /\ 1 \in DOMAIN p
      BY <1>2, <1>4
<1>7. Ahead(p) = 1 /\ Owner(p) = q[1].turn
      BY <1>3, <1>6, QueueSeen DEF Claims
<1>8. PICK w \in Seq(Turns) : /\ w = Waiting(q) /\ Len(w) = Len(q)
                              /\ \A n \in 1..Len(q) : w[n] = q[n].turn
  <2>1. /\ Waiting(q) \in Seq(Turns) /\ Len(Waiting(q)) = Len(q) - 0
        /\ \A n \in 1..(Len(q) - 0) : Waiting(q)[n] = q[n + 0].turn
        BY <1>5, QueueSeen
  <2> QED BY <1>4, <2>1
<1>9. PICK v \in Seq(Turns) : /\ v = Waiting(p) /\ Len(v) = Len(q) - 1
                              /\ \A n \in 1..(Len(q) - 1) : v[n] = p[n + 1].turn
  <2>1. /\ Waiting(p) \in Seq(Turns) /\ Len(Waiting(p)) = Len(p) - Ahead(p)
        /\ \A n \in 1..(Len(p) - Ahead(p)) : Waiting(p)[n] = p[n + Ahead(p)].turn
        BY <1>3, QueueSeen
  <2>2. /\ Waiting(p) \in Seq(Turns) /\ Len(Waiting(p)) = Len(p) - 1
        /\ \A n \in 1..(Len(p) - 1) : Waiting(p)[n] = p[n + 1].turn
        BY <1>7, <2>1
  <2> QED BY <1>2, <2>2
<1>10. w /= <<>> /\ Head(w) = q[1].turn
       BY <1>4, <1>8
<1>11. v = Tail(w)
  <2>1. /\ Tail(w) \in Seq(Turns) /\ Len(Tail(w)) = Len(q) - 1
        /\ \A n \in 1..(Len(q) - 1) : Tail(w)[n] = w[n + 1]
        BY <1>4, <1>8, <1>10
  <2>2. \A n \in 1..(Len(q) - 1) : v[n] = Tail(w)[n]
    <3> SUFFICES ASSUME NEW n \in 1..(Len(q) - 1)
                 PROVE  v[n] = Tail(w)[n]
        OBVIOUS
    <3>1. n + 1 \in DOMAIN q /\ n + 1 /= 1 /\ n + 1 \in 1..Len(q)
          BY <1>4
    <3> QED BY <1>2, <1>8, <1>9, <2>1, <3>1
  <2>3. Len(q) - 1 \in Nat
        BY <1>4
  <2> QED BY <1>9, <2>1, <2>2, <2>3, SameWaiting
<1> QED BY <1>1, <1>5, <1>7, <1>8, <1>9, <1>10, <1>11

(* A settlement concerns the owner only.                                   *)
LEMMA SettleWaits ==
    ASSUME NEW s \in [Turns -> Statuses], NEW q, QueueOK(q, s),
           1 \in DOMAIN q, q[1].state \in Claims,
           NEW state \in {"completed", "failed", "canceled", "outcome_unknown"}
    PROVE  /\ Owner(q) = q[1].turn /\ q[1].turn \in Turns /\ s[q[1].turn] = q[1].state
           /\ Waiting(settle(q, 1, state)) = Waiting(q)
           /\ Owner(settle(q, 1, state)) = IF state = "outcome_unknown" THEN Owner(q) ELSE NoTurn
<1>1. PICK p : p = settle(q, 1, state)
      OBVIOUS
<1>2. PICK z \in [Turns -> Statuses] : QueueOK(p, z)
  <2>1. Said(s, q[1].turn, state) \in [Turns -> Statuses]
        BY DEF Said, Statuses
  <2> QED BY <1>1, <2>1, SettleOK
<1>3. Len(q) \in Nat /\ DOMAIN q = 1..Len(q) /\ Len(q) >= 1 /\ DOMAIN p = 1..Len(p) /\ Len(p) \in Nat
      BY <1>2, QueueSeen
<1>4. q[1].state /= "queued"
      BY DEF Claims
<1>5. Ahead(q) = 1 /\ Owner(q) = q[1].turn /\ Owner(q) \in Turns /\ s[q[1].turn] = q[1].state
      BY <1>4, QueueSeen
<1>6. PICK w \in Seq(Turns) : /\ w = Waiting(q) /\ Len(w) = Len(q) - 1
                              /\ \A n \in 1..(Len(q) - 1) : w[n] = q[n + 1].turn
  <2>1. /\ Waiting(q) \in Seq(Turns) /\ Len(Waiting(q)) = Len(q) - Ahead(q)
        /\ \A n \in 1..(Len(q) - Ahead(q)) : Waiting(q)[n] = q[n + Ahead(q)].turn
        BY QueueSeen
  <2>2. /\ Waiting(q) \in Seq(Turns) /\ Len(Waiting(q)) = Len(q) - 1
        /\ \A n \in 1..(Len(q) - 1) : Waiting(q)[n] = q[n + 1].turn
        BY <1>5, <2>1
  <2> QED BY <2>2
<1>7. CASE state = "outcome_unknown"
  <2>1. /\ Len(p) = Len(q) /\ p[1].turn = q[1].turn /\ p[1].state = state
        /\ \A i \in DOMAIN q : i /= 1 => p[i] = q[i]
        BY <1>1, <1>7, SettleOK
  <2>2. Ahead(p) = 1 /\ Owner(p) = q[1].turn
        BY <1>2, <1>3, <1>7, <2>1, QueueSeen DEF Claims
  <2>3. PICK v \in Seq(Turns) : /\ v = Waiting(p) /\ Len(v) = Len(q) - 1
                                /\ \A n \in 1..(Len(q) - 1) : v[n] = p[n + 1].turn
    <3>1. /\ Waiting(p) \in Seq(Turns) /\ Len(Waiting(p)) = Len(p) - Ahead(p)
          /\ \A n \in 1..(Len(p) - Ahead(p)) : Waiting(p)[n] = p[n + Ahead(p)].turn
          BY <1>2, QueueSeen
    <3>2. Len(p) - Ahead(p) = Len(q) - 1
          BY <2>1, <2>2
    <3> QED BY <2>2, <3>1, <3>2
  <2>4. Len(q) - 1 \in Nat /\ \A n \in 1..(Len(q) - 1) : n + 1 \in DOMAIN q /\ n + 1 /= 1
        BY <1>3
  <2>5. \A n \in 1..(Len(q) - 1) : v[n] = w[n]
        BY <1>6, <2>1, <2>3, <2>4
  <2>6. v = w
        BY <1>6, <2>3, <2>4, <2>5, SameWaiting
  <2> QED BY <1>1, <1>5, <1>6, <1>7, <2>2, <2>3, <2>6
<1>8. CASE state /= "outcome_unknown"
  <2>1. /\ Len(p) = Len(q) - 1
        /\ \A i \in DOMAIN p : p[i] = q[i + 1] /\ p[i].state = "queued"
        BY <1>1, <1>8, SettleOK
  <2>2. Ahead(p) = 0 /\ Owner(p) = NoTurn
        BY <1>2, <2>1, QueueSeen DEF Claims
  <2>3. PICK v \in Seq(Turns) : /\ v = Waiting(p) /\ Len(v) = Len(p)
                                /\ \A n \in 1..Len(p) : v[n] = p[n].turn
    <3>1. /\ Waiting(p) \in Seq(Turns) /\ Len(Waiting(p)) = Len(p) - 0
          /\ \A n \in 1..(Len(p) - 0) : Waiting(p)[n] = p[n + 0].turn
          BY <1>2, <2>2, QueueSeen
    <3> QED BY <1>3, <3>1
  <2>4. \A n \in 1..Len(p) : v[n] = w[n]
        BY <1>3, <1>6, <2>1, <2>3
  <2>5. Len(w) = Len(p)
        BY <1>6, <2>1
  <2>6. v = w
        BY <1>3, <1>6, <2>3, <2>4, <2>5, SameWaiting
  <2> QED BY <1>1, <1>5, <1>6, <1>8, <2>2, <2>3, <2>6
<1> QED BY <1>7, <1>8


LEMMA WithoutShown ==
    ASSUME NEW gone
    PROVE  Promise!Without(gone) = Remaining(Waiting(queue), gone)
<1>1. \A w, S : Promise!Sub(w, S) = Sub(w, S)
      BY Zenon DEF Promise!Sub, Promise!Nth, Promise!Cardinality, Sub, Nth, Cardinality
<1> QED BY <1>1 DEF Promise!Without, Remaining

(* What the steps of ManagedRun are to a client.                           *)
LEMMA AdmitShown ==
    ASSUME CoreInv, NEW t \in Turns, admit(t)
    PROVE  Promise!Admit(t)
<1>1. QueueOK(queue, status) /\ status \in [Turns -> Statuses] /\ status[t] = "absent"
      BY DEF CoreInv, TypeOK, admit
<1>2. queue' = prepare(queue, t) /\ status' = Admitted(t)
      BY DEF admit
<1>3. PICK gone : gone = Displaced(queue, t)
      OBVIOUS
<1>4. /\ Owner(queue') = Owner(queue)
      /\ Waiting(queue') = Append(Remaining(Waiting(queue), gone), t)
      /\ \A u \in gone : /\ \E n \in DOMAIN Waiting(queue) : Waiting(queue)[n] = u
                         /\ Source[u] /= "user" /\ Source[t] \in {"user", Source[u]}
      BY <1>1, <1>2, <1>3, PrepareWaits
<1>5. gone \in SUBSET Turns /\ Promise!Displace(t, gone)
  <2>1. Waiting(queue) \in Seq(Turns)
        BY <1>1, QueueSeen
  <2>2. \A u \in gone : u \in ToSet(Waiting(queue)) /\ u \in Turns
        BY <1>4, <2>1 DEF ToSet
  <2> QED BY <1>4, <2>2 DEF Promise!Displace, Promise!ToSet
<1>6. status' = Promise!Admitted(t, gone)
      BY <1>2, <1>3 DEF Admitted, DisplacedState, Promise!Admitted
<1>7. Waiting(queue') = Promise!After(t, gone)
      BY <1>4, WithoutShown DEF Promise!After
<1> QED BY <1>1, <1>4, <1>5, <1>6, <1>7 DEF Promise!Admit

LEMMA WithdrawShown ==
    ASSUME CoreInv, NEW t \in Turns, Withdraw(t)
    PROVE  Promise!Withdraw(t)
<1>1. QueueOK(queue, status) /\ status \in [Turns -> Statuses]
      BY DEF CoreInv, TypeOK
<1>2. PICK i \in position(queue, t) : queue[i].state = "queued" /\ Source[t] = "user"
      BY DEF Withdraw
<1>3. queue' = withdraw(queue, t) /\ status' = [status EXCEPT ![t] = "withdrawn"]
      BY DEF Withdraw
<1>4. /\ status[t] = "queued" /\ Owner(queue') = Owner(queue)
      /\ Waiting(queue') = Remaining(Waiting(queue), {t})
      BY <1>1, <1>2, <1>3, WithdrawWaits
<1> QED BY <1>2, <1>3, <1>4, WithoutShown DEF Promise!Withdraw

LEMMA StartShown ==
    ASSUME CoreInv, NEW r \in Runs, NEW t \in Turns, StartRun(r, t)
    PROVE  Promise!AdmitAndClaim(t)
<1>1. QueueOK(queue, status) /\ status \in [Turns -> Statuses] /\ status[t] = "absent"
      BY DEF CoreInv, TypeOK, StartRun
<1>2. PICK q : q = prepare(queue, t)
      OBVIOUS
<1>3. PICK s : s = AfterAdmission(queue, status, t)
      OBVIOUS
<1>4. s \in [Turns -> Statuses] /\ s = Admitted(t) /\ QueueOK(q, s)
  <2>1. s \in [Turns -> Statuses] /\ s = Admitted(t)
        BY <1>1, <1>3 DEF AfterAdmission, Admitted, DisplacedState, Statuses
  <2> QED BY <1>1, <1>2, <1>3, <2>1, PrepareOK
<1>5. ready(q) /\ queue' = claim(q, r) /\ status' = [s EXCEPT ![q[1].turn] = "active"]
      BY <1>2, <1>4 DEF StartRun, install, claimed
<1>6. PICK gone : gone = Displaced(queue, t)
      OBVIOUS
<1>7. /\ Owner(q) = Owner(queue)
      /\ Waiting(q) = Append(Remaining(Waiting(queue), gone), t)
      /\ \A u \in gone : /\ \E n \in DOMAIN Waiting(queue) : Waiting(queue)[n] = u
                         /\ Source[u] /= "user" /\ Source[t] \in {"user", Source[u]}
      BY <1>1, <1>2, <1>6, PrepareWaits
<1>8. /\ Owner(q) = NoTurn /\ q[1].turn = Head(Waiting(q))
      /\ Owner(queue') = Head(Waiting(q)) /\ Waiting(queue') = Tail(Waiting(q))
      BY <1>4, <1>5, ClaimWaits
<1>9. gone \in SUBSET Turns /\ Promise!Displace(t, gone)
  <2>1. Waiting(queue) \in Seq(Turns)
        BY <1>1, QueueSeen
  <2>2. \A u \in gone : u \in ToSet(Waiting(queue)) /\ u \in Turns
        BY <1>7, <2>1 DEF ToSet
  <2> QED BY <1>7, <2>2 DEF Promise!Displace, Promise!ToSet
<1>10. s = Promise!Admitted(t, gone)
       BY <1>3, <1>6 DEF AfterAdmission, DisplacedState, Promise!Admitted
<1>11. Waiting(q) = Promise!After(t, gone)
       BY <1>7, WithoutShown DEF Promise!After
<1>12. /\ Owner(queue') = Head(Promise!After(t, gone)) /\ Waiting(queue') = Tail(Promise!After(t, gone))
       /\ status' = [Promise!Admitted(t, gone) EXCEPT ![Owner(queue')] = "active"]
       BY <1>5, <1>8, <1>10, <1>11
<1> QED BY <1>1, <1>7, <1>8, <1>9, <1>12 DEF Promise!AdmitAndClaim

(* A Run takes the oldest Turn: continuation and dispatch.                 *)
LEMMA ClaimShown ==
    ASSUME CoreInv, NEW r \in Runs, ready(queue), queue' = claim(queue, r),
           status' = [status EXCEPT ![queue[claimed(queue)].turn] = "active"]
    PROVE  Promise!Claim
<1>1. QueueOK(queue, status) /\ status \in [Turns -> Statuses]
      BY DEF CoreInv, TypeOK
<1>2. /\ Owner(queue) = NoTurn /\ Waiting(queue) /= <<>> /\ queue[1].turn = Head(Waiting(queue))
      /\ Owner(queue') = Head(Waiting(queue)) /\ Waiting(queue') = Tail(Waiting(queue))
      BY <1>1, ClaimWaits
<1>3. status' = [status EXCEPT ![Owner(queue')] = "active"]
      BY <1>2 DEF claimed
<1> QED BY <1>2, <1>3 DEF Promise!Claim

LEMMA SettleShown ==
    ASSUME CoreInv, NEW r \in Runs,
           NEW state \in {"none", "completed", "failed", "canceled", "outcome_unknown"},
           Settle(r, state)
    PROVE  \/ UNCHANGED <<queue, status>>
           \/ Promise!Doubt
           \/ \E outcome \in Promise!Outcomes : Promise!Settle(outcome)
<1>1. QueueOK(queue, status) /\ status \in [Turns -> Statuses]
      BY DEF CoreInv, TypeOK
<1>2. SUFFICES ASSUME ~UNCHANGED <<queue, status>>
               PROVE  Promise!Doubt \/ \E outcome \in Promise!Outcomes : Promise!Settle(outcome)
      OBVIOUS
<1>3. state /= "none" /\ Owned(queue, r) /= {}
      BY <1>2 DEF Settle
<1>4. /\ Min(Owned(queue, r)) = 1 /\ 1 \in DOMAIN queue /\ queue[1].state \in Claims
      BY <1>1, <1>3, OwnedIsFirst
<1>5. /\ queue[1].state /= state /\ queue' = settle(queue, 1, state)
      /\ status' = [status EXCEPT ![queue[1].turn] = state]
      BY <1>2, <1>3, <1>4 DEF Settle
<1>6. /\ Owner(queue) = queue[1].turn /\ queue[1].turn \in Turns
      /\ status[queue[1].turn] = queue[1].state /\ Waiting(queue') = Waiting(queue)
      /\ Owner(queue') = IF state = "outcome_unknown" THEN Owner(queue) ELSE NoTurn
      BY <1>1, <1>3, <1>4, <1>5, SettleWaits
<1>7. Owner(queue) /= NoTurn /\ status' = [status EXCEPT ![Owner(queue)] = state]
      BY <1>5, <1>6, QueueAssumption
<1>8. CASE state = "outcome_unknown"
  <2>1. status[Owner(queue)] = "active"
        BY <1>4, <1>5, <1>6, <1>8 DEF Claims
  <2> QED BY <1>6, <1>7, <1>8, <2>1 DEF Promise!Doubt
<1>9. CASE state /= "outcome_unknown"
  <2>1. state \in Promise!Outcomes
        BY <1>3, <1>9 DEF Promise!Outcomes
  <2>2. Promise!Settle(state)
        BY <1>6, <1>7, <1>9 DEF Promise!Settle
  <2> QED BY <2>1, <2>2
<1> QED BY <1>8, <1>9


(* Every step changes the queue and the journal as one of these.           *)
QueueSteps ==
    \/ UNCHANGED <<queue, status>>
    \/ \E t \in Turns : admit(t) \/ Withdraw(t)
    \/ \E r \in Runs, t \in Turns : StartRun(r, t)
    \/ \E r \in Runs : /\ ready(queue) /\ queue' = claim(queue, r)
                       /\ status' = [status EXCEPT ![queue[claimed(queue)].turn] = "active"]
    \/ \E r \in Runs, state \in {"none", "completed", "failed", "canceled", "outcome_unknown"} :
          Settle(r, state)

LEMMA RecordSettles ==
    ASSUME NEW r \in Runs, NEW obs \in Seen, NEW boundary, record(r, obs, boundary)
    PROVE  QueueSteps
BY SettlementValue DEF record, QueueSteps

LEMMA ObserveSettles ==
    ASSUME NEW r \in Runs, NEW kind \in {"launch_failed", "lost", "reconnected", "disconnected"},
           observe_run(r, kind)
    PROVE  QueueSteps
<1>1. Supervisor(kind) \in Seen
      BY DEF Supervisor, Observation, Seen, Observations, MaybeTurn
<1> QED BY <1>1, RecordSettles DEF observe_run

LEMMA StepQueue ==
    ASSUME TypeOK, [Next]_vars
    PROVE  QueueSteps
<1>1. ASSUME UNCHANGED <<queue, status>>
      PROVE  QueueSteps
      BY <1>1 DEF QueueSteps
<1>2. CASE UNCHANGED vars
      BY <1>1, <1>2 DEF vars, durable
<1>3. CASE Next
  <2>1. CASE \E t \in Turns : admit(t) \/ Withdraw(t)
        BY <2>1 DEF QueueSteps
  <2>2. CASE \E r \in Runs, t \in Turns : StartRun(r, t)
        BY <2>2 DEF QueueSteps
  <2>3. CASE \E c \in Controls, r \in Runs, kind \in {"interrupt", "stop"} : RecordControl(c, r, kind)
        BY <1>1, <2>3 DEF RecordControl
  <2>4. ASSUME NEW r \in Runs, prepare_queued_run(r)
        PROVE  QueueSteps
        BY <2>4 DEF QueueSteps, prepare_queued_run, install
  <2>5. ASSUME NEW r \in Runs, Launch(r)
        PROVE  QueueSteps
    <3>1. CASE LaunchRefused(r)
          BY <1>1, <3>1, ObserveSettles DEF LaunchRefused
    <3>2. CASE ~LaunchRefused(r)
          BY <1>1, <2>5, <3>2 DEF Launch, LaunchGoesOn, LaunchBegins, LaunchSends, LaunchReturns, LaunchUnknown,
             LaunchReconciles, durable
    <3> QED BY <3>1, <3>2
  <2>6. ASSUME NEW r \in Runs, Monitor(r)
        PROVE  QueueSteps
    <3>1. CASE CommitGroup(r)
          BY <3>1, HeardSeen, RecordSettles DEF CoreInv, CommitGroup, Reading
    <3>2. CASE CommitBoundary(r)
      <4>1. CASE run[r].partial
            BY <1>1, <3>2, <4>1 DEF CommitBoundary
      <4>2. CASE ~run[r].partial
            BY <3>2, <4>2, HeardSeen, RecordSettles DEF CoreInv, CommitBoundary, Reading
      <4> QED BY <4>1, <4>2
    <3>3. CASE DispatchTurn(r)
          BY <3>3 DEF QueueSteps, DispatchTurn, MayDispatch
    <3>4. CASE MonitorSettles(r)
          BY <3>4, ObserveSettles DEF MonitorSettles
    <3>5. CASE CommitRefused(r) \/ SubmitTurn(r) \/ MonitorFinishes(r)
          BY <1>1, <3>5 DEF CommitRefused, SubmitTurn, MonitorFinishes, durable
    <3> QED BY <2>6, <3>1, <3>2, <3>3, <3>4, <3>5 DEF Monitor
  <2>7. ASSUME NEW r \in Runs, Recover(r) \/ Resolve(r) \/ ResolveSettles(r)
        PROVE  QueueSteps
    <3>1. CASE RecoverLost(r) \/ RecoverUnavailable(r)
          BY <3>1, ObserveSettles DEF RecoverLost, RecoverUnavailable
    <3>2. CASE RecoverConnects(r) \/ ResolveAdopt(r)
          BY <1>1, <3>2, ObserveSettles DEF RecoverConnects, ResolveAdopt, Reconnect
    <3>3. CASE RecoverUnsafe(r) \/ ResolveTerminate(r) \/ ResolveSettles(r)
          BY <1>1, <3>3 DEF RecoverUnsafe, ResolveTerminate, ResolveSettles, durable
    <3> QED BY <2>7, <3>1, <3>2, <3>3 DEF Recover, Resolve
  <2>8. ASSUME NEW r \in Runs, Harness(r) \/ MonitorFails(r) \/ RequestLost(r) \/ HelperDies(r)
        PROVE  QueueSteps
        BY <1>1, <2>8 DEF Harness, HelperStarts, HarnessCompletes, HarnessInterrupted, HarnessEnds,
           MonitorFails, RequestLost, HelperDies, durable
  <2>9. ASSUME NEW c \in Controls, Control(c)
        PROVE  QueueSteps
        BY <1>1, <2>9 DEF Control, ControlGoesOn, ControlBegins, ControlNative, ControlNativeFails, ControlSignals,
           ControlSettles, ControlUnknown, ControlReconciles, durable
  <2>10. CASE Crash \/ Reboot
        BY <1>1, <2>10 DEF Crash, Reboot, durable
  <2> QED BY <1>3, <2>1, <2>2, <2>3, <2>4, <2>5, <2>6, <2>7, <2>8, <2>9, <2>10 DEF Next
<1> QED BY <1>2, <1>3

LEMMA Simulation ==
    ASSUME CoreInv, [Next]_vars
    PROVE  [Promise!Next]_(Promise!vars)
<1>1. QueueSteps
      BY StepQueue DEF CoreInv
<1>2. ASSUME UNCHANGED <<queue, status>>
      PROVE  UNCHANGED Promise!vars
      BY <1>2 DEF Promise!vars
<1>3. ASSUME NEW t \in Turns, admit(t) \/ Withdraw(t)
      PROVE  Promise!Next
      BY <1>3, AdmitShown, WithdrawShown DEF Promise!Next
<1>4. ASSUME NEW r \in Runs, NEW t \in Turns, StartRun(r, t)
      PROVE  Promise!Next
      BY <1>4, StartShown DEF Promise!Next
<1>5. ASSUME NEW r \in Runs, ready(queue), queue' = claim(queue, r),
             status' = [status EXCEPT ![queue[claimed(queue)].turn] = "active"]
      PROVE  Promise!Next
      BY <1>5, ClaimShown DEF Promise!Next
<1>6. ASSUME NEW r \in Runs,
             NEW state \in {"none", "completed", "failed", "canceled", "outcome_unknown"},
             Settle(r, state)
      PROVE  Promise!Next \/ UNCHANGED Promise!vars
      BY <1>2, <1>6, SettleShown DEF Promise!Next
<1> QED BY <1>1, <1>2, <1>3, <1>4, <1>5, <1>6 DEF QueueSteps

LEMMA InitShown ==
    ASSUME Init
    PROVE  Promise!Init
<1>1. queue = <<>> /\ status = [t \in Turns |-> "absent"]
      BY DEF Init
<1>2. Owners(queue) = {} /\ Len(queue) = 0
      BY <1>1 DEF Owners
<1>3. Owner(queue) = NoTurn /\ Ahead(queue) = 0
      BY <1>2 DEF Owner, Ahead
<1>4. Waiting(queue) = <<>>
      BY <1>2, <1>3 DEF Waiting
<1> QED BY <1>1, <1>3, <1>4 DEF Promise!Init

(* The queue of a Conversation, through whatever happens to jetd, Crafts   *)
(* and helpers, keeps the promise to its clients: every step of ManagedRun *)
(* is a step of TurnLifecycle or leaves what clients see as it was.        *)
THEOREM PromiseKept == Spec => TurnsKeepPromise
<1>1. Init => Promise!Init
      BY InitShown
<1>2. CoreInv /\ [Next]_vars => [Promise!Next]_(Promise!vars)
      BY Simulation
<1>3. SafeInv => CoreInv
      BY DEF SafeInv
<1>4. Spec => Init /\ [][Next]_vars
      BY DEF Spec
<1> QED BY <1>1, <1>2, <1>3, <1>4, AlwaysSafe, PTL DEF TurnsKeepPromise, Promise!Spec
=============================================================================
