---------------------------- MODULE EffectOutbox ----------------------------
(***************************************************************************)
(* The durable Effect outbox of one Plane (ADR-0064, ADR-0067): the rows   *)
(* of jet-store/src/effect.rs, the generic sweep of jet-core/src/effect.rs *)
(* and the three sweeps with an attempt policy of their own: Utility work, *)
(* extension changes and Git deliveries.                                   *)
(*                                                                         *)
(* A row survives a crash of jetd; a sweep, the locks and what a sweep has *)
(* read do not.  External work is a request per attempt: it is sent when   *)
(* the attempt begins, and it may take effect, or prove never to have      *)
(* taken effect, at any later moment, a crash of jetd included.            *)
(***************************************************************************)
EXTENDS Integers, FiniteSets

CONSTANTS
    Effects,      \* Effect identities
    Workers,      \* tasks of the daemon that sweep the outbox
    Kind,         \* Kind[e]: the EffectKindRecord of the row
    Safety,       \* Safety[e]: "read_only", "idempotent" or "ambiguous"
    MaxAttempts,  \* MaxAttempts[e]: the row's max_attempts
    MaxFaults,    \* bound on crashes, aborted sweeps and refusals of launches
    NoWorker, NoEffect

OutboxKinds == {"StartTerminal", "CloseTerminal", "ResolveExecution", "StartRun",
                "ControlRun", "PromoteWorkspace", "InstallCraft"}
Kinds == OutboxKinds \union {"GitDelivery", "ChangeExtension", "Utility"}

(* The CHECK constraints of the effects table.                             *)
ASSUME OutboxAssumption ==
    /\ IsFiniteSet(Effects)
    /\ Kind \in [Effects -> Kinds]
    /\ Safety \in [Effects -> {"read_only", "idempotent", "ambiguous"}]
    /\ MaxAttempts \in [Effects -> Nat \ {0}]
    /\ \A e \in Effects : Safety[e] = "ambiguous" => MaxAttempts[e] = 1
    /\ \A e \in Effects :
          Kind[e] \in {"GitDelivery", "ChangeExtension", "Utility"} => Safety[e] = "ambiguous"
    /\ MaxFaults \in Nat
    /\ NoWorker \notin Workers
    /\ NoEffect \notin Effects

VARIABLES
    effects,   \* the table: state and attempt_count of every row
    rowid,     \* insertion order among the rows of one kind, 0 before it
    request,   \* request[e][n]: what became of the external work of attempt n
    lock,      \* holder of each of the two async mutexes
    phase,     \* where each worker is in its sweep
    kind,      \* the kind a worker sweeps
    todo,      \* rows of the sweep's one read that are still to be handled
    seen,      \* the rows as that read returned them
    current,   \* the row a worker is handling
    deferred,  \* kinds whose launches are refused before an attempt
    woken,     \* kinds that some task of the daemon is about to sweep
    faults     \* crashes, aborted sweeps and refusals so far

vars == <<effects, rowid, request, lock, phase, kind, todo, seen, current, deferred, woken, faults>>
sweepVars == <<phase, kind, todo, seen, current>>

Unresolved == {"pending", "in_flight"}
Terminal == {"completed", "failed", "outcome_unknown"}
Row == [state : {"absent"} \union Unresolved \union Terminal, attempts : Nat]
Locks == {"effect_reconciliation", "utility_work"}
LockOf(k) == IF k = "Utility" THEN "utility_work" ELSE "effect_reconciliation"

(* Kinds whose launch may be refused without spending an attempt: disk     *)
(* pressure for the launch kinds, live executions for an extension change, *)
(* an unfinished predecessor for a Git delivery.                           *)
LaunchKinds == {"StartRun", "StartTerminal", "PromoteWorkspace", "InstallCraft",
                "GitDelivery", "ChangeExtension"}

SweptKinds == {Kind[e] : e \in Effects}

(* Kinds that only the connection of an acknowledged Command sweeps, apart *)
(* from a start, and kinds whose loop sweeps again after an error.         *)
SessionKinds == {"ControlRun", "PromoteWorkspace"}
RetriedKinds == {"InstallCraft", "ChangeExtension", "Utility", "GitDelivery"}

Attempts(e) == 1..MaxAttempts[e]
RequestStates == {"none", "sent", "done", "dropped"}

TypeOK ==
    /\ effects \in [Effects -> Row]
    /\ rowid \in [Effects -> Nat]
    /\ request = [e \in Effects |-> request[e]]
    /\ \A e \in Effects : request[e] \in [Attempts(e) -> RequestStates]
    /\ lock \in [Locks -> Workers \union {NoWorker}]
    /\ phase \in [Workers -> {"idle", "next", "reconciling", "executing"}]
    /\ kind \in [Workers -> Kinds]
    /\ todo \in [Workers -> SUBSET Effects]
    /\ seen \in [Workers -> [Effects -> Row]]
    /\ current \in [Workers -> Effects \union {NoEffect}]
    /\ deferred \subseteq LaunchKinds
    /\ woken \subseteq Kinds
    /\ faults \in 0..MaxFaults

Blank == [e \in Effects |-> [state |-> "absent", attempts |-> 0]]

Init ==
    /\ effects = Blank
    /\ rowid = [e \in Effects |-> 0]
    /\ request = [e \in Effects |-> [n \in Attempts(e) |-> "none"]]
    /\ lock = [l \in Locks |-> NoWorker]
    /\ phase = [w \in Workers |-> "idle"]
    /\ kind = [w \in Workers |-> "StartRun"]
    /\ todo = [w \in Workers |-> {}]
    /\ seen = [w \in Workers |-> Blank]
    /\ current = [w \in Workers |-> NoEffect]
    /\ deferred = {}
    /\ woken = SweptKinds
    /\ faults = 0

-----------------------------------------------------------------------------
(* Rows.                                                                   *)

(* The loops are notified of every Command; a connection may be lost       *)
(* before it has begun the sweep of a Command's Effect.                    *)
Notifies(e) ==
    \/ woken' = woken \union {Kind[e]}
    \/ Kind[e] \in SessionKinds /\ UNCHANGED woken

(* Mutant: a Command that is repeated replaces the row.                    *)
insert_effect_Replaces(e) ==
    /\ effects' = [effects EXCEPT ![e] = [state |-> "pending", attempts |-> 0]]
    /\ rowid' = [rowid EXCEPT ![e] =
                    1 + Cardinality({f \in Effects : Kind[f] = Kind[e] /\ rowid[f] # 0})]
    /\ Notifies(e)
    /\ UNCHANGED <<request, lock, sweepVars, deferred, faults>>

(* A Command commits an Effect with the change that initiates it.          *)
insert_effect(e) ==
    /\ effects[e].state = "absent"
    /\ effects' = [effects EXCEPT ![e] = [state |-> "pending", attempts |-> 0]]
    /\ rowid' = [rowid EXCEPT ![e] =
                    1 + Cardinality({f \in Effects : Kind[f] = Kind[e] /\ rowid[f] # 0})]
    /\ Notifies(e)
    /\ UNCHANGED <<request, lock, sweepVars, deferred, faults>>

(* The attempt is durable before the Adapter is called.                    *)
begin_effect_attempt(e) ==
    /\ effects[e].state \in Unresolved
    /\ effects' = [effects EXCEPT ![e] =
                      [state |-> "in_flight", attempts |-> effects[e].attempts + 1]]

(* A terminal state is recorded only over an attempt in flight.            *)
finish_effect(e, state) ==
    /\ effects[e].state = "in_flight"
    /\ effects' = [effects EXCEPT ![e].state = state]

(* Mutant: one attempt more than the policy.                               *)
may_retry_OffByOne(e, attempts) == Safety[e] # "ambiguous" /\ attempts <= MaxAttempts[e]

may_retry(e, attempts) == Safety[e] # "ambiguous" /\ attempts < MaxAttempts[e]

(* Mutant: rows in flight are not found again after a restart.             *)
unresolved_PendingOnly(k) == {e \in Effects : Kind[e] = k /\ effects[e].state = "pending"}

unresolved_effects_of(k) ==
    {e \in Effects : Kind[e] = k /\ effects[e].state \in Unresolved}

-----------------------------------------------------------------------------
(* External work.                                                          *)

(* The number of the attempt that is in flight, or was last.               *)
Attempt(e) == effects[e].attempts
Done(e) == {n \in Attempts(e) : request[e][n] = "done"}
Outstanding(e) == {n \in Attempts(e) : request[e][n] = "sent"}

(* A request that was sent takes effect, whether or not jetd still waits.  *)
Perform(e) ==
    /\ \E n \in Outstanding(e) : request' = [request EXCEPT ![e][n] = "done"]
    /\ UNCHANGED <<effects, rowid, lock, sweepVars, deferred, woken, faults>>

(* A request is lost before it takes effect.                               *)
Vanish(e) ==
    /\ \E n \in Outstanding(e) : request' = [request EXCEPT ![e][n] = "dropped"]
    /\ UNCHANGED <<effects, rowid, lock, sweepVars, deferred, woken, faults>>

-----------------------------------------------------------------------------
(* Sweeps.                                                                 *)

(* Mutant: the guard is not waited for.                                    *)
TakeLock_NoWait(w, k) == lock' = [lock EXCEPT ![LockOf(k)] = w]

(* A worker takes the lock of a kind and reads the unresolved rows once.   *)
TakeLock(w, k) ==
    /\ lock[LockOf(k)] = NoWorker
    /\ lock' = [lock EXCEPT ![LockOf(k)] = w]

(* A notification is used up before the rows are read, so that one for a   *)
(* row the read does not find is kept (Notify).                            *)
BeginSweep(w, k) ==
    /\ phase[w] = "idle"
    /\ k \in woken /\ woken' = woken \ {k}
    /\ TakeLock(w, k)
    /\ phase' = [phase EXCEPT ![w] = "next"]
    /\ kind' = [kind EXCEPT ![w] = k]
    /\ todo' = [todo EXCEPT ![w] = unresolved_effects_of(k)]
    /\ seen' = [seen EXCEPT ![w] =
                   [e \in Effects |-> IF e \in unresolved_effects_of(k) THEN effects[e]
                                      ELSE Blank[e]]]
    /\ UNCHANGED <<effects, rowid, request, current, deferred, faults>>

(* The end of a sweep, by a return or by an error, drops the guard.        *)
Release(w) ==
    /\ lock' = [l \in Locks |-> IF lock[l] = w THEN NoWorker ELSE lock[l]]
    /\ phase' = [phase EXCEPT ![w] = "idle"]
    /\ todo' = [todo EXCEPT ![w] = {}]
    /\ seen' = [seen EXCEPT ![w] = Blank]
    /\ current' = [current EXCEPT ![w] = NoEffect]
    /\ kind' = [kind EXCEPT ![w] = "StartRun"]

EndSweep(w) ==
    /\ phase[w] = "next" /\ todo[w] = {}
    /\ Release(w)
    /\ UNCHANGED <<effects, rowid, request, deferred, woken, faults>>

(* The rows are handled in the order of their insertion.                   *)
IsNext(w, e) ==
    /\ phase[w] = "next"
    /\ e \in todo[w]
    /\ \A f \in todo[w] : rowid[e] <= rowid[f]

(* The worker is through with row e and goes to the next one.              *)
Handled(w, e) ==
    /\ phase' = [phase EXCEPT ![w] = "next"]
    /\ todo' = [todo EXCEPT ![w] = todo[w] \ {e}]
    /\ seen' = [seen EXCEPT ![w][e] = Blank[e]]
    /\ current' = [current EXCEPT ![w] = NoEffect]
    /\ UNCHANGED kind

(* The worker is inside a call of the Adapter for row e.                   *)
Calling(w, e, p) ==
    /\ phase' = [phase EXCEPT ![w] = p]
    /\ current' = [current EXCEPT ![w] = e]
    /\ UNCHANGED <<kind, todo, seen>>

(* execute_effect up to the Adapter's call: a launch refused before its    *)
(* attempt leaves the row exactly as it is.                                *)
execute_effect(w, e) ==
    \/ /\ Kind[e] \in deferred
       /\ Handled(w, e)
       /\ UNCHANGED <<effects, request>>
    \/ /\ Kind[e] \notin deferred
       /\ begin_effect_attempt(e)
       /\ request' = [request EXCEPT ![e][effects[e].attempts + 1] = "sent"]
       /\ Calling(w, e, "executing")

(* A row read as pending.                                                  *)
ExecutePending(w, e) ==
    /\ IsNext(w, e)
    /\ seen[w][e].state = "pending"
    /\ execute_effect(w, e)
    /\ UNCHANGED <<rowid, lock, deferred, woken, faults>>

(* prepare_git refuses a delivery: the attempt and its failure commit      *)
(* together and nothing was sent.                                          *)
RefuseGit(w, e) ==
    /\ IsNext(w, e)
    /\ Kind[e] = "GitDelivery" /\ seen[w][e].state = "pending"
    /\ Kind[e] \notin deferred
    /\ effects[e].state \in Unresolved
    /\ effects' = [effects EXCEPT ![e] =
                      [state |-> "failed", attempts |-> effects[e].attempts + 1]]
    /\ Handled(w, e)
    /\ UNCHANGED <<rowid, request, lock, deferred, woken, faults>>

(* What a definite or uncertain answer of the Adapter is worth.  The       *)
(* Adapter never guesses: "completed" and "failed" are true of the work.   *)
Answer(e, result) ==
    CASE result = "completed" -> Attempt(e) \in Done(e)
      [] result = "failed"    -> request[e][Attempt(e)] = "dropped"
      [] result = "unknown"   -> TRUE

(* Mutant: a lost acknowledgement is taken for success.                    *)
Settled_Guess(e, result) == IF result = "unknown" THEN "completed" ELSE result

(* Mutant: the Adapter's answer is stored as it came.                      *)
Settled_Verbatim(e, result) == result

(* The Adapter's execute returns.  The generic sweep leaves an uncertain   *)
(* attempt in flight; a delivery or extension change records it at once;   *)
(* Utility work records its fallback as the job's outcome.                 *)
Settled(e, result) ==
    IF Kind[e] = "Utility" THEN "completed"
    ELSE IF result # "unknown" THEN result
    ELSE IF Kind[e] \in OutboxKinds THEN "in_flight" ELSE "outcome_unknown"

ExecuteReturns(w, result) ==
    LET e == current[w] IN
    /\ phase[w] = "executing"
    /\ Answer(e, result)
    /\ IF Settled(e, result) = "in_flight" THEN UNCHANGED effects
       ELSE finish_effect(e, Settled(e, result))
    /\ Handled(w, e)
    /\ UNCHANGED <<rowid, request, lock, deferred, woken, faults>>

(* A row read as in flight was interrupted: Utility work and extension     *)
(* changes are never looked at again.                                      *)
AbandonInterrupted(w, e) ==
    /\ IsNext(w, e)
    /\ seen[w][e].state = "in_flight"
    /\ Kind[e] \in {"Utility", "ChangeExtension"}
    /\ finish_effect(e, "outcome_unknown")
    /\ Handled(w, e)
    /\ UNCHANGED <<rowid, request, lock, deferred, woken, faults>>

(* The other kinds observe the interrupted attempt.                        *)
BeginReconcile(w, e) ==
    /\ IsNext(w, e)
    /\ seen[w][e].state = "in_flight"
    /\ Kind[e] \notin {"Utility", "ChangeExtension"}
    /\ Calling(w, e, "reconciling")
    /\ UNCHANGED <<effects, rowid, request, lock, deferred, woken, faults>>

(* What an observation proves: the work was done, or can no longer be.     *)
Observed(e, result) ==
    CASE result = "completed" -> Done(e) # {}
      [] result = "failed"    -> /\ Kind[e] \in OutboxKinds
                                 /\ Done(e) = {} /\ Outstanding(e) = {}
      [] result = "unknown"   -> TRUE

ReconcileReturns(w, result) ==
    LET e == current[w] IN
    /\ phase[w] = "reconciling"
    /\ Observed(e, result)
    /\ IF result # "unknown"
       THEN finish_effect(e, result) /\ Handled(w, e) /\ UNCHANGED request
       ELSE IF Kind[e] \in OutboxKinds /\ may_retry(e, seen[w][e].attempts)
       THEN execute_effect(w, e)
       ELSE finish_effect(e, "outcome_unknown") /\ Handled(w, e) /\ UNCHANGED request
    /\ UNCHANGED <<rowid, lock, deferred, woken, faults>>

-----------------------------------------------------------------------------
(* Faults, MaxFaults of them.                                              *)

(* A store error, or a settlement that its transaction refuses, ends the   *)
(* sweep; the transaction leaves the rows as they were.  Some loops sleep  *)
(* and sweep again, the others log the error and wait to be woken.         *)
SweepFails(w) ==
    /\ phase[w] # "idle"
    /\ faults < MaxFaults
    /\ faults' = faults + 1
    /\ Release(w)
    /\ woken' = woken \union ({kind[w]} \intersect RetriedKinds)
    /\ UNCHANGED <<effects, rowid, request, deferred>>

(* jetd ends between any two steps; rows and requests that were sent stay. *)
(* A start sweeps every kind.                                              *)
Crash ==
    /\ faults < MaxFaults
    /\ faults' = faults + 1
    /\ lock' = [l \in Locks |-> NoWorker]
    /\ phase' = [w \in Workers |-> "idle"]
    /\ todo' = [w \in Workers |-> {}]
    /\ seen' = [w \in Workers |-> Blank]
    /\ current' = [w \in Workers |-> NoEffect]
    /\ kind' = [w \in Workers |-> "StartRun"]
    /\ woken' = SweptKinds
    /\ UNCHANGED <<effects, rowid, request, deferred>>

Defer(k) ==
    /\ k \notin deferred
    /\ faults < MaxFaults
    /\ faults' = faults + 1
    /\ deferred' = deferred \union {k}
    /\ UNCHANGED <<effects, rowid, request, lock, sweepVars, woken>>

Relieve(k) ==
    /\ k \in deferred
    /\ deferred' = deferred \ {k}
    /\ UNCHANGED <<effects, rowid, request, lock, sweepVars, woken, faults>>

(* Another Command, the end of a Run or a deadline of the maintenance loop *)
(* makes some task sweep.  Nothing says that it will.                      *)
Wake(k) ==
    /\ k \notin woken
    /\ woken' = woken \union {k}
    /\ UNCHANGED <<effects, rowid, request, lock, sweepVars, deferred, faults>>

-----------------------------------------------------------------------------
Handle(w) ==
    \/ EndSweep(w)
    \/ \E e \in Effects :
          \/ ExecutePending(w, e) \/ RefuseGit(w, e)
          \/ AbandonInterrupted(w, e) \/ BeginReconcile(w, e)
    \/ \E result \in {"completed", "failed", "unknown"} :
          ExecuteReturns(w, result) \/ ReconcileReturns(w, result)

Next ==
    \/ \E e \in Effects : insert_effect(e) \/ Perform(e) \/ Vanish(e)
    \/ \E w \in Workers :
          \/ \E k \in SweptKinds : BeginSweep(w, k)
          \/ Handle(w)
          \/ SweepFails(w)
    \/ Crash
    \/ \E k \in SweptKinds \intersect LaunchKinds : Defer(k) \/ Relieve(k)
    \/ \E k \in SweptKinds : Wake(k)

(* Every Adapter call returns (the host bounds each wait), a task that was *)
(* woken gets the lock (its waiters are served in turn), and a refusal of  *)
(* launches ends.  Waking is under no fairness.                            *)
Fairness ==
    /\ \A w \in Workers : WF_vars(Handle(w))
    /\ \A k \in SweptKinds : SF_vars(\E w \in Workers : BeginSweep(w, k))
    /\ \A k \in SweptKinds \intersect LaunchKinds : WF_vars(Relieve(k))

Spec == Init /\ [][Next]_vars
FairSpec == Spec /\ Fairness

-----------------------------------------------------------------------------
(* Properties.                                                             *)

(* No Effect is attempted more often than its policy allows, whatever the  *)
(* crashes and restarts: an ambiguous one is sent at most once.            *)
RetryPolicy ==
    \A e \in Effects :
        /\ effects[e].attempts <= MaxAttempts[e]
        /\ Cardinality({n \in Attempts(e) : request[e][n] # "none"}) <= effects[e].attempts

(* A worker that is inside an Adapter call is alone with the row, and the  *)
(* row is in flight: no other sweep takes live work for interrupted work.  *)
ExclusiveAttempt ==
    \A w \in Workers : phase[w] \in {"executing", "reconciling"} =>
        /\ effects[current[w]].state = "in_flight"
        /\ \A v \in Workers \ {w} : current[w] \notin todo[v]

(* What a sweep read at its start is still what the table holds when the   *)
(* row's turn comes, however long the calls before it took.                *)
FreshRead ==
    \A w \in Workers : phase[w] = "next" =>
        \A e \in todo[w] : seen[w][e] = effects[e]

(* A recorded outcome is true: completed work took effect; an ambiguous    *)
(* failure did not and never will.  (A repeated attempt may fail after an  *)
(* earlier one took effect, so nothing is claimed of the other classes;    *)
(* a Utility job completes with its fallback.)                             *)
HonestOutcome ==
    \A e \in Effects :
        /\ effects[e].state = "completed" /\ Kind[e] # "Utility" => Done(e) # {}
        /\ effects[e].state = "failed" /\ Safety[e] = "ambiguous" =>
              Done(e) = {} /\ Outstanding(e) = {}

(* An outcome, once recorded, is never reopened or replaced.               *)
OutcomeFinal ==
    [][\A e \in Effects : effects[e].state \in Terminal => effects'[e] = effects[e]]_vars

(* A recorded Effect is resolved in the end.  For Utility work, Git         *)
(* deliveries and extension changes that are never put off, what the        *)
(* daemon does by itself is enough: the notification of their Command, a    *)
(* retry after each error and the sweep of a start (daemon.rs:176-197,      *)
(* 230-458).  Nobody comes back to the other kinds after a sweep that       *)
(* failed, or that left an uncertain attempt in flight (daemon.rs:199-211,  *)
(* session/mod.rs:358-389): they are resolved if the kind is woken again    *)
(* and again, as by further Commands.                                       *)
EverythingResolves ==
    \A e \in Effects :
        (\/ Kind[e] \in {"Utility", "GitDelivery", "ChangeExtension"} /\ [](Kind[e] \notin deferred)
         \/ []<>(Kind[e] \in woken)) =>
        (effects[e].state \in Unresolved ~> effects[e].state \in Terminal)
=============================================================================
