------------------------- MODULE EffectOutbox_proofs -------------------------
(***************************************************************************)
(* Proofs about EffectOutbox, for every set of Effects and workers, every  *)
(* assignment of kinds, safety classes and attempt limits, and any number  *)
(* of faults.                                                              *)
(***************************************************************************)
EXTENDS EffectOutbox, FiniteSetTheorems, TLAPS

-----------------------------------------------------------------------------
(* The inductive invariant.                                                *)

(* A sweep holds the lock of its kind; a worker without a sweep has read   *)
(* nothing.                                                                *)
Held ==
    \A w \in Workers :
        IF phase[w] = "idle" THEN todo[w] = {} ELSE lock[LockOf(kind[w])] = w

(* A sweep has read rows of its own kind only.                             *)
Mine == \A w \in Workers : \A e \in todo[w] : Kind[e] = kind[w]

(* A row that was read and is not being executed is as it was read.        *)
Fresh ==
    \A w \in Workers : \A e \in todo[w] :
        \/ phase[w] = "executing" /\ e = current[w]
        \/ seen[w][e] = effects[e] /\ effects[e].state \in Unresolved

(* A worker inside an Adapter call handles a row of its read, in flight.   *)
Busy ==
    \A w \in Workers : phase[w] \in {"executing", "reconciling"} =>
        current[w] \in todo[w] /\ effects[current[w]].state = "in_flight"

(* One row and the requests of its attempts: the attempt count bounds what *)
(* was sent, and an outcome says what became of it.                        *)
RowOK(e, row, req) ==
    /\ row.state \in {"absent", "pending"} => row.attempts = 0
    /\ row.state = "in_flight" => row.attempts > 0
    /\ row.attempts <= MaxAttempts[e]
    /\ \A n \in Attempts(e) : n > row.attempts => req[n] = "none"
    /\ row.state = "completed" /\ Kind[e] # "Utility" => \E n \in Attempts(e) : req[n] = "done"
    /\ row.state = "failed" /\ Safety[e] = "ambiguous" =>
          \A n \in Attempts(e) : req[n] \notin {"done", "sent"}

SweepInv == Held /\ Mine /\ Fresh /\ Busy
RowInv == \A e \in Effects : RowOK(e, effects[e], request[e])
IInv == TypeOK /\ SweepInv /\ RowInv

-----------------------------------------------------------------------------
(* Facts about the state.                                                  *)

(* Every kind is swept under one of the two locks.                         *)
LEMMA LockOfType == \A k : LockOf(k) \in Locks
BY DEF LockOf, Locks

(* The rows of two sweeps are apart: a row has one kind, a kind has one    *)
(* lock and a lock has one holder.                                         *)
LEMMA Apart ==
    ASSUME Held, Mine, NEW w \in Workers, NEW v \in Workers, w # v
    PROVE  todo[w] \intersect todo[v] = {}
<1>1. SUFFICES ASSUME NEW e \in todo[w], e \in todo[v]
               PROVE  FALSE
  OBVIOUS
<1>2. kind[w] = kind[v]
  BY <1>1 DEF Mine
<1>3. lock[LockOf(kind[w])] = w /\ lock[LockOf(kind[v])] = v
  BY <1>1 DEF Held
<1> QED
  BY <1>2, <1>3

(* A typed table is not changed by writing a row back.                     *)
LEMMA WriteBack ==
    ASSUME TypeOK, NEW e \in Effects
    PROVE  effects[e] \in Row /\ effects = [effects EXCEPT ![e] = effects[e]]
BY DEF TypeOK

-----------------------------------------------------------------------------
(* Steps of a sweep.                                                       *)

(* Finishing with a row of the sweep's read, whatever is written to it.    *)
LEMMA HandledStep ==
    ASSUME TypeOK, SweepInv,
           NEW w \in Workers, NEW e \in todo[w], NEW row \in Row,
           phase[w] = "executing" => current[w] = e,
           effects' = [effects EXCEPT ![e] = row],
           Handled(w, e), UNCHANGED lock
    PROVE  SweepInv'
<1> USE DEF Handled
<1>1. e \in Effects
  BY DEF TypeOK
<1>2. phase[w] # "idle"
  BY DEF SweepInv, Held
<1>3. \A v \in Workers \ {w} : e \notin todo[v]
  BY Apart DEF SweepInv
<1>4. Held'
  BY <1>2 DEF TypeOK, SweepInv, Held
<1>5. Mine'
  BY DEF TypeOK, SweepInv, Mine
<1>6. Fresh'
  <2>1. SUFFICES ASSUME NEW v \in Workers, NEW f \in todo'[v]
                 PROVE  \/ phase'[v] = "executing" /\ f = current'[v]
                        \/ seen'[v][f] = effects'[f] /\ effects'[f].state \in Unresolved
    BY DEF Fresh
  <2>2. CASE v = w
    <3>1. f \in todo[w] /\ f # e /\ f \in Effects
      BY <2>1, <2>2 DEF TypeOK
    <3>2. effects'[f] = effects[f] /\ seen'[w][f] = seen[w][f]
      BY <3>1 DEF TypeOK
    <3>3. seen[w][f] = effects[f] /\ effects[f].state \in Unresolved
      BY <3>1 DEF SweepInv, Fresh
    <3> QED
      BY <2>2, <3>2, <3>3
  <2>3. CASE v # w
    BY <1>1, <1>3, <2>1, <2>3 DEF TypeOK, SweepInv, Fresh
  <2> QED
    BY <2>2, <2>3
<1>7. Busy'
  BY <1>1, <1>3 DEF TypeOK, SweepInv, Busy
<1> QED
  BY <1>4, <1>5, <1>6, <1>7 DEF SweepInv

(* Beginning an attempt at a row of the sweep's read.                      *)
LEMMA AttemptStep ==
    ASSUME TypeOK, SweepInv,
           NEW w \in Workers, NEW e \in todo[w], NEW row \in Row,
           phase[w] = "executing" => current[w] = e,
           effects' = [effects EXCEPT ![e] = row], row.state = "in_flight",
           Calling(w, e, "executing"), UNCHANGED lock
    PROVE  SweepInv'
<1> USE DEF Calling
<1>1. e \in Effects
  BY DEF TypeOK
<1>2. phase[w] # "idle"
  BY DEF SweepInv, Held
<1>3. \A v \in Workers \ {w} : e \notin todo[v]
  BY Apart DEF SweepInv
<1>4. Held'
  BY <1>2 DEF TypeOK, SweepInv, Held
<1>5. Mine'
  BY DEF TypeOK, SweepInv, Mine
<1>6. Fresh'
  BY <1>1, <1>3 DEF TypeOK, SweepInv, Fresh
<1>7. Busy'
  BY <1>1, <1>3 DEF TypeOK, SweepInv, Busy
<1> QED
  BY <1>4, <1>5, <1>6, <1>7 DEF SweepInv

(* The end of a sweep touches no other sweep.                              *)
LEMMA ReleaseStep ==
    ASSUME TypeOK, SweepInv, NEW w \in Workers, Release(w), UNCHANGED effects
    PROVE  SweepInv'
<1> USE DEF Release
<1>1. Held'
  BY LockOfType DEF TypeOK, SweepInv, Held
<1>2. Mine'
  BY DEF TypeOK, SweepInv, Mine
<1>3. Fresh'
  BY DEF TypeOK, SweepInv, Fresh
<1>4. Busy'
  BY DEF TypeOK, SweepInv, Busy
<1> QED
  BY <1>1, <1>2, <1>3, <1>4 DEF SweepInv

(* A new sweep gets a lock nobody held, so its read stays what it is.      *)
LEMMA BeginSweepStep ==
    ASSUME OutboxAssumption, TypeOK, SweepInv,
           NEW w \in Workers, NEW k \in SweptKinds, BeginSweep(w, k)
    PROVE  SweepInv'
<1> USE DEF BeginSweep
<1>1. Held'
  <2>1. lock[LockOf(k)] = NoWorker /\ lock' = [lock EXCEPT ![LockOf(k)] = w]
    BY DEF TakeLock
  <2>2. SUFFICES ASSUME NEW v \in Workers, v # w, phase[v] # "idle"
                 PROVE  lock'[LockOf(kind[v])] = v
    BY <2>1, LockOfType DEF TypeOK, SweepInv, Held
  <2>3. lock[LockOf(kind[v])] = v
    BY <2>2 DEF SweepInv, Held
  <2>4. LockOf(kind[v]) # LockOf(k)
    BY <2>1, <2>3 DEF OutboxAssumption
  <2> QED
    BY <2>1, <2>3, <2>4, LockOfType DEF TypeOK
<1>2. Mine'
  BY DEF TypeOK, SweepInv, Mine, unresolved_effects_of
<1>3. Fresh'
  BY DEF TypeOK, SweepInv, Fresh, unresolved_effects_of
<1>4. Busy'
  BY DEF TypeOK, SweepInv, Busy
<1> QED
  BY <1>1, <1>2, <1>3, <1>4 DEF SweepInv

-----------------------------------------------------------------------------
(* Type correctness.                                                       *)

(* A row that was never recorded is a row.                                 *)
LEMMA BlankType == Blank \in [Effects -> Row]
BY DEF Blank, Row

(* What is swept is a kind.                                                *)
LEMMA SweptType == OutboxAssumption => SweptKinds \subseteq Kinds
BY DEF OutboxAssumption, SweptKinds

(* The variables of a sweep keep their types when a row is handled.        *)
LEMMA HandledType ==
    ASSUME TypeOK, NEW w \in Workers, NEW e \in Effects, Handled(w, e)
    PROVE  /\ phase' \in [Workers -> {"idle", "next", "reconciling", "executing"}]
           /\ kind' \in [Workers -> Kinds]
           /\ todo' \in [Workers -> SUBSET Effects]
           /\ seen' \in [Workers -> [Effects -> Row]]
           /\ current' \in [Workers -> Effects \union {NoEffect}]
BY BlankType DEF TypeOK, Handled

(* The table and the requests keep their types when an attempt begins or   *)
(* is refused at once.                                                     *)
LEMMA AttemptType ==
    ASSUME OutboxAssumption, TypeOK, NEW w \in Workers, NEW e \in Effects, execute_effect(w, e)
    PROVE  /\ effects' \in [Effects -> Row]
           /\ request' = [f \in Effects |-> request'[f]]
           /\ \A f \in Effects : request'[f] \in [Attempts(f) -> RequestStates]
           /\ phase' \in [Workers -> {"idle", "next", "reconciling", "executing"}]
           /\ kind' \in [Workers -> Kinds]
           /\ todo' \in [Workers -> SUBSET Effects]
           /\ seen' \in [Workers -> [Effects -> Row]]
           /\ current' \in [Workers -> Effects \union {NoEffect}]
<1>1. CASE Kind[e] \in deferred /\ Handled(w, e) /\ UNCHANGED <<effects, request>>
  BY <1>1, HandledType DEF TypeOK
<1>2. CASE /\ begin_effect_attempt(e)
           /\ request' = [request EXCEPT ![e][effects[e].attempts + 1] = "sent"]
           /\ Calling(w, e, "executing")
  <2>1. effects' \in [Effects -> Row]
    BY <1>2 DEF TypeOK, begin_effect_attempt, Row, Unresolved
  <2>2. /\ request' = [f \in Effects |-> request'[f]]
        /\ \A f \in Effects : request'[f] \in [Attempts(f) -> RequestStates]
    BY <1>2 DEF TypeOK, RequestStates
  <2> QED
    BY <1>2, <2>1, <2>2 DEF TypeOK, Calling
<1> QED
  BY <1>1, <1>2 DEF execute_effect

(* A recorded outcome is a state of the table.                             *)
LEMMA FinishType ==
    ASSUME TypeOK, NEW e \in Effects, NEW state \in Terminal, finish_effect(e, state)
    PROVE  /\ effects' \in [Effects -> Row]
           /\ [effects[e] EXCEPT !.state = state] \in Row
           /\ effects' = [effects EXCEPT ![e] = [effects[e] EXCEPT !.state = state]]
<1>1. effects \in [Effects -> Row] /\ effects[e] \in Row
  BY DEF TypeOK
<1>2. [effects[e] EXCEPT !.state = state] \in Row
  BY <1>1 DEF Row
<1>3. effects' = [effects EXCEPT ![e] = [effects[e] EXCEPT !.state = state]]
  BY <1>1 DEF finish_effect
<1> QED
  BY <1>1, <1>2, <1>3

(* What an Adapter's answer is stored as.                                  *)
LEMMA SettledType ==
    ASSUME NEW e, NEW result \in {"completed", "failed", "unknown"}
    PROVE  Settled(e, result) \in Terminal \union {"in_flight"}
BY DEF Settled, Terminal

(* Every step of the outbox, a fault included, keeps the types.            *)
LEMMA TypeStep ==
    ASSUME OutboxAssumption, TypeOK, SweepInv, [Next]_vars
    PROVE  TypeOK'
<1>1. ASSUME NEW e \in Effects, insert_effect(e)
      PROVE  TypeOK'
  <2>1. effects' \in [Effects -> Row]
    BY <1>1 DEF insert_effect, TypeOK, Row, Unresolved
  <2>2. rowid' \in [Effects -> Nat]
    <3>1. Cardinality({f \in Effects : Kind[f] = Kind[e] /\ rowid[f] # 0}) \in Nat
      BY FS_CardinalityType, FS_Subset DEF OutboxAssumption
    <3> QED
      BY <1>1, <3>1 DEF insert_effect, TypeOK
  <2>3. woken' \subseteq Kinds
    BY <1>1 DEF insert_effect, Notifies, TypeOK, OutboxAssumption
  <2> QED
    BY <1>1, <2>1, <2>2, <2>3 DEF insert_effect, TypeOK, sweepVars
<1>2. ASSUME NEW e \in Effects, Perform(e) \/ Vanish(e)
      PROVE  TypeOK'
  <2>1. PICK n \in Attempts(e), state \in RequestStates :
           request' = [request EXCEPT ![e][n] = state]
    BY <1>2 DEF Perform, Vanish, Outstanding, RequestStates
  <2>2. request' = [f \in Effects |-> request'[f]]
    BY <2>1 DEF TypeOK
  <2>3. \A f \in Effects : request'[f] \in [Attempts(f) -> RequestStates]
    BY <2>1 DEF TypeOK
  <2>4. UNCHANGED <<effects, rowid, lock, phase, kind, todo, seen, current, deferred, woken, faults>>
    BY <1>2 DEF Perform, Vanish, sweepVars
  <2> QED
    BY <2>2, <2>3, <2>4 DEF TypeOK
<1>3. ASSUME NEW w \in Workers, NEW k \in SweptKinds, BeginSweep(w, k)
      PROVE  TypeOK'
  <2>1. k \in Kinds
    BY DEF SweptKinds, OutboxAssumption
  <2>2. seen' \in [Workers -> [Effects -> Row]]
    BY <1>3, BlankType DEF BeginSweep, TypeOK
  <2>3. todo' \in [Workers -> SUBSET Effects]
    BY <1>3 DEF BeginSweep, TypeOK, unresolved_effects_of
  <2> QED
    BY <1>3, <2>1, <2>2, <2>3, LockOfType DEF BeginSweep, TypeOK, TakeLock
<1>4. ASSUME NEW w \in Workers, Release(w), UNCHANGED <<effects, rowid, request, deferred>>,
             woken' \subseteq Kinds, faults' \in 0..MaxFaults
      PROVE  TypeOK'
  BY <1>4, BlankType DEF Release, TypeOK, Kinds, OutboxKinds
<1>5. ASSUME NEW w \in Workers, NEW e \in Effects, ExecutePending(w, e)
      PROVE  TypeOK'
  BY <1>5, AttemptType DEF ExecutePending, TypeOK
<1>6. ASSUME NEW w \in Workers, NEW e \in Effects, RefuseGit(w, e)
      PROVE  TypeOK'
  <2>1. effects' \in [Effects -> Row]
    BY <1>6 DEF RefuseGit, TypeOK, Row, Terminal
  <2> QED
    BY <1>6, <2>1, HandledType DEF RefuseGit, TypeOK
<1>7. ASSUME NEW w \in Workers, NEW e \in Effects, AbandonInterrupted(w, e)
      PROVE  TypeOK'
  BY <1>7, HandledType, FinishType DEF AbandonInterrupted, TypeOK, Terminal
<1>8. ASSUME NEW w \in Workers, NEW e \in Effects, BeginReconcile(w, e)
      PROVE  TypeOK'
  BY <1>8 DEF BeginReconcile, Calling, TypeOK
<1>9. ASSUME NEW w \in Workers, NEW result \in {"completed", "failed", "unknown"},
             ExecuteReturns(w, result)
      PROVE  TypeOK'
  <2>1. current[w] \in Effects
    BY <1>9 DEF ExecuteReturns, SweepInv, Busy, TypeOK
  <2>2. effects' \in [Effects -> Row]
    BY <1>9, <2>1, SettledType, FinishType DEF ExecuteReturns, TypeOK
  <2> QED
    BY <1>9, <2>1, <2>2, HandledType DEF ExecuteReturns, TypeOK
<1>10. ASSUME NEW w \in Workers, NEW result \in {"completed", "failed", "unknown"},
              ReconcileReturns(w, result)
       PROVE  TypeOK'
  <2> DEFINE e == current[w]
  <2>1. e \in Effects
    BY <1>10 DEF ReconcileReturns, SweepInv, Busy, TypeOK
  <2>2. CASE execute_effect(w, e)
    BY <1>10, <2>1, <2>2, AttemptType DEF ReconcileReturns, TypeOK
  <2>3. CASE /\ \E state \in Terminal : finish_effect(e, state)
             /\ Handled(w, e) /\ UNCHANGED request
    BY <1>10, <2>1, <2>3, FinishType, HandledType DEF ReconcileReturns, TypeOK
  <2> QED
    BY <1>10, <2>2, <2>3 DEF ReconcileReturns, Terminal
<1>11. ASSUME Crash
       PROVE  TypeOK'
  BY <1>11, BlankType, SweptType DEF Crash, TypeOK, Kinds, OutboxKinds, OutboxAssumption
<1>12. ASSUME NEW k \in LaunchKinds, Defer(k) \/ Relieve(k)
       PROVE  TypeOK'
  BY <1>12 DEF Defer, Relieve, TypeOK, sweepVars, OutboxAssumption
<1>13. CASE UNCHANGED vars
  BY <1>13 DEF vars, TypeOK
<1>14. ASSUME NEW w \in Workers, EndSweep(w) \/ SweepFails(w)
       PROVE  TypeOK'
  <2>1. faults' \in 0..MaxFaults
    BY <1>14 DEF EndSweep, SweepFails, TypeOK, OutboxAssumption
  <2>2. woken' \subseteq Kinds
    BY <1>14 DEF EndSweep, SweepFails, TypeOK, RetriedKinds, Kinds, OutboxKinds
  <2> QED
    BY <1>4, <1>14, <2>1, <2>2 DEF EndSweep, SweepFails
<1>15. ASSUME NEW k \in SweptKinds, Wake(k)
       PROVE  TypeOK'
  <2>1. k \in Kinds
    BY DEF SweptKinds, OutboxAssumption
  <2> QED
    BY <1>15, <2>1 DEF Wake, TypeOK, sweepVars
<1> QED
  BY <1>1, <1>2, <1>3, <1>5, <1>6, <1>7, <1>8, <1>9, <1>10, <1>11, <1>12, <1>13, <1>14, <1>15
     DEF Next, Handle

-----------------------------------------------------------------------------
(* Sweeps keep apart.                                                      *)

(* execute_effect on a row of the sweep's read.                            *)
LEMMA ExecuteStep ==
    ASSUME TypeOK, SweepInv, NEW w \in Workers, NEW e \in todo[w],
           phase[w] = "executing" => current[w] = e,
           execute_effect(w, e), UNCHANGED lock
    PROVE  SweepInv'
<1>1. e \in Effects
  BY DEF TypeOK
<1>2. CASE Handled(w, e) /\ UNCHANGED effects
  BY <1>1, <1>2, WriteBack, HandledStep
<1>3. CASE begin_effect_attempt(e) /\ Calling(w, e, "executing")
  <2> DEFINE row == [state |-> "in_flight", attempts |-> effects[e].attempts + 1]
  <2>1. row \in Row /\ row.state = "in_flight"
    BY <1>1 DEF TypeOK, Row, Unresolved
  <2>2. effects' = [effects EXCEPT ![e] = row]
    BY <1>3 DEF begin_effect_attempt
  <2> QED
    BY <1>3, <2>1, <2>2, AttemptStep
<1> QED
  BY <1>2, <1>3 DEF execute_effect

(* Recording an outcome for a row of the sweep's read.                     *)
LEMMA FinishStep ==
    ASSUME TypeOK, SweepInv, NEW w \in Workers, NEW e \in todo[w],
           phase[w] = "executing" => current[w] = e,
           NEW state \in Terminal, finish_effect(e, state), Handled(w, e), UNCHANGED lock
    PROVE  SweepInv'
<1>1. e \in Effects
  BY DEF TypeOK
<1> QED
  BY <1>1, FinishType, HandledStep

(* Every step keeps the sweeps apart and their reads true.                 *)
LEMMA SweepStep ==
    ASSUME OutboxAssumption, TypeOK, SweepInv, [Next]_vars
    PROVE  SweepInv'
<1>1. ASSUME NEW e \in Effects, insert_effect(e)
      PROVE  SweepInv'
  <2>1. \A w \in Workers : e \notin todo[w]
    BY <1>1 DEF insert_effect, SweepInv, Fresh, Busy, Unresolved
  <2>2. \A f \in Effects \ {e} : effects'[f] = effects[f]
    BY <1>1 DEF insert_effect, TypeOK
  <2>3. UNCHANGED <<lock, phase, kind, todo, seen, current>>
    BY <1>1 DEF insert_effect, sweepVars
  <2>4. Held' /\ Mine'
    BY <2>3 DEF SweepInv, Held, Mine
  <2>5. \A w \in Workers : \A f \in todo[w] : effects'[f] = effects[f]
    BY <2>1, <2>2 DEF TypeOK
  <2>6. Fresh'
    BY <2>3, <2>5 DEF SweepInv, Fresh
  <2>7. Busy'
    BY <2>3, <2>5 DEF SweepInv, Busy
  <2> QED
    BY <2>4, <2>6, <2>7 DEF SweepInv
<1>2. ASSUME UNCHANGED <<effects, lock, sweepVars>>
      PROVE  SweepInv'
  BY <1>2 DEF sweepVars, SweepInv, Held, Mine, Fresh, Busy
<1>3. ASSUME NEW w \in Workers, NEW e \in Effects, ExecutePending(w, e)
      PROVE  SweepInv'
  BY <1>3, ExecuteStep DEF ExecutePending, IsNext
<1>4. ASSUME NEW w \in Workers, NEW e \in Effects, RefuseGit(w, e)
      PROVE  SweepInv'
  <2> DEFINE row == [state |-> "failed", attempts |-> effects[e].attempts + 1]
  <2>1. row \in Row
    BY DEF TypeOK, Row, Terminal
  <2> QED
    BY <1>4, <2>1, HandledStep DEF RefuseGit, IsNext
<1>5. ASSUME NEW w \in Workers, NEW e \in Effects, AbandonInterrupted(w, e)
      PROVE  SweepInv'
  BY <1>5, FinishStep DEF AbandonInterrupted, IsNext, Terminal
<1>6. ASSUME NEW w \in Workers, NEW e \in Effects, BeginReconcile(w, e)
      PROVE  SweepInv'
  <2>1. phase[w] = "next" /\ e \in todo[w] /\ effects[e].state = "in_flight"
    BY <1>6 DEF BeginReconcile, IsNext, SweepInv, Fresh
  <2>2. UNCHANGED <<effects, lock, kind, todo, seen>>
    BY <1>6 DEF BeginReconcile, Calling
  <2>3. /\ phase' = [phase EXCEPT ![w] = "reconciling"]
        /\ current' = [current EXCEPT ![w] = e]
    BY <1>6 DEF BeginReconcile, Calling
  <2>4. Held' /\ Mine'
    BY <2>1, <2>2, <2>3 DEF SweepInv, Held, Mine, TypeOK
  <2>5. Fresh'
    BY <2>1, <2>2, <2>3 DEF SweepInv, Fresh, TypeOK
  <2>6. Busy'
    BY <2>1, <2>2, <2>3 DEF SweepInv, Busy, TypeOK
  <2> QED
    BY <2>4, <2>5, <2>6 DEF SweepInv
<1>7. ASSUME NEW w \in Workers, NEW result \in {"completed", "failed", "unknown"},
             ExecuteReturns(w, result)
      PROVE  SweepInv'
  <2> DEFINE e == current[w]
  <2>1. e \in todo[w] /\ e \in Effects
    BY <1>7 DEF ExecuteReturns, SweepInv, Busy, TypeOK
  <2>2. CASE UNCHANGED effects
    BY <1>7, <2>1, <2>2, WriteBack, HandledStep DEF ExecuteReturns
  <2>3. CASE finish_effect(e, Settled(e, result)) /\ Settled(e, result) # "in_flight"
    BY <1>7, <2>1, <2>3, SettledType, FinishStep DEF ExecuteReturns
  <2> QED
    BY <1>7, <2>2, <2>3 DEF ExecuteReturns
<1>8. ASSUME NEW w \in Workers, NEW result \in {"completed", "failed", "unknown"},
             ReconcileReturns(w, result)
      PROVE  SweepInv'
  <2> DEFINE e == current[w]
  <2>1. e \in todo[w] /\ phase[w] = "reconciling" /\ UNCHANGED lock
    BY <1>8 DEF ReconcileReturns, SweepInv, Busy
  <2>2. CASE execute_effect(w, e)
    BY <2>1, <2>2, ExecuteStep
  <2>3. CASE \E state \in Terminal : finish_effect(e, state) /\ Handled(w, e)
    BY <2>1, <2>3, FinishStep
  <2> QED
    BY <1>8, <2>2, <2>3 DEF ReconcileReturns, Terminal
<1>9. ASSUME NEW w \in Workers, EndSweep(w) \/ SweepFails(w)
      PROVE  SweepInv'
  BY <1>9, ReleaseStep DEF EndSweep, SweepFails
<1>10. ASSUME Crash
       PROVE  SweepInv'
  BY <1>10 DEF Crash, SweepInv, Held, Mine, Fresh, Busy
<1> QED
  BY <1>1, <1>2, <1>3, <1>4, <1>5, <1>6, <1>7, <1>8, <1>9, <1>10, BeginSweepStep
     DEF Next, Handle, Perform, Vanish, Defer, Relieve, Wake, vars, sweepVars

-----------------------------------------------------------------------------
(* Rows keep to their policy and tell the truth.                           *)

(* A step that writes one row and its requests.                            *)
LEMMA OneRow ==
    ASSUME TypeOK, RowInv, NEW e \in Effects, NEW row, NEW req,
           effects' = [effects EXCEPT ![e] = row], request' = [request EXCEPT ![e] = req],
           RowOK(e, row, req)
    PROVE  RowInv'
<1>1. effects'[e] = row /\ \A f \in Effects \ {e} : effects'[f] = effects[f]
  BY DEF TypeOK
<1>2. request'[e] = req /\ \A f \in Effects \ {e} : request'[f] = request[f]
  BY DEF TypeOK
<1>3. \A f \in Effects : RowOK(f, effects'[f], request'[f])
  BY <1>1, <1>2 DEF RowInv
<1>4. \A f \in Effects : RowOK(f, effects[f], request[f])' <=> RowOK(f, effects'[f], request'[f])
  BY DEF RowOK, Attempts
<1> QED
  BY <1>3, <1>4 DEF RowInv

(* Neither the rows nor the requests change.                               *)
LEMMA SameRows ==
    ASSUME RowInv, UNCHANGED <<effects, request>>
    PROVE  RowInv'
BY DEF RowInv, RowOK, Attempts

(* A typed request table is not changed by writing an entry back.          *)
LEMMA WriteBackRequest ==
    ASSUME TypeOK, NEW e \in Effects
    PROVE  request = [request EXCEPT ![e] = request[e]]
BY DEF TypeOK

(* An attempt that the count leaves room for.                              *)
LEMMA ExecuteRow ==
    ASSUME OutboxAssumption, TypeOK, RowInv, NEW w \in Workers, NEW e \in Effects,
           effects[e].attempts < MaxAttempts[e], execute_effect(w, e)
    PROVE  RowInv'
<1>1. CASE UNCHANGED <<effects, request>>
  BY <1>1, SameRows
<1>2. CASE /\ begin_effect_attempt(e)
           /\ request' = [request EXCEPT ![e][effects[e].attempts + 1] = "sent"]
  <2> DEFINE k == effects[e].attempts + 1
             row == [state |-> "in_flight", attempts |-> k]
             req == [request[e] EXCEPT ![k] = "sent"]
  <2>1. /\ effects' = [effects EXCEPT ![e] = row]
        /\ request' = [request EXCEPT ![e] = req]
    BY <1>2 DEF begin_effect_attempt
  <2>2. effects[e].attempts \in Nat /\ MaxAttempts[e] \in Nat /\ k \in Attempts(e)
    BY DEF TypeOK, Row, OutboxAssumption, Attempts
  <2>3. \A n \in Attempts(e) : n > k => req[n] = "none"
    BY <2>2 DEF RowInv, RowOK, TypeOK, Attempts
  <2>4. RowOK(e, row, req)
    BY <2>2, <2>3 DEF RowOK
  <2> QED
    BY <2>1, <2>4, OneRow
<1> QED
  BY <1>1, <1>2 DEF execute_effect

(* An outcome that is true of the requests.                                *)
LEMMA FinishRow ==
    ASSUME TypeOK, RowInv, NEW e \in Effects, NEW state \in Terminal, finish_effect(e, state),
           state = "completed" /\ Kind[e] # "Utility" => Done(e) # {},
           state = "failed" /\ Safety[e] = "ambiguous" => Done(e) = {} /\ Outstanding(e) = {},
           UNCHANGED request
    PROVE  RowInv'
<1> DEFINE row == [effects[e] EXCEPT !.state = state]
<1>1. effects' = [effects EXCEPT ![e] = row]
  BY FinishType
<1>2. row.state = state /\ row.attempts = effects[e].attempts
  BY DEF TypeOK, Row
<1>3. RowOK(e, effects[e], request[e])
  BY DEF RowInv
<1>4. RowOK(e, row, request[e])
  BY <1>2, <1>3 DEF RowOK, Terminal, Done, Outstanding
<1> QED
  BY <1>1, <1>4, WriteBackRequest, OneRow

(* What a returned attempt is recorded as is true of its request.          *)
LEMMA SettledHonest ==
    ASSUME OutboxAssumption, TypeOK, RowInv, NEW e \in Effects,
           NEW result \in {"completed", "failed", "unknown"},
           effects[e].state = "in_flight", Answer(e, result)
    PROVE  /\ Settled(e, result) = "completed" /\ Kind[e] # "Utility" => Done(e) # {}
           /\ Settled(e, result) = "failed" /\ Safety[e] = "ambiguous" =>
                 Done(e) = {} /\ Outstanding(e) = {}
<1>1. ASSUME Settled(e, result) = "completed", Kind[e] # "Utility"
      PROVE  Done(e) # {}
  <2>1. result = "completed"
    BY <1>1 DEF Settled
  <2> QED
    BY <2>1 DEF Answer
<1>2. ASSUME Settled(e, result) = "failed", Safety[e] = "ambiguous"
      PROVE  Done(e) = {} /\ Outstanding(e) = {}
  <2>1. request[e][Attempt(e)] = "dropped"
    BY <1>2 DEF Settled, Answer
  <2>2. effects[e].attempts \in Nat /\ MaxAttempts[e] = 1
    BY <1>2 DEF OutboxAssumption, TypeOK, Row
  <2>3. Attempt(e) = 1
    BY <2>2 DEF RowInv, RowOK, Attempt
  <2>4. Attempts(e) = {1}
    BY <2>2 DEF Attempts
  <2> QED
    BY <2>1, <2>3, <2>4 DEF Done, Outstanding
<1> QED
  BY <1>1, <1>2

(* Every step keeps the rows within their policy and their outcomes true.  *)
LEMMA RowStep ==
    ASSUME OutboxAssumption, TypeOK, SweepInv, RowInv, [Next]_vars
    PROVE  RowInv'
<1>1. ASSUME NEW e \in Effects, insert_effect(e)
      PROVE  RowInv'
  <2> DEFINE row == [state |-> "pending", attempts |-> 0]
  <2>1. RowOK(e, effects[e], request[e]) /\ effects[e].state = "absent"
    BY <1>1 DEF RowInv, insert_effect
  <2>2. MaxAttempts[e] \in Nat
    BY DEF OutboxAssumption
  <2>3. RowOK(e, row, request[e])
    BY <2>1, <2>2 DEF RowOK
  <2> QED
    BY <1>1, <2>3, WriteBackRequest, OneRow DEF insert_effect
<1>2. ASSUME NEW e \in Effects, Perform(e) \/ Vanish(e)
      PROVE  RowInv'
  <2>1. PICK n \in Outstanding(e), state \in {"done", "dropped"} :
           request' = [request EXCEPT ![e][n] = state]
    BY <1>2 DEF Perform, Vanish
  <2> DEFINE req == [request[e] EXCEPT ![n] = state]
  <2>2. request' = [request EXCEPT ![e] = req] /\ UNCHANGED effects
    BY <1>2, <2>1 DEF Perform, Vanish
  <2>3. RowOK(e, effects[e], request[e])
    BY DEF RowInv
  <2>4. /\ n \in Attempts(e) /\ request[e][n] = "sent" /\ req[n] = state
        /\ \A m \in Attempts(e) : m # n => req[m] = request[e][m]
    BY DEF Outstanding, TypeOK
  <2>5. RowOK(e, effects[e], req)
    BY <2>3, <2>4 DEF RowOK
  <2> QED
    BY <2>2, <2>5, WriteBack, OneRow
<1>3. ASSUME NEW w \in Workers, NEW e \in Effects, ExecutePending(w, e)
      PROVE  RowInv'
  <2>1. effects[e].state = "pending"
    BY <1>3 DEF ExecutePending, IsNext, SweepInv, Fresh
  <2>2. effects[e].attempts < MaxAttempts[e]
    BY <2>1 DEF RowInv, RowOK, OutboxAssumption
  <2> QED
    BY <1>3, <2>2, ExecuteRow DEF ExecutePending
<1>4. ASSUME NEW w \in Workers, NEW e \in Effects, RefuseGit(w, e)
      PROVE  RowInv'
  <2> DEFINE row == [state |-> "failed", attempts |-> effects[e].attempts + 1]
  <2>1. effects[e].state = "pending"
    BY <1>4 DEF RefuseGit, IsNext, SweepInv, Fresh
  <2>2. effects[e].attempts = 0 /\ \A n \in Attempts(e) : n > 0 => request[e][n] = "none"
    BY <2>1 DEF RowInv, RowOK
  <2>3. \A n \in Attempts(e) : n > 0
    BY DEF Attempts, OutboxAssumption
  <2>4. row.attempts = 1 /\ MaxAttempts[e] \in Nat \ {0}
    BY <2>2 DEF OutboxAssumption
  <2>5. RowOK(e, row, request[e])
    BY <2>2, <2>3, <2>4 DEF RowOK
  <2> QED
    BY <1>4, <2>5, WriteBackRequest, OneRow DEF RefuseGit
<1>5. ASSUME NEW w \in Workers, NEW e \in Effects, AbandonInterrupted(w, e)
      PROVE  RowInv'
  BY <1>5, FinishRow DEF AbandonInterrupted, Terminal
<1>6. ASSUME NEW w \in Workers, NEW result \in {"completed", "failed", "unknown"},
             ExecuteReturns(w, result)
      PROVE  RowInv'
  <2> DEFINE e == current[w]
  <2>1. e \in Effects /\ effects[e].state = "in_flight"
    BY <1>6 DEF ExecuteReturns, SweepInv, Busy, TypeOK
  <2>2. CASE UNCHANGED effects
    BY <1>6, <2>2, SameRows DEF ExecuteReturns
  <2>3. CASE finish_effect(e, Settled(e, result)) /\ Settled(e, result) # "in_flight"
    <3>1. Settled(e, result) \in Terminal
      BY <2>3, SettledType
    <3>2. Answer(e, result) /\ UNCHANGED request
      BY <1>6 DEF ExecuteReturns
    <3> QED
      BY <2>1, <2>3, <3>1, <3>2, SettledHonest, FinishRow
  <2> QED
    BY <1>6, <2>2, <2>3 DEF ExecuteReturns
<1>7. ASSUME NEW w \in Workers, NEW result \in {"completed", "failed", "unknown"},
             ReconcileReturns(w, result)
      PROVE  RowInv'
  <2> DEFINE e == current[w]
  <2>1. e \in Effects /\ e \in todo[w] /\ phase[w] = "reconciling"
    BY <1>7 DEF ReconcileReturns, SweepInv, Busy, TypeOK
  <2>2. CASE result # "unknown"
    <3>1. finish_effect(e, result) /\ UNCHANGED request /\ result \in Terminal
      BY <1>7, <2>2 DEF ReconcileReturns, Terminal
    <3>2. /\ result = "completed" => Done(e) # {}
          /\ result = "failed" => Done(e) = {} /\ Outstanding(e) = {}
      BY <1>7, <2>2 DEF ReconcileReturns, Observed
    <3> QED
      BY <2>1, <3>1, <3>2, FinishRow
  <2>3. CASE result = "unknown" /\ Kind[e] \in OutboxKinds /\ may_retry(e, seen[w][e].attempts)
    <3>1. effects[e].attempts < MaxAttempts[e]
      BY <2>1, <2>3 DEF may_retry, SweepInv, Fresh
    <3>2. execute_effect(w, e)
      BY <1>7, <2>3 DEF ReconcileReturns
    <3> QED
      BY <2>1, <3>1, <3>2, ExecuteRow
  <2>4. CASE finish_effect(e, "outcome_unknown") /\ UNCHANGED request
    BY <2>1, <2>4, FinishRow DEF Terminal
  <2> QED
    BY <1>7, <2>2, <2>3, <2>4 DEF ReconcileReturns
<1>8. CASE UNCHANGED <<effects, request>>
  BY <1>8, SameRows
<1> QED
  BY <1>1, <1>2, <1>3, <1>4, <1>5, <1>6, <1>7, <1>8
     DEF Next, Handle, BeginSweep, EndSweep, BeginReconcile, SweepFails, Crash, Defer, Relieve, Wake,
         vars

-----------------------------------------------------------------------------
(* Theorems.                                                               *)

(* The inductive invariant holds in every reachable state.                 *)
THEOREM Invariant == Spec => []IInv
<1>1. Init => IInv
  <2> SUFFICES ASSUME Init PROVE IInv
    OBVIOUS
  <2> USE OutboxAssumption DEF Init
  <2>1. TypeOK
    BY BlankType, SweptType DEF TypeOK, Kinds, OutboxKinds, RequestStates, OutboxAssumption
  <2>2. SweepInv
    BY DEF SweepInv, Held, Mine, Fresh, Busy
  <2>3. RowInv
    BY DEF RowInv, RowOK, Blank, OutboxAssumption
  <2> QED
    BY <2>1, <2>2, <2>3 DEF IInv
<1>2. IInv /\ [Next]_vars => IInv'
  BY OutboxAssumption, TypeStep, SweepStep, RowStep DEF IInv
<1> QED
  BY <1>1, <1>2, PTL DEF Spec

(* The table, the locks and the sweeps of EffectOutbox keep their types.   *)
THEOREM TypeCorrect == Spec => []TypeOK
<1>1. IInv => TypeOK
  BY DEF IInv
<1> QED
  BY <1>1, Invariant, PTL

(* may_retry and begin_effect_attempt keep every row within its policy,    *)
(* over any number of crashes: an ambiguous Effect is sent at most once.   *)
THEOREM PolicyKept == Spec => []RetryPolicy
<1>1. IInv => RetryPolicy
  <2>1. SUFFICES ASSUME IInv, NEW e \in Effects
                 PROVE  /\ effects[e].attempts <= MaxAttempts[e]
                        /\ Cardinality({n \in Attempts(e) : request[e][n] # "none"})
                              <= effects[e].attempts
    BY DEF RetryPolicy
  <2> DEFINE sent == {n \in Attempts(e) : request[e][n] # "none"}
             k == effects[e].attempts
  <2>2. k \in Nat /\ k <= MaxAttempts[e]
    BY <2>1 DEF IInv, TypeOK, Row, RowInv, RowOK
  <2>3. sent \subseteq 1..k
    BY <2>1, <2>2, OutboxAssumption DEF IInv, RowInv, RowOK, Attempts, OutboxAssumption
  <2>4. IsFiniteSet(1..k) /\ Cardinality(1..k) = k
    <3>1. 1 \in Int /\ k \in Int
      BY <2>2
    <3>2. IsFiniteSet(1..k) /\ Cardinality(1..k) = IF 1 > k THEN 0 ELSE k - 1 + 1
      BY ONLY <3>1, FS_Interval, Zenon
    <3> QED
      BY <2>2, <3>2
  <2>5. Cardinality(sent) <= k
    BY <2>3, <2>4, FS_Subset
  <2> QED
    BY <2>2, <2>5
<1> QED
  BY <1>1, Invariant, PTL

(* A worker inside an Adapter call is alone with its row: the two locks    *)
(* keep the sweeps of effect_reconciliation and utility_work apart.        *)
THEOREM AttemptsExclusive == Spec => []ExclusiveAttempt
<1>1. IInv => ExclusiveAttempt
  BY Apart DEF IInv, SweepInv, Busy, ExclusiveAttempt
<1> QED
  BY <1>1, Invariant, PTL

(* What unresolved_effects_of read is still true when a row's turn comes.  *)
THEOREM ReadsStayFresh == Spec => []FreshRead
<1>1. IInv => FreshRead
  BY DEF IInv, SweepInv, Fresh, FreshRead
<1> QED
  BY <1>1, Invariant, PTL

(* finish_effect records completed work only when it took effect, and an   *)
(* ambiguous failure only when it did not and cannot any more.             *)
THEOREM OutcomesHonest == Spec => []HonestOutcome
<1>1. IInv => HonestOutcome
  BY DEF IInv, RowInv, RowOK, HonestOutcome, Done, Outstanding
<1> QED
  BY <1>1, Invariant, PTL

(* finish_effect and begin_effect_attempt never touch a recorded outcome.  *)
THEOREM OutcomesFinal == Spec => OutcomeFinal
<1>1. TypeOK /\ [Next]_vars =>
        [\A e \in Effects : effects[e].state \in Terminal => effects'[e] = effects[e]]_vars
  <2>1. SUFFICES ASSUME TypeOK, Next, NEW e \in Effects, effects[e].state \in Terminal
                 PROVE  effects'[e] = effects[e]
    BY DEF vars
  <2>2. effects[e].state \notin Unresolved /\ effects[e].state # "absent"
    BY <2>1 DEF Terminal, Unresolved
  <2>3. \A f, row : effects' = [effects EXCEPT ![f] = row] /\ f # e => effects'[e] = effects[e]
    BY <2>1 DEF TypeOK
  <2>4. ASSUME NEW f, NEW state, finish_effect(f, state)
        PROVE  effects'[e] = effects[e]
    <3>1. f # e
      BY <2>2, <2>4 DEF finish_effect, Unresolved
    <3>2. effects' = [effects EXCEPT ![f] = [effects[f] EXCEPT !.state = state]]
      BY <2>4 DEF finish_effect
    <3> QED
      BY <2>3, <3>1, <3>2
  <2>5. \A f, w : execute_effect(w, f) => effects'[e] = effects[e]
    BY <2>2, <2>3 DEF execute_effect, begin_effect_attempt
  <2>6. \A f \in Effects : insert_effect(f) => effects'[e] = effects[e]
    BY <2>2, <2>3 DEF insert_effect
  <2>7. \A f, w : RefuseGit(w, f) => effects'[e] = effects[e]
    BY <2>2, <2>3 DEF RefuseGit
  <2> QED
    BY <2>1, <2>4, <2>5, <2>6, <2>7
       DEF Next, Handle, Perform, Vanish, BeginSweep, EndSweep, ExecutePending,
           AbandonInterrupted, BeginReconcile, ExecuteReturns, ReconcileReturns, SweepFails,
           Crash, Defer, Relieve, Wake
<1> QED
  BY <1>1, TypeCorrect, PTL DEF Spec, OutcomeFinal

=============================================================================
