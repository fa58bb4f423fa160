------------------------ MODULE EvidenceLedger_proofs ------------------------
(***************************************************************************)
(* Proofs about EvidenceLedger, for any identities, any number of faults   *)
(* and of retained snapshots.                                              *)
(***************************************************************************)
EXTENDS EvidenceLedger, TLAPS

(* The file has every line the head vouches for, and one more at most.     *)
Tail1 == head <= Len(file.lines) /\ Len(file.lines) <= head + 1

(* A deletion is under way in a serving Plane with a sound ledger; its line *)
(* is written before the head names it, and the head before the commit, so *)
(* that every snapshot is behind the ledger when the store commits.        *)
Transaction ==
    /\ tx.step = "none" => tx.identity = NoIdentity
    /\ tx.step /= "none" =>
          mode = "serving" /\ ours /\ ~file.torn /\ tx.identity \in Identities
    /\ tx.step = "head" =>
          Len(file.lines) = head + 1 /\ file.lines[head + 1] = tx.identity
    /\ tx.step = "commit" =>
          /\ \E k \in 1..head : file.lines[k] = tx.identity
          /\ \A s \in snapshots : s.applied < head

(* Neither the store nor a snapshot has applied more than the head names.  *)
Bounded == applied <= head /\ \A s \in snapshots : s.applied <= head

(* Every committed deletion is vouched for.                                *)
Vouched == \A i \in gone : \E k \in 1..head : file.lines[k] = i

(* A store that serves, or that the ledger cannot repair, holds nothing    *)
(* that is gone.                                                           *)
Removed == mode = "serving" \/ ~ours \/ file.torn => \A i \in gone : rows[i] = NoRow

Replacing == mode = "replacing" => ours /\ ~file.torn

(* A snapshot that is up to date with the ledger holds nothing gone.       *)
Copied == \A s \in snapshots : s.applied = head => \A i \in gone : s.rows[i] = NoRow

(* What a purge leaves alone holds nothing that was gone when it began.    *)
Purging ==
    /\ purge.seen \subseteq gone
    /\ purge.active =>
          \A s \in snapshots \ purge.removed, i \in purge.seen : s.rows[i] = NoRow

IInv ==
    /\ TypeOK /\ Tail1 /\ Transaction /\ Bounded /\ Vouched /\ Removed
    /\ Replacing /\ Copied /\ Purging

-----------------------------------------------------------------------------
(* Facts about the file and about opening.                                 *)

(* Cutting the tail keeps what the head vouches for, and a line added      *)
(* after the cut is the one the next head names.                           *)
LEMMA CutKeeps ==
    ASSUME TypeOK, Tail1, NEW i \in Identities
    PROVE  /\ Cut \in Seq(Identities) /\ Len(Cut) = head
           /\ \A k \in 1..head : Cut[k] = file.lines[k]
           /\ Append(Cut, i) \in Seq(Identities) /\ Len(Append(Cut, i)) = head + 1
           /\ \A k \in 1..head : Append(Cut, i)[k] = file.lines[k]
           /\ Append(Cut, i)[head + 1] = i
<1>1. file.lines \in Seq(Identities) /\ head \in Nat /\ head <= Len(file.lines)
      BY DEF TypeOK, Tail1
<1>2. Cut \in Seq(Identities) /\ Len(Cut) = head /\ \A k \in 1..head : Cut[k] = file.lines[k]
      BY <1>1 DEF Cut, vouched
<1> QED BY <1>1, <1>2

(* The Plane's own ledger vouches for its store and its snapshots unless a *)
(* line is torn.                                                           *)
LEMMA SoundVouches ==
    ASSUME IInv, ours, ~file.torn
    PROVE  Trusted /\ \A s \in snapshots : Vouches(s.applied)
BY DEF IInv, Tail1, Bounded, Trusted, Vouches, Wellformed

(* What is opened under a sound ledger holds nothing that is gone.         *)
LEMMA OpenedIsClean ==
    ASSUME IInv, NEW copy \in Copies, copy.applied <= head
    PROVE  /\ connect(copy) \in Copies /\ connect(copy).applied <= head
           /\ ours /\ ~file.torn => \A i \in gone : connect(copy).rows[i] = NoRow
           /\ ~ours \/ file.torn => connect(copy) = copy
<1>1. copy.rows \in [Identities -> Rows \union {NoRow}] /\ copy.applied \in Nat
      BY DEF Copies
<1>2. head \in Nat /\ gone \subseteq Identities /\ head <= Len(file.lines)
      /\ file.lines \in Seq(Identities) /\ Len(file.lines) <= head + 1
      BY DEF IInv, TypeOK, Tail1
<1>3. reapply(copy) \in Copies /\ reapply(copy).applied <= head
      BY <1>1, <1>2 DEF reapply, Copies
<1>4. \A i \in gone : i \in Named(vouched)
  <2>1. vouched \in Seq(Identities) /\ Len(vouched) = head
        /\ \A k \in 1..head : vouched[k] = file.lines[k]
        BY <1>2 DEF vouched
  <2>2. DOMAIN vouched = 1..head
        BY <2>1, <1>2
  <2> QED BY <2>1, <2>2 DEF IInv, Vouched, Named
<1>5. \A i \in gone : reapply(copy).rows[i] = NoRow
      BY <1>2, <1>4 DEF reapply
<1>6. ours /\ ~file.torn => connect(copy) = reapply(copy)
      BY <1>2 DEF connect, Vouches, Wellformed
<1>7. ~ours \/ file.torn => connect(copy) = copy
      BY DEF connect, Vouches, Wellformed
<1>8. connect(copy) \in {copy, reapply(copy)}
      BY DEF connect
<1> QED BY <1>3, <1>5, <1>6, <1>7, <1>8

-----------------------------------------------------------------------------
(* Every step keeps the invariant.                                         *)

LEMMA InitInv == Init => IInv
BY LedgerAssumption DEF Init, IInv, TypeOK, Tail1, Transaction, Bounded, Vouched, Removed,
   Replacing, Copied, Purging, NoTx, NoPurge, Copies

(* Ordinary writes touch no identity that is gone.                         *)
LEMMA WritesInv ==
    ASSUME IInv, NEW i \in Identities, NEW row \in Rows, Writes(i, row) \/ Creates(i, row)
    PROVE  IInv'
<1>1. i \notin gone
  <2>1. CASE Writes(i, row)
        BY <2>1, LedgerAssumption DEF Writes, Idle, IInv, Removed
  <2>2. CASE Creates(i, row)
    <3>1. i \notin Named(file.lines)
          BY <2>2 DEF Creates
    <3>2. \A k \in 1..head : k \in DOMAIN file.lines
          BY DEF IInv, TypeOK, Tail1
    <3> QED BY <3>1, <3>2 DEF Named, IInv, Vouched
  <2> QED BY <2>1, <2>2
<1>2. Puts(i, row) /\ Idle
      BY DEF Writes, Creates
<1>3. rows' \in [Identities -> Rows \union {NoRow}] /\ \A j \in gone : rows'[j] = rows[j]
      BY <1>1, <1>2 DEF IInv, TypeOK, Puts
<1>4. UNCHANGED <<file, head, ours, applied, tx, snapshots, purge, mode, faults, gone>>
      BY <1>2 DEF Puts, ledger
<1>5. TypeOK' /\ Tail1' /\ Transaction' /\ Bounded' /\ Vouched' /\ Replacing' /\ Copied' /\ Purging'
      BY <1>3, <1>4 DEF IInv, TypeOK, Tail1, Transaction, Bounded, Vouched, Replacing, Copied, Purging
<1>6. Removed'
      BY <1>3, <1>4 DEF IInv, Removed
<1> QED BY <1>5, <1>6 DEF IInv

(* The steps of a deleting transaction that nothing interrupts.            *)
LEMMA DeletionInv ==
    ASSUME IInv,
           (\E i \in Identities : record_deletion(i)) \/ write_lines \/ write_head \/ commit
    PROVE  IInv'
<1>1. ASSUME NEW i \in Identities, record_deletion(i)
      PROVE  IInv'
  <2>1. UNCHANGED <<file, head, ours, rows, applied, snapshots, purge, mode, faults, gone>>
        /\ tx' = [step |-> "lines", identity |-> i]
        BY <1>1 DEF record_deletion, ledger, database
  <2>2. mode = "serving" /\ ours /\ ~file.torn
        BY <1>1 DEF record_deletion, Idle, Trusted, Vouches, Wellformed
  <2>3. Transaction'
        BY <2>1, <2>2 DEF Transaction
  <2> QED BY <2>1, <2>3
       DEF IInv, TypeOK, Tail1, Bounded, Vouched, Removed, Replacing, Copied, Purging
<1>2. ASSUME write_lines
      PROVE  IInv'
  <2>1. UNCHANGED <<head, ours, rows, applied, snapshots, purge, mode, faults, gone>>
        /\ tx.step = "lines" /\ file' = [lines |-> Append(Cut, tx.identity), torn |-> FALSE]
        /\ tx' = [tx EXCEPT !.step = "head"]
        BY <1>2 DEF write_lines, database
  <2>2. mode = "serving" /\ ours /\ ~file.torn /\ tx.identity \in Identities
        BY <2>1 DEF IInv, Transaction
  <2>3. /\ file'.lines \in Seq(Identities) /\ Len(file'.lines) = head + 1
        /\ \A k \in 1..head : file'.lines[k] = file.lines[k]
        /\ file'.lines[head + 1] = tx.identity
        BY <2>1, <2>2, CutKeeps DEF IInv
  <2>4. TypeOK'
        BY <2>1, <2>2, <2>3 DEF IInv, TypeOK
  <2>5. Tail1' /\ Transaction' /\ Vouched'
        BY <2>1, <2>2, <2>3 DEF IInv, TypeOK, Tail1, Transaction, Vouched
  <2> QED BY <2>1, <2>2, <2>4, <2>5 DEF IInv, Bounded, Removed, Replacing, Copied, Purging
<1>3. ASSUME write_head
      PROVE  IInv'
  <2>1. UNCHANGED <<file, ours, rows, applied, snapshots, purge, mode, faults, gone>>
        /\ tx.step = "head" /\ head' = head + 1 /\ tx' = [tx EXCEPT !.step = "commit"]
        BY <1>3 DEF write_head, database
  <2>2. head \in Nat /\ applied \in Nat /\ \A s \in snapshots : s.applied \in Nat
        BY DEF IInv, TypeOK, Copies
  <2>3. TypeOK' /\ Tail1' /\ Transaction' /\ Vouched'
        BY <2>1, <2>2 DEF IInv, TypeOK, Tail1, Transaction, Vouched, Bounded
  <2>4. Bounded' /\ Copied'
        BY <2>1, <2>2 DEF IInv, Bounded, Copied
  <2> QED BY <2>1, <2>3, <2>4 DEF IInv, Removed, Replacing, Purging
<1>4. ASSUME commit
      PROVE  IInv'
  <2>1. UNCHANGED <<file, head, ours, snapshots, purge, mode, faults>>
        /\ tx.step = "commit" /\ tx' = NoTx /\ applied' = head
        /\ rows' = [rows EXCEPT ![tx.identity] = NoRow] /\ gone' = gone \union {tx.identity}
        BY <1>4 DEF commit, ledger, Finished
  <2>2. tx.identity \in Identities /\ (\E k \in 1..head : file.lines[k] = tx.identity)
        /\ \A s \in snapshots : s.applied < head
        BY <2>1 DEF IInv, Transaction
  <2>3. head \in Nat /\ \A s \in snapshots : s.applied \in Nat
        BY DEF IInv, TypeOK, Copies
  <2>4. TypeOK' /\ Tail1' /\ Transaction' /\ Vouched'
        BY <2>1, <2>2, <2>3 DEF IInv, TypeOK, Tail1, Transaction, Vouched, NoTx
  <2>5. Bounded' /\ Copied'
        BY <2>1, <2>2, <2>3 DEF IInv, Bounded, Copied
  <2>6. Removed'
        BY <2>1, <2>2 DEF IInv, TypeOK, Removed, Transaction
  <2> QED BY <2>1, <2>4, <2>5, <2>6 DEF IInv, Replacing, Purging
<1> QED BY <1>1, <1>2, <1>3, <1>4

(* The steps at which it is interrupted, and the end of an idle daemon.    *)
LEMMA InterruptedInv ==
    ASSUME IInv,
           LinesInterrupted \/ HeadInterrupted \/ CommitInterrupted \/ Stop
    PROVE  IInv'
<1>1. UNCHANGED <<ours, rows, applied, snapshots, gone>>
      BY DEF LinesInterrupted, HeadInterrupted, CommitInterrupted, Stop, database, ledger
<1>2. (mode = "serving" \/ (mode = "read_only" /\ UNCHANGED file))
      /\ mode' \in {"serving", "read_only", "down"} /\ (mode' = "serving" => mode = "serving")
      /\ tx' = NoTx /\ purge' \in {purge, NoPurge} /\ faults' \in 0..MaxFaults
      BY LedgerAssumption DEF IInv, TypeOK, Transaction, LinesInterrupted, HeadInterrupted,
         CommitInterrupted, Stop, AbandonedOrDown, Fault, ledger
<1> DEFINE Sound ==
      /\ file' \in [lines : Seq(Identities), torn : BOOLEAN] /\ head' \in Nat /\ head' >= head
      /\ head' <= Len(file'.lines) /\ Len(file'.lines) <= head' + 1
      /\ \A k \in 1..head : file'.lines[k] = file.lines[k]
<1>3. Sound
  <2>1. CASE LinesInterrupted
    <3>1. tx.identity \in Identities /\ head' = head
          BY <2>1 DEF LinesInterrupted, IInv, Transaction
    <3>2. TypeOK /\ Tail1
          BY DEF IInv
    <3>3. file' \in {file, [lines |-> Cut, torn |-> FALSE], [lines |-> Cut, torn |-> TRUE],
                     [lines |-> Append(Cut, tx.identity), torn |-> FALSE]}
          BY <2>1 DEF LinesInterrupted
    <3>4. CASE file' = file
          BY <3>1, <3>2, <3>4 DEF TypeOK, Tail1
    <3>5. ASSUME NEW torn \in BOOLEAN, file' = [lines |-> Cut, torn |-> torn]
          PROVE  Sound
          BY <3>1, <3>2, <3>5, CutKeeps DEF TypeOK
    <3>6. CASE file' = [lines |-> Append(Cut, tx.identity), torn |-> FALSE]
          BY <3>1, <3>2, <3>6, CutKeeps DEF TypeOK
    <3> QED BY <3>3, <3>4, <3>5, <3>6
  <2>2. CASE HeadInterrupted
        BY <2>2 DEF HeadInterrupted, IInv, TypeOK, Tail1, Transaction
  <2>3. CASE CommitInterrupted \/ Stop
        BY <2>3 DEF CommitInterrupted, Stop, ledger, IInv, TypeOK, Tail1
  <2> QED BY <2>1, <2>2, <2>3
<1>4. TypeOK'
  <2>1. purge' \in [active : BOOLEAN, removed : SUBSET Copies, seen : SUBSET Identities]
    <3>1. NoPurge \in [active : BOOLEAN, removed : SUBSET Copies, seen : SUBSET Identities]
          BY DEF NoPurge
    <3>2. purge \in [active : BOOLEAN, removed : SUBSET Copies, seen : SUBSET Identities]
          BY DEF IInv, TypeOK
    <3> QED BY <1>2, <3>1, <3>2
  <2>2. tx' \in [step : {"none", "lines", "head", "commit"}, identity : Identities \union {NoIdentity}]
        BY <1>2 DEF NoTx
  <2> QED BY <1>1, <1>2, <1>3, <2>1, <2>2 DEF IInv, TypeOK, Copies
<1>5. Tail1' /\ Transaction' /\ Replacing'
      BY <1>2, <1>3 DEF Tail1, Transaction, Replacing, NoTx
<1>6. Bounded' /\ Copied'
      BY <1>1, <1>3 DEF IInv, TypeOK, Copies, Bounded, Copied
<1>7. Vouched'
  <2>1. \A k \in 1..head : k \in 1..head' /\ file'.lines[k] = file.lines[k]
        BY <1>3 DEF IInv, TypeOK
  <2>2. \A i \in gone : \E k \in 1..head : file.lines[k] = i
        BY DEF IInv, Vouched
  <2> QED BY <1>1, <2>1, <2>2 DEF Vouched
<1>8. Removed'
      BY <1>1, <1>2 DEF IInv, Removed
<1>9. Purging'
      BY <1>1, <1>2 DEF IInv, Purging, NoPurge
<1> QED BY <1>4, <1>5, <1>6, <1>7, <1>8, <1>9 DEF IInv

(* Opening, in either mode, and putting a snapshot in the place of a       *)
(* damaged store.                                                          *)
LEMMA OpeningInv ==
    ASSUME IInv,
           \/ Open \/ OpenReadOnly \/ RestoreBegins \/ RestoreInterrupted
           \/ \E s \in snapshots : RestoreOpens(s)
    PROVE  IInv'
<1>1. UNCHANGED <<file, head, tx, snapshots, purge, gone>> /\ faults' \in 0..MaxFaults
      BY LedgerAssumption DEF IInv, TypeOK, Open, OpenReadOnly, RestoreBegins,
         RestoreInterrupted, RestoreOpens, Fault, ledger
<1>2. tx.step = "none"
      BY DEF IInv, TypeOK, Transaction, Open, OpenReadOnly, RestoreBegins, RestoreInterrupted,
         RestoreOpens
<1> DEFINE Clean ==
      /\ rows' \in [Identities -> Rows \union {NoRow}] /\ applied' \in Nat /\ applied' <= head
      /\ ours' \in BOOLEAN /\ mode' \in {"serving", "read_only", "replacing", "down"}
      /\ mode' = "serving" \/ ~ours' \/ file.torn => \A i \in gone : rows'[i] = NoRow
      /\ mode' = "replacing" => ours' /\ ~file.torn
<1>3. Clean
  <2>1. CASE Open
    <3>1. Copy \in Copies /\ Copy.applied <= head /\ Copy.rows = rows
          BY DEF IInv, TypeOK, Bounded, Copy, Copies
    <3>2. /\ connect(Copy) \in Copies /\ connect(Copy).applied <= head
          /\ ours /\ ~file.torn => \A i \in gone : connect(Copy).rows[i] = NoRow
          /\ ~ours \/ file.torn => connect(Copy) = Copy
          BY <3>1, OpenedIsClean
    <3>3. rows' = connect(Copy).rows /\ applied' = connect(Copy).applied
          /\ mode' = "serving" /\ ours' = ours
          BY <2>1 DEF Open, Becomes, ledger
    <3>4. ~ours \/ file.torn => \A i \in gone : rows[i] = NoRow
          BY DEF IInv, Removed
    <3>5. \A i \in gone : rows'[i] = NoRow
          BY <3>1, <3>2, <3>3, <3>4
    <3>6. connect(Copy).rows \in [Identities -> Rows \union {NoRow}] /\ connect(Copy).applied \in Nat
          BY <3>2 DEF Copies
    <3> QED BY <3>2, <3>3, <3>5, <3>6 DEF IInv, TypeOK
  <2>2. CASE OpenReadOnly
        BY <2>2 DEF OpenReadOnly, IInv, TypeOK, Bounded, Removed, ledger, database
  <2>3. CASE RestoreBegins
        BY <2>3 DEF RestoreBegins, Trusted, Vouches, Wellformed, IInv, TypeOK, Bounded, Removed,
           ledger, database
  <2>4. CASE RestoreInterrupted
    <3>1. \A i \in gone : i \in Identities
          BY DEF IInv, TypeOK
    <3>2. rows' = [i \in Identities |-> NoRow] /\ applied' = 0 /\ ours' = FALSE /\ mode' = "down"
          BY <2>4 DEF RestoreInterrupted
    <3>3. head \in Nat
          BY DEF IInv, TypeOK
    <3>4. ours' \in BOOLEAN
          BY <3>2
    <3>5. rows' \in [Identities -> Rows \union {NoRow}] /\ \A i \in gone : rows'[i] = NoRow
          BY <3>1, <3>2
    <3>6. applied' \in Nat /\ applied' <= head
          BY <3>2, <3>3
    <3> QED BY <3>2, <3>4, <3>5, <3>6
  <2>5. ASSUME NEW s \in snapshots, RestoreOpens(s)
        PROVE  Clean
    <3>1. s \in Copies /\ s.applied <= head /\ ours /\ ~file.torn
          BY <2>5 DEF RestoreOpens, IInv, TypeOK, Bounded, Replacing
    <3>2. /\ connect(s) \in Copies /\ connect(s).applied <= head
          /\ \A i \in gone : connect(s).rows[i] = NoRow
          BY <3>1, OpenedIsClean
    <3>3. ours' = ours
          BY <2>5 DEF RestoreOpens, ledger
    <3>4. CASE Becomes(connect(s)) /\ mode' = "serving"
          BY <3>1, <3>2, <3>3, <3>4 DEF Becomes, Copies
    <3>5. CASE Becomes(s) /\ mode' = "read_only"
          BY <3>1, <3>3, <3>5 DEF Becomes, Copies
    <3> QED BY <2>5, <3>4, <3>5 DEF RestoreOpens
  <2> QED BY <2>1, <2>2, <2>3, <2>4, <2>5
<1>4. TypeOK' /\ Transaction'
      BY <1>1, <1>2, <1>3 DEF IInv, TypeOK, Transaction, Copies
<1> QED BY <1>1, <1>3, <1>4
    DEF IInv, Tail1, Bounded, Vouched, Removed, Replacing, Copied, Purging

(* Taking a snapshot and purging.                                          *)
LEMMA SnapshotInv ==
    ASSUME IInv, create_snapshot \/ PurgeBegins \/ PurgeRemoves
    PROVE  IInv'
<1>1. UNCHANGED <<file, head, ours, rows, applied, tx, mode, faults, gone>>
      /\ mode = "serving" /\ tx = NoTx
      BY DEF create_snapshot, PurgeBegins, PurgeRemoves, Idle, ledger, database
<1>2. Copy \in Copies /\ Copy.applied <= head /\ \A i \in gone : Copy.rows[i] = NoRow
      BY <1>1 DEF IInv, TypeOK, Bounded, Removed, Copy, Copies
<1>3. Tail1' /\ Vouched' /\ Removed' /\ Replacing' /\ Transaction'
      BY <1>1 DEF IInv, Tail1, Vouched, Removed, Replacing, Transaction, NoTx
<1>4. snapshots' \subseteq snapshots \union {Copy}
      BY DEF create_snapshot, PurgeBegins, PurgeRemoves
<1>5. Bounded' /\ Copied'
      BY <1>1, <1>2, <1>4 DEF IInv, Bounded, Copied
<1>6. purge' \in [active : BOOLEAN, removed : SUBSET Copies, seen : SUBSET Identities] /\ Purging'
  <2>1. CASE create_snapshot
        BY <1>1, <1>2, <1>4, <2>1 DEF create_snapshot, IInv, TypeOK, Purging
  <2>2. CASE PurgeBegins
    <3>1. purge' = [active |-> TRUE, removed |-> affected_snapshots, seen |-> gone]
          /\ snapshots' = snapshots
          BY <2>2 DEF PurgeBegins
    <3>2. affected_snapshots \subseteq snapshots
          /\ \A s \in snapshots \ affected_snapshots : s.applied = head
          BY DEF affected_snapshots, IInv, TypeOK, Bounded, Copies
    <3> QED BY <1>1, <3>1, <3>2 DEF IInv, TypeOK, Copied, Purging
  <2>3. CASE PurgeRemoves
    <3>1. purge' = NoPurge
          BY <2>3 DEF PurgeRemoves
    <3> QED BY <3>1 DEF NoPurge, Purging
  <2> QED BY <2>1, <2>2, <2>3
<1>7. TypeOK'
      BY <1>1, <1>2, <1>4, <1>6 DEF IInv, TypeOK
<1> QED BY <1>3, <1>5, <1>6, <1>7 DEF IInv

LEMMA StepInv == IInv /\ [Next]_vars => IInv'
<1>1. SUFFICES ASSUME IInv, [Next]_vars PROVE IInv'
      OBVIOUS
<1>2. CASE UNCHANGED vars
      BY <1>1, <1>2 DEF vars, IInv, TypeOK, Tail1, Transaction, Bounded, Vouched, Removed, Replacing,
         Copied, Purging, Copies
<1>3. CASE Next
      BY <1>1, <1>3, WritesInv, DeletionInv, InterruptedInv, OpeningInv, SnapshotInv DEF Next
<1> QED BY <1>1, <1>2, <1>3

-----------------------------------------------------------------------------
(* The theorems.                                                           *)

(* The inductive invariant holds in every state.                           *)
THEOREM Invariant == Spec => []IInv
BY InitInv, StepInv, PTL DEF Spec

(* The files, the store and its snapshots keep their types (evidence/).    *)
THEOREM TypeCorrect == Spec => []TypeOK
<1>1. IInv => TypeOK
      BY DEF IInv
<1> QED BY Invariant, <1>1, PTL

(* A committed deletion is never undone in a Plane that serves: not by a   *)
(* crash between ledger and database, nor by restoring an older snapshot   *)
(* (transaction.rs commit, deletion/reapply.rs).                           *)
THEOREM DeletionsStay == Spec => []GoneStaysGone
<1>1. IInv => GoneStaysGone
      BY DEF IInv, Removed, GoneStaysGone
<1> QED BY Invariant, <1>1, PTL

(* A ledger no line of which is torn always vouches for its store and for  *)
(* every snapshot (evidence/mod.rs vouched, behind_store).                 *)
THEOREM LedgerStaysSound == Spec => []LedgerHolds
<1>1. IInv => LedgerHolds
      BY SoundVouches DEF LedgerHolds, Vouches
<1> QED BY Invariant, <1>1, PTL

(* A purge that ends leaves no snapshot that holds what was gone when it   *)
(* began, whatever was deleted and copied in the meantime                  *)
(* (deletion/purge.rs affected_snapshots, remove_snapshots).               *)
THEOREM PurgesComplete == Spec => PurgeIsComplete
<1> DEFINE Complete ==
      purge.active /\ ~purge'.active /\ mode' = "serving" =>
          \A s \in snapshots', i \in purge.seen : s.rows[i] = NoRow
<1>1. IInv /\ [Next]_vars => [Complete]_vars
  <2>1. SUFFICES ASSUME IInv, Next, purge.active, ~purge'.active, mode' = "serving"
                 PROVE  \A s \in snapshots', i \in purge.seen : s.rows[i] = NoRow
        OBVIOUS
  <2>2. PurgeRemoves
        BY <2>1 DEF Next, write_lines, write_head, commit, LinesInterrupted, HeadInterrupted,
           CommitInterrupted, AbandonedOrDown, Stop, Open, OpenReadOnly, create_snapshot,
           PurgeBegins, RestoreBegins, RestoreInterrupted, RestoreOpens, record_deletion,
           Writes, Creates, Puts
  <2>3. \A i \in purge.seen : Copy.rows[i] = NoRow
    <3>1. mode = "serving" /\ purge.seen \subseteq gone
          BY <2>1, <2>2 DEF PurgeRemoves, Idle, IInv, Purging
    <3>2. Copy.rows = rows
          BY DEF Copy
    <3> QED BY <2>1, <3>1, <3>2 DEF IInv, Removed
  <2> QED BY <2>1, <2>2, <2>3 DEF PurgeRemoves, IInv, Purging
<1> QED BY Invariant, <1>1, PTL DEF Spec, PurgeIsComplete
=============================================================================
