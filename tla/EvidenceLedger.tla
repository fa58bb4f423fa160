--------------------------- MODULE EvidenceLedger ---------------------------
(***************************************************************************)
(* The Deletion ledger of a Plane, the store it describes and the Recovery *)
(* snapshots (jet-store evidence/, deletion/, transaction.rs, open.rs,     *)
(* recovery.rs, snapshot.rs).                                              *)
(*                                                                         *)
(* A deletion is appended to a file beside the database, then the head of  *)
(* that file is replaced, then the database commits.  The daemon may end,  *)
(* or the disk refuse a write, between and inside these steps.  A store    *)
(* found damaged serves reads only until a snapshot is restored over it;   *)
(* what the ledger vouches for is removed again at every open.             *)
(*                                                                         *)
(* The database has one connection, so a write transaction excludes every  *)
(* other use of the store from its start to its commit.                    *)
(***************************************************************************)
EXTENDS Integers, Sequences, FiniteSets

CONSTANTS
    Identities,     \* what can be deleted: Conversations, Paired clients ...
    Rows,           \* what the store may say of an identity
    NoRow,          \* what it says of one that it does not hold
    NoIdentity,
    MaxSnapshots,   \* bound on the snapshots that rotation retains
    MaxFaults       \* bound on interrupted writes and on damage

ASSUME LedgerAssumption ==
    /\ NoRow \notin Rows
    /\ NoIdentity \notin Identities
    /\ MaxSnapshots \in Nat \ {0}
    /\ MaxFaults \in Nat

VARIABLES
    file,       \* the ledger file: its whole lines, and whether a torn one follows
    head,       \* the sequence its head names; 0 while there is no head file
    ours,       \* does the ledger name the identity of the database's Plane?
    rows,       \* the database: a row for each identity it holds
    applied,    \* ... and how many ledger records it says it has applied
    tx,         \* the deleting transaction in progress
    snapshots,  \* verified copies of the database
    purge,      \* the purge in progress: the snapshots it is going to remove
    mode,       \* "serving", "read_only", "replacing" or "down"
    faults,
    gone        \* history: identities whose deletion has committed

ledger == <<file, head, ours>>
database == <<rows, applied>>
vars == <<file, head, ours, rows, applied, tx, snapshots, purge, mode, faults, gone>>

NoTx == [step |-> "none", identity |-> NoIdentity]
NoPurge == [active |-> FALSE, removed |-> {}, seen |-> {}]

-----------------------------------------------------------------------------
(* What a reader of the files makes of them.                               *)

(* The line a write may leave past the head is tolerated, a torn one or a  *)
(* ledger of another Plane is not (vouched, read_ledger_file, check_plane). *)
vouched == SubSeq(file.lines, 1, head)
Wellformed ==
    /\ ours /\ ~file.torn
    /\ head <= Len(file.lines) /\ Len(file.lines) <= head + 1

(* It vouches for a store that has applied count records: it reads, and is *)
(* not behind that store (behind_store).                                   *)
Vouches(count) == Wellformed /\ count <= head
Trusted == Vouches(applied)

Named(seq) == {seq[k] : k \in DOMAIN seq}

(* reapply removes every identity the ledger names, whether the store had  *)
(* applied its record or not, and a store behind the ledger catches up.    *)
reapply(copy) ==
    [rows |-> [i \in Identities |-> IF i \in Named(vouched) THEN NoRow ELSE copy.rows[i]],
     applied |-> IF copy.applied < head THEN head ELSE copy.applied]

(* connect: a ledger that vouches for nothing is left for the status to    *)
(* report, and the store serves as it is.                                  *)
connect(copy) == IF Vouches(copy.applied) THEN reapply(copy) ELSE copy

Copy == [rows |-> rows, applied |-> applied]
Becomes(copy) == rows' = copy.rows /\ applied' = copy.applied

-----------------------------------------------------------------------------
(* Ordinary transactions.                                                  *)

Idle == mode = "serving" /\ tx = NoTx

Puts(i, row) ==
    /\ rows' = [rows EXCEPT ![i] = row]
    /\ UNCHANGED <<ledger, applied, tx, snapshots, purge, mode, faults, gone>>

Writes(i, row) == Idle /\ rows[i] \in Rows /\ Puts(i, row)

(* A new identity is a fresh UUID: the ledger does not name it.            *)
Creates(i, row) ==
    /\ Idle
    /\ rows[i] = NoRow /\ i \notin Named(file.lines)
    /\ Puts(i, row)

-----------------------------------------------------------------------------
(* commit of a transaction that recorded a deletion.  Every transaction of *)
(* jet-core records at most one.                                           *)

(* Mutant: the database commits before the ledger is written.              *)
record_deletion_CommitsFirst(i) ==
    /\ Idle /\ rows[i] \in Rows /\ Trusted
    /\ tx' = [step |-> "lines", identity |-> i]
    /\ rows' = [rows EXCEPT ![i] = NoRow] /\ gone' = gone \union {i}
    /\ UNCHANGED <<ledger, applied, snapshots, purge, mode, faults>>
record_deletion(i) ==
    /\ Idle
    /\ rows[i] \in Rows
    /\ Trusted
    /\ tx' = [step |-> "lines", identity |-> i]
    /\ UNCHANGED <<ledger, database, snapshots, purge, mode, faults, gone>>

(* Mutant: the tail that a crash left stays.                               *)
Cut_KeepsTail == file.lines
(* The file is cut where its vouched part ends before the line is added.   *)
Cut == vouched

write_lines ==
    /\ tx.step = "lines"
    /\ file' = [lines |-> Append(Cut, tx.identity), torn |-> FALSE]
    /\ tx' = [tx EXCEPT !.step = "head"]
    /\ UNCHANGED <<head, ours, database, snapshots, purge, mode, faults, gone>>

write_head ==
    /\ tx.step = "head"
    /\ head' = head + 1
    /\ tx' = [tx EXCEPT !.step = "commit"]
    /\ UNCHANGED <<file, ours, database, snapshots, purge, mode, faults, gone>>

(* Mutant: the transaction is not over.                                    *)
Finished_KeepsStep == [tx EXCEPT !.identity = NoIdentity]
Finished == NoTx

commit ==
    /\ tx.step = "commit"
    /\ rows' = [rows EXCEPT ![tx.identity] = NoRow]
    /\ applied' = head
    /\ gone' = gone \union {tx.identity}
    /\ tx' = Finished
    /\ UNCHANGED <<ledger, snapshots, purge, mode, faults>>

-----------------------------------------------------------------------------
(* Faults.  The process ends, or a write fails and the transaction is      *)
(* abandoned while the daemon goes on (abandon).                           *)

Fault == faults < MaxFaults /\ faults' = faults + 1

AbandonedOrDown ==
    /\ tx' = NoTx
    /\ mode' \in {"serving", "down"}
    /\ purge' = IF mode' = "down" THEN NoPurge ELSE purge

(* Nothing, the cut, a part of the line, or the whole line has reached the *)
(* disk.                                                                   *)
LinesInterrupted ==
    /\ tx.step = "lines" /\ Fault
    /\ file' \in {file,
                  [lines |-> Cut, torn |-> FALSE],
                  [lines |-> Cut, torn |-> TRUE],
                  [lines |-> Append(Cut, tx.identity), torn |-> FALSE]}
    /\ AbandonedOrDown
    /\ UNCHANGED <<head, ours, database, snapshots, gone>>

(* The rename has happened or not; the directory may fail to sync after it. *)
HeadInterrupted ==
    /\ tx.step = "head" /\ Fault
    /\ head' \in {head, head + 1}
    /\ AbandonedOrDown
    /\ UNCHANGED <<file, ours, database, snapshots, gone>>

CommitInterrupted ==
    /\ tx.step = "commit" /\ Fault
    /\ AbandonedOrDown
    /\ UNCHANGED <<ledger, database, snapshots, gone>>

(* The daemon ends, or is ended, while nothing is being written.           *)
Stop ==
    /\ mode \in {"serving", "read_only"} /\ tx = NoTx
    /\ mode' = "down" /\ purge' = NoPurge
    /\ UNCHANGED <<ledger, database, tx, snapshots, faults, gone>>

-----------------------------------------------------------------------------
(* Opening (connect).                                                      *)

Open ==
    /\ mode = "down"
    /\ Becomes(connect(Copy))
    /\ mode' = "serving"
    /\ UNCHANGED <<ledger, tx, snapshots, purge, faults, gone>>

(* The pages fail SQLite's check, or the schema cannot be migrated.        *)
OpenReadOnly ==
    /\ mode = "down" /\ Fault
    /\ mode' = "read_only"
    /\ UNCHANGED <<ledger, database, tx, snapshots, purge, gone>>

-----------------------------------------------------------------------------
(* Snapshots.                                                              *)

(* create publishes a copy of the database and rotates the older ones out. *)
create_snapshot ==
    /\ Idle
    /\ \E kept \in SUBSET snapshots :
        /\ Cardinality(kept) < MaxSnapshots
        /\ snapshots' = kept \union {Copy}
    /\ UNCHANGED <<ledger, database, tx, purge, mode, faults, gone>>

(* Mutant: one deletion short.                                             *)
affected_snapshots_LeavesLast == {s \in snapshots : s.applied < head - 1}
(* The snapshots that had applied fewer deletions than the ledger holds.   *)
affected_snapshots == {s \in snapshots : s.applied < head}

(* purge_recovery_snapshots reads them ...                                 *)
PurgeBegins ==
    /\ Idle /\ Trusted
    /\ ~purge.active
    /\ purge' = [active |-> TRUE, removed |-> affected_snapshots, seen |-> gone]
    /\ UNCHANGED <<ledger, database, tx, snapshots, mode, faults, gone>>

(* ... and takes a copy before it removes them.                            *)
PurgeRemoves ==
    /\ Idle /\ purge.active
    /\ snapshots' = (snapshots \ purge.removed) \union {Copy}
    /\ purge' = NoPurge
    /\ UNCHANGED <<ledger, database, tx, mode, faults, gone>>

(* restore_recovery_snapshot: the damaged database is moved aside ...      *)
RestoreBegins ==
    /\ mode = "read_only" /\ Trusted
    /\ snapshots /= {}
    /\ mode' = "replacing"
    /\ UNCHANGED <<ledger, database, tx, snapshots, purge, faults, gone>>

(* ... the copy takes its place, and is opened like any store.  A copy that *)
(* fails its checks leaves the Plane in Recovery mode.                     *)
RestoreOpens(s) ==
    /\ mode = "replacing"
    /\ \/ Becomes(connect(s)) /\ mode' = "serving" /\ UNCHANGED faults
       \/ Becomes(s) /\ mode' = "read_only" /\ Fault
    /\ UNCHANGED <<ledger, tx, snapshots, purge, gone>>

(* Between the two there is no database.  The next open creates one, with  *)
(* the identity of a new Plane, for which the old ledger does not vouch.   *)
RestoreInterrupted ==
    /\ mode = "replacing" /\ Fault
    /\ mode' = "down"
    /\ rows' = [i \in Identities |-> NoRow] /\ applied' = 0
    /\ ours' = FALSE
    /\ UNCHANGED <<file, head, tx, snapshots, purge, gone>>

-----------------------------------------------------------------------------
Init ==
    /\ file = [lines |-> <<>>, torn |-> FALSE] /\ head = 0 /\ ours = TRUE
    /\ rows \in [Identities -> Rows \union {NoRow}] /\ applied = 0
    /\ tx = NoTx
    /\ snapshots = {} /\ purge = NoPurge
    /\ mode = "serving" /\ faults = 0
    /\ gone = {}

Next ==
    \/ write_lines \/ write_head \/ commit
    \/ LinesInterrupted \/ HeadInterrupted \/ CommitInterrupted
    \/ Stop \/ Open \/ OpenReadOnly
    \/ create_snapshot \/ PurgeBegins \/ PurgeRemoves
    \/ RestoreBegins \/ RestoreInterrupted
    \/ \E s \in snapshots : RestoreOpens(s)
    \/ \E i \in Identities :
        \/ record_deletion(i)
        \/ \E row \in Rows : Writes(i, row) \/ Creates(i, row)

Spec == Init /\ [][Next]_vars

-----------------------------------------------------------------------------
(* Properties.                                                             *)

Copies == [rows : [Identities -> Rows \union {NoRow}], applied : Nat]

TypeOK ==
    /\ file \in [lines : Seq(Identities), torn : BOOLEAN]
    /\ head \in Nat /\ ours \in BOOLEAN
    /\ rows \in [Identities -> Rows \union {NoRow}] /\ applied \in Nat
    /\ tx \in [step : {"none", "lines", "head", "commit"},
               identity : Identities \union {NoIdentity}]
    /\ snapshots \subseteq Copies
    /\ purge \in [active : BOOLEAN, removed : SUBSET Copies, seen : SUBSET Identities]
    /\ mode \in {"serving", "read_only", "replacing", "down"}
    /\ faults \in 0..MaxFaults
    /\ gone \subseteq Identities

(* A deletion that was committed, and so answered, stays: whatever crashes, *)
(* fails or is restored afterwards, a Plane that serves does not hold the   *)
(* identity (transaction.rs:180, deletion/reapply.rs, restore.rs:49).       *)
GoneStaysGone == mode = "serving" => \A i \in gone : rows[i] = NoRow

(* No order of crashes and failed writes makes the Plane's own ledger       *)
(* unreadable, or puts it behind its store, as long as no line is torn: the *)
(* tail past the head is one line at most (vouched, behind_store).          *)
LedgerHolds ==
    ours /\ ~file.torn => Trusted /\ \A s \in snapshots : s.applied <= head

(* Once a purge has ended, no snapshot holds an identity whose deletion had *)
(* committed when the purge began (deletion/purge.rs:1, purge.rs:52).       *)
PurgeIsComplete ==
    [][purge.active /\ ~purge'.active /\ mode' = "serving" =>
        \A s \in snapshots', i \in purge.seen : s.rows[i] = NoRow]_vars
=============================================================================
