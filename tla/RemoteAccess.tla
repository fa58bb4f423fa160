----------------------------- MODULE RemoteAccess -----------------------------
(***************************************************************************)
(* How the core admits Commands: the authority gate, remote connections,   *)
(* pairing and Command receipts (jet-core command/execute.rs, receipt.rs,  *)
(* remote/mod.rs; jet-store command.rs).                                   *)
(*                                                                         *)
(* A Command holds every permit of the gate, authenticating a connection   *)
(* holds one.  Between the commit of a Command and the moment its clients'  *)
(* connections are invalidated there is a window, and so there is between  *)
(* reading the key of a client and registering its connection.  Clients    *)
(* repeat Commands whose answers they missed, at any later time.           *)
(***************************************************************************)
EXTENDS Pairing, FiniteSets

CONSTANTS
    Connections,    \* bound: the remote connections that are ever made
    Commands,       \* identities of Commands that are repeated
    Version,        \* the version their outcome is encoded in, unless refused
    Digests,        \* contents a Command of that identity may be sent with
    Retention,      \* COMMAND_RETENTION_MS, in ticks
    MaxFaults       \* bound on restarts and failed transactions

ASSUME AccessAssumption ==
    /\ Version \in [Commands -> Nat]
    /\ Retention \in Nat /\ MaxFaults \in Nat

VARIABLES
    store,          \* what the pairing Commands write
    ledgered,       \* the clients the Deletion ledger names
    receipts,       \* the receipt of each identity
    connections,    \* remote connections and the key each one proved
    gate,           \* what holds permits: authentications, or one Command
    now,
    faults,
    applied,        \* history: how often each identity was executed
    answers,        \* ... what was answered to it with each content
    guesses         \* ... the wrong proofs made against each offer

vars == <<store, ledgered, receipts, connections, gate, now, faults, applied, answers, guesses>>
history == <<applied, answers, guesses>>

NoReceipt == [state |-> "none", digest |-> 0, outcome |-> "none", at |-> 0]
NoConnection == [state |-> "new", client |-> NoClient, key |-> 0]

(* The permits: authentications hold one each.  A Command holds them all,  *)
(* and its transaction is one step; after it the gate stays closed while   *)
(* there is a client to invalidate.                                        *)
FreeGate == [authenticating |-> {}, invalidates |-> NoClient]
(* Mutant: a Command takes one permit.                                     *)
AllPermits_One == gate.invalidates = NoClient
AllPermits == gate = FreeGate
OnePermit == gate.invalidates = NoClient

Live(n) == connections[n].state = "live"

-----------------------------------------------------------------------------
(* authenticate_remote: the key is read ...                                *)
AuthenticateReads(n, c) ==
    /\ OnePermit
    /\ connections[n] = NoConnection
    /\ connections' = [connections EXCEPT ![n] =
        [state |-> IF store.paired[c].access = "enabled" THEN "verified" ELSE "refused",
         client |-> c, key |-> store.paired[c].key]]
    /\ gate' = [gate EXCEPT !.authenticating = @ \union {n}]
    /\ UNCHANGED <<store, ledgered, receipts, now, faults, history>>

(* ... the audit is written, and the connection is registered.             *)
register(n) ==
    /\ n \in gate.authenticating
    /\ connections' = [connections EXCEPT ![n].state =
        IF @ = "verified" THEN "live" ELSE "closed"]
    /\ gate' = [gate EXCEPT !.authenticating = @ \ {n}]
    /\ UNCHANGED <<store, ledgered, receipts, now, faults, history>>

(* The client goes away.                                                   *)
Disconnects(n) ==
    /\ Live(n)
    /\ connections' = [connections EXCEPT ![n].state = "closed"]
    /\ UNCHANGED <<store, ledgered, receipts, gate, now, faults, history>>

-----------------------------------------------------------------------------
(* execute.                                                                *)

(* A Command of a remote client names its connection, which must not have  *)
(* been invalidated.                                                       *)
authorize(n) == Live(n)

(* What the transaction leaves, with the gate held until it is published.  *)
Commits(result) ==
    /\ store' = result.store
    /\ ledgered' = IF result.invalidates /= NoClient
                      /\ result.store.paired[result.invalidates] = Unpaired
                   THEN ledgered \union {result.invalidates} ELSE ledgered
    /\ gate' = [gate EXCEPT !.invalidates = result.invalidates]

Guess(result) ==
    guesses' = IF result.answer = "wrong"
               THEN [guesses EXCEPT ![store.offer.id] = @ + 1] ELSE guesses

(* The pairing Commands of local connections, whose clients are trusted.   *)
(* Each has an identity of its own.                                        *)
Results ==
    {open(store, now)}
    \union {claim(store, c, right, now) : c \in Clients, right \in BOOLEAN}
    \union {confirm(store, c, id, right, now) :
                c \in Clients, id \in 1..store.issued, right \in BOOLEAN}
    \union {complete(store, c, id, right, now) :
                c \in Clients, id \in 1..store.issued, right \in BOOLEAN}
    \union {set_gate(store, to, now) : to \in {"open", "closed"}}
    \union {set_access(store, c, access) : c \in Clients, access \in {"enabled", "disabled"}}
    \union {revoke(store, c) : c \in Clients}

Executes(result) ==
    /\ AllPermits
    /\ result.store.issued <= MaxOffers
    /\ Commits(result) /\ Guess(result)
    /\ UNCHANGED <<receipts, connections, now, faults, applied, answers>>

(* The transaction fails after the Command has decided: connections close  *)
(* all the same, in case it had committed.                                 *)
Abandons(result) ==
    /\ AllPermits
    /\ result.invalidates /= NoClient
    /\ faults < MaxFaults /\ faults' = faults + 1
    /\ gate' = [gate EXCEPT !.invalidates = result.invalidates]
    /\ UNCHANGED <<store, ledgered, receipts, connections, now, history>>

(* A refusal is encoded as it always was, whatever the Command.            *)
outcome_version(i, outcome) == IF outcome = "refused" THEN 1 ELSE Version[i]

(* The versions that replay decodes.                                       *)
ReplayedVersions == (1..11) \union {15}

(* Mutant: the identity goes too.                                          *)
prune_command_receipts_Forgets ==
    [i \in Commands |->
        IF receipts[i].state = "kept" /\ receipts[i].at < now - Retention
        THEN NoReceipt ELSE receipts[i]]

(* An outcome goes when its retention ends; the identity stays.            *)
prune_command_receipts ==
    [i \in Commands |->
        IF receipts[i].state = "kept" /\ receipts[i].at < now - Retention
        THEN [receipts[i] EXCEPT !.state = "tombstone", !.digest = 0, !.outcome = "none"]
        ELSE receipts[i]]

replay(i, receipt, digest) ==
    CASE now - receipt.at > Retention -> "expired"
      [] now - receipt.at <= Retention /\ receipt.digest /= digest -> "reused"
      [] OTHER -> IF outcome_version(i, receipt.outcome) \in ReplayedVersions
                  THEN receipt.outcome ELSE "incompatible"

Answered(i, digest, answer) ==
    answers' = [answers EXCEPT ![i][digest] = @ \union {answer}]

(* A repeated Command, over the remote connection n.  Content that differs *)
(* is refused with an error, which takes the pruning back with it.         *)
Repeats(n, i, digest) ==
    /\ AllPermits /\ authorize(n)
    /\ receipts[i].state /= "none"
    /\ LET answer == replay(i, prune_command_receipts[i], digest)
       IN  /\ receipts' = IF answer = "reused" THEN receipts ELSE prune_command_receipts
           /\ Answered(i, digest, answer)
    /\ Commits(Done(store))
    /\ UNCHANGED <<connections, now, faults, applied, guesses>>

(* Mutant: only what was applied is kept.                                  *)
insert_command_receipt_Successes(i, digest, outcome) ==
    IF outcome = "refused" THEN prune_command_receipts
    ELSE [prune_command_receipts EXCEPT ![i] =
            [state |-> "kept", digest |-> digest, outcome |-> outcome, at |-> now]]
(* Mutant: the receipt is stamped after its time.                          *)
insert_command_receipt_Late(i, digest, outcome) ==
    [prune_command_receipts EXCEPT ![i] =
        [state |-> "kept", digest |-> digest, outcome |-> outcome, at |-> now + 1]]
insert_command_receipt(i, digest, outcome) ==
    [prune_command_receipts EXCEPT ![i] =
        [state |-> "kept", digest |-> digest, outcome |-> outcome, at |-> now]]

(* A Command that is new here: it applies, or is refused by the state of   *)
(* what it names, and either is kept.                                      *)
execute_new(n, i, digest, outcome) ==
    /\ AllPermits /\ authorize(n)
    /\ receipts[i].state = "none"
    /\ receipts' = insert_command_receipt(i, digest, outcome)
    /\ applied' = IF outcome = "applied" THEN [applied EXCEPT ![i] = @ + 1] ELSE applied
    /\ Answered(i, digest, outcome)
    /\ Commits(Done(store))
    /\ UNCHANGED <<connections, now, faults, guesses>>

(* Its preparation or the store fails: nothing is kept, so nothing is      *)
(* answered for good.                                                      *)
Fails(n, i) ==
    /\ AllPermits /\ authorize(n)
    /\ receipts[i].state = "none"
    /\ faults < MaxFaults /\ faults' = faults + 1
    /\ UNCHANGED <<store, ledgered, receipts, connections, gate, now, history>>

(* invalidate, and the permits are returned.                               *)
invalidate ==
    /\ gate.invalidates /= NoClient
    /\ connections' = [n \in Connections |->
        IF Live(n) /\ connections[n].client = gate.invalidates
        THEN [connections[n] EXCEPT !.state = "closed"] ELSE connections[n]]
    /\ gate' = [gate EXCEPT !.invalidates = NoClient]
    /\ UNCHANGED <<store, ledgered, receipts, now, faults, history>>

-----------------------------------------------------------------------------
(* The daemon ends, at any point, and starts again: its connections are    *)
(* gone, and every client the Deletion ledger names is removed (reapply).  *)
Restart ==
    /\ faults < MaxFaults /\ faults' = faults + 1
    /\ store' = [store EXCEPT !.paired =
        [c \in Clients |-> IF c \in ledgered THEN Unpaired ELSE store.paired[c]]]
    /\ connections' = [n \in Connections |->
        IF connections[n] = NoConnection THEN NoConnection
        ELSE [connections[n] EXCEPT !.state = "closed"]]
    /\ gate' = FreeGate
    /\ UNCHANGED <<ledgered, receipts, now, history>>

Tick == now < MaxTime /\ now' = now + 1
        /\ UNCHANGED <<store, ledgered, receipts, connections, gate, faults, history>>

Init ==
    /\ store = NewStore /\ ledgered = {}
    /\ receipts = [i \in Commands |-> NoReceipt]
    /\ connections = [n \in Connections |-> NoConnection]
    /\ gate = FreeGate
    /\ now = 0 /\ faults = 0
    /\ applied = [i \in Commands |-> 0]
    /\ answers = [i \in Commands |-> [d \in Digests |-> {}]]
    /\ guesses = [o \in 0..MaxOffers |-> 0]

Next ==
    \/ \E result \in Results : Executes(result) \/ Abandons(result)
    \/ invalidate \/ Restart \/ Tick
    \/ \E n \in Connections :
        \/ register(n) \/ Disconnects(n)
        \/ \E c \in Clients : AuthenticateReads(n, c)
        \/ \E i \in Commands :
            \/ Fails(n, i)
            \/ \E d \in Digests :
                \/ Repeats(n, i, d)
                \/ \E outcome \in {"applied", "refused"} : execute_new(n, i, d, outcome)

Spec == Init /\ [][Next]_vars

-----------------------------------------------------------------------------
(* Properties.                                                             *)

TypeOK ==
    /\ store \in Stores /\ ledgered \subseteq Clients
    /\ receipts \in [Commands -> [state : {"none", "kept", "tombstone"}, digest : Digests \union {0},
                                  outcome : {"none", "applied", "refused"}, at : 0..now]]
    /\ connections \in [Connections ->
        [state : {"new", "verified", "refused", "live", "closed"},
         client : Clients \union {NoClient}, key : 0..MaxOffers]]
    /\ gate \in [authenticating : SUBSET Connections,
                 invalidates : Clients \union {NoClient}]
    /\ now \in 0..MaxTime /\ faults \in 0..MaxFaults

(* A connection has authority only while its client is enabled with the     *)
(* key it proved: whatever is revoked, disabled or paired again while the   *)
(* key is checked, no connection outlives the Command that took its         *)
(* authority, and none is registered after it (execute.rs:33, remote:24).   *)
LiveIsEnabled ==
    gate.invalidates = NoClient =>
        \A n \in Connections : Live(n) =>
            /\ store.paired[connections[n].client].access = "enabled"
            /\ store.paired[connections[n].client].key = connections[n].key

(* A Command is executed once under its identity, however late and often    *)
(* it is repeated and whatever was lost between (ADR-0093).                 *)
AtMostOnce == \A i \in Commands : applied[i] <= 1

(* Every retry of a Command, with the content it was first answered for,    *)
(* is answered as it was the first time, until its identity has expired     *)
(* (receipt.rs:1, ADR-0093).  Commands excludes OpenPairing, whose kept     *)
(* outcome leaves the secret out by design.                                 *)
OneAnswer ==
    \A i \in Commands, d \in Digests : Cardinality(answers[i][d] \ {"expired"}) <= 1

(* A key becomes that of an enabled client through an open gate, after a    *)
(* client other than the one it is for confirmed it (ADR-0017).             *)
PairedThroughOpenGate ==
    [][\A c \in Clients :
        store'.paired[c].key /= store.paired[c].key /\ store'.paired[c].key /= 0 =>
            /\ store.gate = "open"
            /\ store.offer.claimant = c /\ store.offer.confirmed_by \notin {NoClient, c}]_vars

(* No offer takes more wrong proofs than it allows, over its secret, its    *)
(* authentication string and its signature together (count_failure).        *)
GuessesBounded == \A o \in 0..MaxOffers : guesses[o] <= MaxAttempts
=============================================================================
