------------------------- MODULE PlaneTransfer_proofs -------------------------
(***************************************************************************)
(* Proofs about PlaneTransfer, for any Planes, transfers, turns and faults. *)
(* That authority is in one place, and nothing lost, needs clients which   *)
(* present no bundle to a Plane that has deleted the Conversation since it *)
(* imported it.                                                            *)
(***************************************************************************)
EXTENDS PlaneTransfer, FiniteSetTheorems, TLAPS

(* Epoch e was opened at p: at the origin, or by a fence that names p.     *)
Owner(p, e) ==
    \/ e = 1 /\ p = Origin
    \/ \E d \in documents : d.retired + 1 = e /\ d.target = p

(* It is the last one, since no fence retires it.                          *)
Tip(p, e) == Owner(p, e) /\ \A d \in documents : d.retired < e

Offers(p, t) == Recorded(p, t, "source") /\ transfers[p][t].phase = "prepared"

(* The fences are a chain: one for each epoch from the first, each given   *)
(* by the Plane the one before it names, and each in that Plane's ledger.  *)
Chain ==
    /\ \A d \in documents : Owner(d.source, d.retired) /\ d.retired \in fences[d.source]
    /\ \A d1, d2 \in documents : d1.retired = d2.retired => d1.target = d2.target
    /\ \A d \in documents : \A k \in 1..d.retired :
        \E before \in documents : before.retired = k

(* Only the owner of the last epoch is at Home or may give a fence.        *)
Claims ==
    /\ \A p \in Planes : Is(p, "home") => Tip(p, conversations[p].epoch)
    /\ \A p \in Planes, t \in Transfers : Offers(p, t) =>
        /\ Held(p) /\ transfers[p][t].retired = conversations[p].epoch
        /\ Tip(p, conversations[p].epoch)
    /\ \A p \in Planes, t, u \in Transfers : Offers(p, t) /\ Offers(p, u) => t = u

(* A Plane holds no epoch before one it has retired, is prepared only for  *)
(* one it has not, and a bundle that would take it back cannot be imported *)
(* while its tombstone stands.                                             *)
Forward ==
    /\ \A d \in documents : Held(d.source) =>
        /\ d.retired <= conversations[d.source].epoch
        /\ Is(d.source, "prepared") => d.retired < conversations[d.source].epoch
    /\ \A b \in bundles, d \in documents :
        d.source = b.target /\ d.retired > b.retired => Held(b.target)

(* An epoch in a ledger was opened before.                                 *)
Ledgers ==
    \A p \in Planes : \A e \in fences[p] :
        e = 1 \/ \E d \in documents : d.retired + 1 = e

AuthorityInv == TypeOK /\ Chain /\ Claims /\ Forward /\ Ledgers


-----------------------------------------------------------------------------
(* Types.                                                                  *)

LEMMA HeldRow ==
    ASSUME TypeOK, NEW p \in Planes, Held(p)
    PROVE  /\ conversations[p] \in Rows /\ conversations[p].epoch \in Nat
           /\ conversations[p].content \in Nat
BY DEF TypeOK, Held, Rows

LEMMA RecordedRow ==
    ASSUME TypeOK, NEW p \in Planes, NEW t \in Transfers, transfers[p][t] /= NoRow
    PROVE  /\ transfers[p][t] \in TransferRows /\ transfers[p][t].retired \in Nat
           /\ transfers[p][t].peer \in Planes /\ transfers[p][t].content \in Nat
BY DEF TypeOK, TransferRows

LEMMA NoPlanType ==
    NoPlan \in [transfer : Transfers \union {NoTransfer}, target : Planes,
                recorded : BOOLEAN, content : Nat]
BY TransferAssumption DEF NoPlan

LEMMA PlanType ==
    ASSUME TypeOK, NEW p \in Planes, NEW q \in Planes, NEW new \in plan(p, q)
    PROVE  /\ new \in [transfer : Transfers, target : Planes, recorded : BOOLEAN, content : Nat]
           /\ Is(p, "home") /\ Held(p)
<1>1. Is(p, "home") /\ Held(p) /\ new \in Continues(p, q) \union Begins(p, q)
      BY DEF plan, Is
<1>2. conversations[p].content \in Nat
      BY <1>1, HeldRow
<1>3. PICK t \in Transfers, recorded \in BOOLEAN :
        new = [transfer |-> t, target |-> q, recorded |-> recorded,
               content |-> conversations[p].content]
  <2>1. CASE new \in Continues(p, q)
    <3>1. PICK t \in open_plane_transfer(p) :
            new = [transfer |-> t, target |-> q, recorded |-> TRUE,
                   content |-> conversations[p].content]
          BY <2>1 DEF Continues
    <3>2. t \in Transfers
          BY DEF open_plane_transfer
    <3> QED BY <3>1, <3>2
  <2>2. CASE new \in Begins(p, q)
        BY <2>2 DEF Begins
  <2> QED BY <1>1, <2>1, <2>2
<1>4. new \in [transfer : Transfers, target : Planes, recorded : BOOLEAN, content : Nat]
      BY <1>2, <1>3
<1> QED BY <1>1, <1>4

(* Writing one row, or one Plane's transfers, keeps the types.             *)
LEMMA ChangesType ==
    ASSUME TypeOK, NEW p \in Planes, NEW row \in Rows \union {NoRow}, Changes(p, row)
    PROVE  conversations' \in [Planes -> {NoRow} \union Rows]
BY DEF TypeOK, Changes, Rows

LEMMA TransfersType ==
    ASSUME TypeOK, NEW p \in Planes, NEW t \in Transfers, NEW row \in TransferRows,
           transfers' = [transfers EXCEPT ![p] = [transfers[p] EXCEPT ![t] = row]]
    PROVE  transfers' \in [Planes -> [Transfers -> {NoRow} \union TransferRows]]
<1>1. transfers \in [Planes -> [Transfers -> {NoRow} \union TransferRows]]
      BY DEF TypeOK, TransferRows
<1> QED BY <1>1

LEMMA FencesType ==
    ASSUME TypeOK, NEW p \in Planes, NEW epoch \in Nat, Fences(p, epoch)
    PROVE  fences' \in [Planes -> SUBSET Nat]
<1>1. fences \in [Planes -> SUBSET Nat]
      BY DEF TypeOK
<1>2. fences[p] \union {epoch} \in SUBSET Nat
      BY <1>1
<1> QED BY <1>1, <1>2 DEF Fences

LEMMA InitType == Init => TypeOK
<1> SUFFICES ASSUME Init PROVE TypeOK
    OBVIOUS
<1>1. preparing \in [Planes -> [transfer : Transfers \union {NoTransfer}, target : Planes,
                                 recorded : BOOLEAN, content : Nat]]
      BY NoPlanType DEF Init
<1> QED BY <1>1, TransferAssumption DEF Init, TypeOK, NoTransfers, Rows, Authorities, Trash

(* The steps on the row alone.                                             *)
LEMMA RowStep ==
    ASSUME TypeOK, NEW p \in Planes,
           Admits(p) \/ Completes(p) \/ Withdrawn(p)
           \/ forget(p) \/ stage_if_unprotected(p) \/ restore(p)
    PROVE  /\ Held(p)
           /\ \E row \in Rows :
                /\ Changes(p, row) /\ row.epoch = conversations[p].epoch
                /\ row.authority = conversations[p].authority
<1>1. Held(p)
      BY DEF Admits, require_authoritative, Is, Completes, Withdrawn, forget,
             stage_if_unprotected, restore
<1>2. conversations[p] \in Rows
      BY <1>1, HeldRow
<1>3. CASE Admits(p)
  <2>1. [conversations[p] EXCEPT !.busy = TRUE] \in Rows
        BY <1>2 DEF Rows
  <2> QED BY <1>1, <1>2, <1>3, <2>1 DEF Admits, Rows
<1>4. CASE Completes(p)
  <2>1. conversations[p].content + 1 \in Nat
        BY <1>2 DEF Rows
  <2>2. [conversations[p] EXCEPT !.busy = FALSE, !.content = @ + 1] \in Rows
        BY <1>2, <2>1 DEF Rows
  <2> QED BY <1>1, <1>2, <1>4, <2>2 DEF Completes, Rows
<1>5. CASE Withdrawn(p)
  <2>1. [conversations[p] EXCEPT !.busy = FALSE] \in Rows
        BY <1>2 DEF Rows
  <2> QED BY <1>1, <1>2, <1>5, <2>1 DEF Withdrawn, Rows
<1>6. CASE forget(p) \/ stage_if_unprotected(p)
      BY <1>1, <1>2, <1>6 DEF forget, stage_if_unprotected, Rows, Trash
<1>7. CASE restore(p)
      BY <1>1, <1>2, <1>7 DEF restore, Rows, Trash
<1> QED BY <1>3, <1>4, <1>5, <1>6, <1>7

LEMMA RowStepType ==
    ASSUME TypeOK, NEW p \in Planes,
           Admits(p) \/ Completes(p) \/ Withdrawn(p)
           \/ forget(p) \/ stage_if_unprotected(p) \/ restore(p)
    PROVE  TypeOK'
<1>1. conversations' \in [Planes -> {NoRow} \union Rows]
      BY RowStep, ChangesType
<1>2. written' \in Nat /\ unseen' \in Nat
      BY DEF TypeOK, Admits, Completes, Withdrawn, forget,
             stage_if_unprotected, restore
<1>3. UNCHANGED <<transfers, ledgers, preparing, clients, faults>>
      BY DEF Admits, Completes, Withdrawn, forget,
             stage_if_unprotected, restore
<1> QED BY <1>1, <1>2, <1>3 DEF TypeOK, ledgers, clients

LEMMA DeletionType ==
    ASSUME TypeOK, NEW p \in Planes, TombstoneExpires(p) \/ Restart(p)
    PROVE  TypeOK'
<1>1. PICK row \in Rows \union {NoRow} : Changes(p, row)
  <2>1. CASE TombstoneExpires(p)
        BY <2>1 DEF TombstoneExpires
  <2>2. CASE Restart(p)
    <3>1. Reopened(p) \in Rows \union {NoRow}
          BY HeldRow DEF Reopened, Held, Rows, Authorities
    <3> QED BY <2>2, <3>1 DEF Restart
  <2> QED BY <2>1, <2>2
<1>2. conversations' \in [Planes -> {NoRow} \union Rows]
      BY <1>1, ChangesType
<1>3. transfers' \in [Planes -> [Transfers -> {NoRow} \union TransferRows]]
      BY DEF TombstoneExpires, Restart, TypeOK, NoTransfers, TransferRows
<1>4. preparing' \in [Planes -> [transfer : Transfers \union {NoTransfer}, target : Planes,
                                 recorded : BOOLEAN, content : Nat]]
      BY NoPlanType DEF TypeOK, TombstoneExpires, Restart
<1>5. bundles' \subseteq bundles /\ deleted' \subseteq Planes /\ UNCHANGED <<fences, documents, written, unseen>>
      BY DEF TypeOK, TombstoneExpires, Restart, StillHeld, ledgers
<1>6. faults' \in 0..MaxFaults
      BY TransferAssumption DEF TypeOK, TombstoneExpires, Restart, Fault
<1> QED BY <1>2, <1>3, <1>4, <1>5, <1>6 DEF TypeOK, Rows, TransferRows

LEMMA PrepareType ==
    ASSUME TypeOK, NEW p \in Planes,
           PrepareRecords(p) \/ PrepareFails(p) \/ \E q \in Planes : PrepareReads(p, q)
    PROVE  TypeOK'
<1>1. CASE PrepareFails(p)
      BY <1>1, NoPlanType DEF PrepareFails, TypeOK, stores, ledgers, clients
<1>2. CASE \E q \in Planes : PrepareReads(p, q)
  <2>1. PICK q \in Planes : PrepareReads(p, q)
        BY <1>2
  <2>2. PICK new \in plan(p, q) : preparing' = [preparing EXCEPT ![p] = new]
        BY <2>1 DEF PrepareReads
  <2>3. UNCHANGED <<stores, ledgers, clients, written, unseen, faults>>
        BY <2>1 DEF PrepareReads
  <2> QED BY <2>2, <2>3, PlanType DEF TypeOK, stores, ledgers, clients
<1>3. CASE PrepareRecords(p)
  <2> DEFINE mine == preparing[p]
  <2>1. PICK now \in plan(p, mine.target) : now.transfer = mine.transfer
        BY <1>3 DEF PrepareRecords
  <2>2. mine.target \in Planes /\ mine.content \in Nat
        BY DEF TypeOK
  <2>3. mine.transfer \in Transfers /\ Held(p)
        BY <2>1, <2>2, PlanType
  <2>4. conversations[p].epoch \in Nat
        BY <2>3, HeldRow
  <2>5. transfers' \in [Planes -> [Transfers -> {NoRow} \union TransferRows]]
    <3> DEFINE row == [role |-> "source", phase |-> "prepared", peer |-> mine.target,
                       retired |-> conversations[p].epoch, content |-> mine.content]
    <3>1. row \in TransferRows
          BY <2>2, <2>4 DEF TransferRows
    <3>2. transfers' = transfers \/ transfers' = [transfers EXCEPT ![p][mine.transfer] = row]
          BY <1>3 DEF PrepareRecords
    <3> HIDE DEF row
    <3> QED BY <2>3, <3>1, <3>2, TransfersType DEF TypeOK, TransferRows
  <2>6. bundles' \subseteq [transfer : Transfers, source : Planes, target : Planes,
                          retired : Nat, content : Nat]
        BY <1>3, <2>2, <2>3, <2>4 DEF PrepareRecords, TypeOK
  <2>7. /\ UNCHANGED <<conversations, ledgers, documents, written, unseen, faults>>
        /\ preparing' = [preparing EXCEPT ![p] = NoPlan]
        BY <1>3 DEF PrepareRecords
  <2> QED BY <2>5, <2>6, <2>7, NoPlanType DEF TypeOK, TransferRows, ledgers
<1> QED BY <1>1, <1>2, <1>3

LEMMA SettleType ==
    ASSUME TypeOK, NEW b \in bundles,
           import(b) \/ relinquish(b) \/ RelinquishFails(b) \/ \E d \in documents : commit(b, d)
    PROVE  TypeOK'
<1>1. /\ b.transfer \in Transfers /\ b.source \in Planes /\ b.target \in Planes
      /\ b.retired \in Nat /\ b.content \in Nat
      BY DEF TypeOK
<1>2. CASE import(b)
  <2>1. [authority |-> "prepared", epoch |-> b.retired + 1,
         content |-> b.content, busy |-> FALSE, trash |-> "none"] \in Rows
        BY <1>1 DEF Rows, Authorities, Trash
  <2>2. conversations' \in [Planes -> {NoRow} \union Rows]
        BY <1>1, <1>2, <2>1, ChangesType DEF import
  <2>3. transfers' \in [Planes -> [Transfers -> {NoRow} \union TransferRows]]
        BY <1>1, <1>2 DEF import, TypeOK, NoTransfers, TransferRows
  <2>4. UNCHANGED <<ledgers, preparing, clients, written, unseen, faults>>
        BY <1>2 DEF import
  <2> QED BY <2>2, <2>3, <2>4 DEF TypeOK, Rows, TransferRows, ledgers, clients
<1>3. CASE relinquish(b) \/ RelinquishFails(b)
  <2>1. /\ transfers[b.source][b.transfer] /= NoRow /\ Held(b.source)
        BY <1>3 DEF relinquish, RelinquishFails, Relinquishable, Presents, Recorded
  <2>2. /\ transfers[b.source][b.transfer] \in TransferRows /\ conversations[b.source] \in Rows
        /\ transfers[b.source][b.transfer].retired \in Nat
        /\ transfers[b.source][b.transfer].peer \in Planes
        BY <1>1, <2>1, HeldRow, RecordedRow
  <2>3. fences' \in [Planes -> SUBSET Nat]
        BY <1>1, <1>3, <2>2, FencesType DEF relinquish, RelinquishFails
  <2>4. CASE relinquish(b)
    <3>1. Tombstone(conversations[b.source], transfers[b.source][b.transfer].retired) \in Rows
          BY <2>2 DEF Tombstone, Rows, Authorities, Trash
    <3>2. conversations' \in [Planes -> {NoRow} \union Rows]
          BY <1>1, <2>4, <3>1, ChangesType DEF relinquish
    <3>3. transfers' \in [Planes -> [Transfers -> {NoRow} \union TransferRows]]
      <4>1. [transfers[b.source][b.transfer] EXCEPT !.phase = "relinquished"] \in TransferRows
            BY <2>2 DEF TransferRows
      <4>2. transfers' = [transfers EXCEPT ![b.source] = [@ EXCEPT ![b.transfer] =
                [transfers[b.source][b.transfer] EXCEPT !.phase = "relinquished"]]]
            BY <1>1, <2>4 DEF relinquish, TypeOK
      <4> QED BY <1>1, <4>1, <4>2, TransfersType
    <3>4. documents' \subseteq [transfer : Transfers, source : Planes, target : Planes,
                                retired : Nat]
      <4>1. documents' = documents \union {fence(b.source, b.transfer)}
            BY <2>4 DEF relinquish
      <4>2. fence(b.source, b.transfer) \in
                [transfer : Transfers, source : Planes, target : Planes, retired : Nat]
            BY <1>1, <2>2 DEF fence
      <4> QED BY <4>1, <4>2 DEF TypeOK
    <3>5. UNCHANGED <<deleted, preparing, bundles, written, unseen, faults>>
          BY <2>4 DEF relinquish
    <3> QED BY <2>3, <3>2, <3>3, <3>4, <3>5 DEF TypeOK, Rows, TransferRows
  <2>5. CASE RelinquishFails(b)
    <3>1. UNCHANGED <<stores, deleted, preparing, clients, written, unseen>> /\ faults' \in 0..MaxFaults
          BY <2>5, TransferAssumption DEF RelinquishFails, Fault, TypeOK
    <3> QED BY <2>3, <3>1 DEF TypeOK, stores, clients
  <2> QED BY <1>3, <2>4, <2>5
<1>4. CASE \E d \in documents : commit(b, d)
  <2>1. /\ Recorded(b.target, b.transfer, "target") /\ Is(b.target, "prepared")
        /\ Changes(b.target, [conversations[b.target] EXCEPT !.authority = "home"])
        /\ transfers' = [transfers EXCEPT ![b.target][b.transfer].phase = "committed"]
        /\ UNCHANGED <<ledgers, preparing, clients, written, unseen, faults>>
        BY <1>4 DEF commit, Presents
  <2>2. /\ transfers[b.target][b.transfer] \in TransferRows /\ conversations[b.target] \in Rows
        BY <1>1, <2>1, HeldRow, RecordedRow DEF Recorded, Is
  <2>3. [conversations[b.target] EXCEPT !.authority = "home"] \in Rows
        BY <2>2 DEF Rows, Authorities
  <2>4. conversations' \in [Planes -> {NoRow} \union Rows]
        BY <1>1, <2>1, <2>3, ChangesType
  <2>5. transfers' \in [Planes -> [Transfers -> {NoRow} \union TransferRows]]
        BY <1>1, <2>1, <2>2 DEF TypeOK, TransferRows
  <2> QED BY <2>1, <2>4, <2>5 DEF TypeOK, Rows, TransferRows, ledgers, clients
<1> QED BY <1>2, <1>3, <1>4

LEMMA AbortType ==
    ASSUME TypeOK, NEW p \in Planes, NEW t \in Transfers, abort(p, t)
    PROVE  TypeOK'
BY DEF abort, TypeOK, ledgers, clients

LEMMA TypeStep ==
    ASSUME TypeOK, [Next]_vars
    PROVE  TypeOK'
<1>1. CASE UNCHANGED vars
      BY <1>1 DEF vars, TypeOK
<1>2. ASSUME NEW p \in Planes,
             \/ Admits(p) \/ Completes(p) \/ Withdrawn(p)
             \/ forget(p) \/ stage_if_unprotected(p) \/ restore(p) \/ TombstoneExpires(p)
             \/ PrepareRecords(p) \/ PrepareFails(p) \/ Restart(p)
             \/ \E q \in Planes : PrepareReads(p, q)
             \/ \E t \in Transfers : abort(p, t)
      PROVE  TypeOK'
      BY <1>2, RowStepType, DeletionType, PrepareType, AbortType
<1>3. ASSUME NEW b \in bundles,
             import(b) \/ relinquish(b) \/ RelinquishFails(b) \/ \E d \in documents : commit(b, d)
      PROVE  TypeOK'
      BY <1>3, SettleType
<1> QED BY <1>1, <1>2, <1>3 DEF Next

(* Every row, transfer, fence and document is well formed.                 *)
THEOREM TypeCorrect == Spec => []TypeOK
BY InitType, TypeStep, PTL DEF Spec


-----------------------------------------------------------------------------
(* Authority.                                                              *)

LEMMA DocumentType ==
    ASSUME TypeOK, NEW d \in documents
    PROVE  d.source \in Planes /\ d.target \in Planes /\ d.retired \in Nat
BY DEF TypeOK

LEMMA BundleType ==
    ASSUME TypeOK, NEW b \in bundles
    PROVE  /\ b.source \in Planes /\ b.target \in Planes /\ b.transfer \in Transfers
           /\ b.retired \in Nat
BY DEF TypeOK

(* The last epoch has one owner.                                           *)
LEMMA OneTip ==
    ASSUME TypeOK, Chain, NEW p, NEW q, NEW e \in Nat, NEW f \in Nat, Tip(p, e), Tip(q, f)
    PROVE  e = f /\ p = q
<1>1. \A d \in documents : d.retired \in Nat /\ d.retired >= 1
  <2> TAKE d \in documents
  <2>1. d.retired \in Nat /\ Owner(d.source, d.retired)
        BY DocumentType DEF Chain
  <2>2. CASE d.retired = 1
        BY <2>2
  <2>3. CASE \E c \in documents : c.retired + 1 = d.retired
        BY <2>1, <2>3, DocumentType
  <2> QED BY <2>1, <2>2, <2>3 DEF Owner
<1>2. e = f
      BY <1>1 DEF Tip, Owner
<1>3. CASE e = 1
      BY <1>1, <1>2, <1>3 DEF Tip, Owner
<1>4. CASE e /= 1
  <2>1. PICK c \in documents : c.retired + 1 = e /\ c.target = p
        BY <1>4 DEF Tip, Owner
  <2>2. PICK d \in documents : d.retired + 1 = f /\ d.target = q
        BY <1>2, <1>4 DEF Tip, Owner
  <2>3. c.retired = d.retired
        BY <1>1, <1>2, <2>1, <2>2
  <2> QED BY <1>2, <2>1, <2>2, <2>3 DEF Chain
<1> QED BY <1>3, <1>4

(* A step that gives no fence, opens no epoch and makes no offer.          *)
LEMMA QuietStep ==
    ASSUME AuthorityInv, TypeOK', UNCHANGED <<documents, fences>>,
           \A p \in Planes : Held(p)' =>
               /\ Held(p) /\ conversations'[p].epoch = conversations[p].epoch
               /\ conversations'[p].authority \in {conversations[p].authority, "relinquished"},
           \A p \in Planes, t \in Transfers : Offers(p, t)' =>
               Offers(p, t) /\ transfers'[p][t].retired = transfers[p][t].retired /\ Held(p)',
           \A b \in bundles' : b \in bundles /\ (Held(b.target) => Held(b.target)')
    PROVE  AuthorityInv'
<1>1. \A p, e : Owner(p, e)' <=> Owner(p, e)
      BY DEF Owner
<1>2. \A p, e : Tip(p, e)' <=> Tip(p, e)
      BY <1>1 DEF Tip
<1>3. Chain'
      BY <1>1 DEF AuthorityInv, Chain
<1>4. Claims'
      BY <1>2 DEF AuthorityInv, Claims, Is
<1>5. Forward'
  <2>1. ASSUME NEW d \in documents, Held(d.source)'
        PROVE  /\ d.retired <= conversations'[d.source].epoch
               /\ Is(d.source, "prepared")' => d.retired < conversations'[d.source].epoch
        BY <2>1, DocumentType DEF AuthorityInv, Forward, Is
  <2>2. ASSUME NEW b \in bundles', NEW d \in documents,
               d.source = b.target, d.retired > b.retired
        PROVE  Held(b.target)'
        BY <2>2 DEF AuthorityInv, Forward
  <2> QED BY <2>1, <2>2 DEF Forward
<1>6. Ledgers'
      BY DEF AuthorityInv, Ledgers
<1> QED BY <1>3, <1>4, <1>5, <1>6 DEF AuthorityInv

(* Work, Jet Trash and a prepare that records nothing.                     *)
LEMMA WorkKeeps ==
    ASSUME AuthorityInv, NEW p \in Planes,
           \/ Admits(p) \/ Completes(p) \/ Withdrawn(p)
           \/ forget(p) \/ stage_if_unprotected(p) \/ restore(p)
           \/ PrepareFails(p) \/ \E q \in Planes : PrepareReads(p, q)
    PROVE  AuthorityInv'
<1>1. TypeOK /\ TypeOK'
      BY RowStepType, PrepareType DEF AuthorityInv
<1>2. UNCHANGED <<documents, fences, transfers, bundles>>
      BY DEF Admits, Completes, Withdrawn, forget,
             stage_if_unprotected, restore, PrepareFails, PrepareReads,
             stores, ledgers, clients
<1>3. ASSUME NEW q \in Planes
      PROVE  /\ Held(q)' <=> Held(q)
             /\ Held(q)' => /\ conversations'[q].epoch = conversations[q].epoch
                            /\ conversations'[q].authority = conversations[q].authority
  <2>1. CASE UNCHANGED conversations
        BY <2>1 DEF Held
  <2>2. CASE Admits(p) \/ Completes(p) \/ Withdrawn(p)
           \/ forget(p) \/ stage_if_unprotected(p) \/ restore(p)
    <3>1. Held(p)
          BY <2>2 DEF Admits, require_authoritative, Is, Completes, Withdrawn, forget,
             stage_if_unprotected, restore
    <3>2. conversations[p] \in Rows
          BY <1>1, <3>1, HeldRow
    <3>3. PICK row \in Rows :
                     /\ Changes(p, row) /\ row.epoch = conversations[p].epoch
                     /\ row.authority = conversations[p].authority
          BY <2>2, <1>1, <3>1, RowStep
    <3>4. conversations' = [conversations EXCEPT ![p] = row]
          BY <3>3 DEF Changes
    <3>5. q /= p => conversations'[q] = conversations[q]
          BY <1>1, <3>4 DEF TypeOK
    <3>6. conversations'[p] = row
          BY <1>1, <3>4 DEF TypeOK
    <3>7. row /= NoRow
          BY TransferAssumption
    <3> QED BY <3>1, <3>3, <3>5, <3>6, <3>7 DEF Held
  <2> QED BY <2>1, <2>2 DEF PrepareFails, PrepareReads, stores
<1>4. \A q \in Planes, t \in Transfers : Offers(q, t)' =>
        Offers(q, t) /\ transfers'[q][t].retired = transfers[q][t].retired /\ Held(q)'
      BY <1>2, <1>3 DEF AuthorityInv, Claims, Offers, Recorded
<1>5. \A b \in bundles' : b \in bundles /\ (Held(b.target) => Held(b.target)')
      BY <1>1, <1>2, <1>3, BundleType
<1> QED BY <1>1, <1>2, <1>3, <1>4, <1>5, QuietStep


(* A row that goes takes its transfers with it, and the bundles for it are *)
(* not presented again; a fence in the ledger retires a Home at a start.   *)
LEMMA DeletionKeeps ==
    ASSUME LateBundles = FALSE, AuthorityInv, NEW p \in Planes,
           TombstoneExpires(p) \/ Restart(p)
    PROVE  AuthorityInv'
<1>1. TypeOK /\ TypeOK'
      BY DeletionType DEF AuthorityInv
<1>2. UNCHANGED <<documents, fences>>
      BY DEF TombstoneExpires, Restart, ledgers
<1>3. \A q \in Planes : q /= p => conversations'[q] = conversations[q] /\ transfers'[q] = transfers[q]
      BY <1>1 DEF TombstoneExpires, Restart, Changes, TypeOK
<1>4. CASE Held(p)' /\ transfers' = transfers /\ bundles' = bundles
  <2>1. Restart(p) /\ conversations'[p] = Reopened(p) /\ Reopened(p) /= NoRow
        BY <1>1, <1>4 DEF TombstoneExpires, Restart, Changes, TypeOK, Held
  <2>2. /\ Held(p) /\ conversations'[p].epoch = conversations[p].epoch
        /\ conversations'[p].authority \in {conversations[p].authority, "relinquished"}
        BY <1>1, <2>1, HeldRow DEF Reopened, Held, Rows
  <2>3. \A q \in Planes : Held(q)' <=> Held(q)
        BY <1>3, <1>4, <2>2 DEF Held
  <2>4. \A q \in Planes : Held(q)' =>
           /\ Held(q) /\ conversations'[q].epoch = conversations[q].epoch
           /\ conversations'[q].authority \in {conversations[q].authority, "relinquished"}
        BY <1>3, <2>2, <2>3
  <2>5. \A q \in Planes, t \in Transfers : Offers(q, t)' =>
           Offers(q, t) /\ transfers'[q][t].retired = transfers[q][t].retired /\ Held(q)'
        BY <1>4, <2>3 DEF AuthorityInv, Claims, Offers, Recorded
  <2>6. \A b \in bundles' : b \in bundles /\ (Held(b.target) => Held(b.target)')
        BY <1>1, <1>4, <2>3, BundleType
  <2> QED BY <1>1, <1>2, <2>4, <2>5, <2>6, QuietStep
<1> DEFINE Gone ==
        /\ ~Held(p)'
        /\ transfers'[p] = NoTransfers \/ (transfers' = transfers /\ ~Held(p))
        /\ bundles' = {b \in bundles : b.target /= p} \/ (bundles' = bundles /\ ~Held(p))
<1>5. CASE Gone
  <2>1. \A q \in Planes : Held(q)' =>
           /\ Held(q) /\ conversations'[q].epoch = conversations[q].epoch
           /\ conversations'[q].authority \in {conversations[q].authority, "relinquished"}
        BY <1>3, <1>5 DEF Held
  <2>2. ASSUME NEW q \in Planes, NEW t \in Transfers, Offers(q, t)'
        PROVE  Offers(q, t) /\ transfers'[q][t].retired = transfers[q][t].retired /\ Held(q)'
    <3>1. CASE q /= p
          BY <1>3, <2>2, <3>1 DEF AuthorityInv, Claims, Offers, Recorded, Held
    <3>2. CASE q = p
          BY <1>5, <2>2, <3>2 DEF AuthorityInv, Claims, Offers, Recorded, NoTransfers
    <3> QED BY <3>1, <3>2
  <2>3. \A b \in bundles' : b \in bundles /\ (Held(b.target) => Held(b.target)')
        BY <1>1, <1>3, <1>5, BundleType DEF Held
  <2> QED BY <1>1, <1>2, <2>1, <2>2, <2>3, QuietStep
<1>6. CASE TombstoneExpires(p) \/ (Restart(p) /\ p \in deleted)
  <2>1. Changes(p, NoRow)
        BY <1>6 DEF TombstoneExpires, Restart, Reopened
  <2>2. ~Held(p)'
        BY <1>1, <2>1 DEF Changes, TypeOK, Held
  <2>3. transfers' = [transfers EXCEPT ![p] = NoTransfers]
        BY <1>6 DEF TombstoneExpires, Restart
  <2>4. transfers'[p] = NoTransfers
        BY <1>1, <2>3 DEF TypeOK
  <2>5. bundles' = {b \in bundles : b.target /= p}
        BY <1>6 DEF TombstoneExpires, Restart, StillHeld
  <2>6. Gone
        BY <2>2, <2>4, <2>5
  <2> HIDE DEF Gone
  <2> QED BY <1>5, <2>6
<1>7. CASE Restart(p) /\ p \notin deleted
  <2>1. transfers' = transfers /\ bundles' = bundles /\ conversations'[p] = Reopened(p)
        BY <1>1, <1>7 DEF Restart, Changes, TypeOK
  <2>2. CASE Held(p)
    <3>1. conversations[p] \in Rows
          BY <1>1, <2>2, HeldRow
    <3>2. Reopened(p) \in Rows
          BY <1>7, <2>2, <3>1 DEF Reopened, Held, Rows, Authorities
    <3> QED BY <1>4, <2>1, <3>2, TransferAssumption DEF Held
  <2>3. CASE ~Held(p)
    <3>1. ~Held(p)'
          BY <2>1, <2>3 DEF Reopened, Held
    <3>2. Gone
          BY <2>1, <2>3, <3>1
    <3> HIDE DEF Gone
    <3> QED BY <1>5, <3>2
  <2> QED BY <2>2, <2>3
<1>8. p \in deleted \/ p \notin deleted
      OBVIOUS
<1> QED BY <1>6, <1>7, <1>8

LEMMA AbortKeeps ==
    ASSUME AuthorityInv, NEW p \in Planes, NEW t \in Transfers, abort(p, t)
    PROVE  AuthorityInv'
<1>1. TypeOK /\ TypeOK'
      BY AbortType DEF AuthorityInv
<1>2. UNCHANGED <<documents, fences, conversations, bundles>>
      BY DEF abort, ledgers, clients
<1>3. ASSUME NEW q \in Planes, NEW u \in Transfers
      PROVE  transfers'[q][u] = transfers[q][u] \/ transfers'[q][u] = NoRow
      BY <1>1 DEF abort, TypeOK
<1>4. \A q \in Planes, u \in Transfers : Offers(q, u)' =>
        Offers(q, u) /\ transfers'[q][u].retired = transfers[q][u].retired /\ Held(q)'
      BY <1>2, <1>3 DEF AuthorityInv, Claims, Offers, Recorded, Held
<1>5. \A q \in Planes : Held(q)' =>
        /\ Held(q) /\ conversations'[q].epoch = conversations[q].epoch
        /\ conversations'[q].authority \in {conversations[q].authority, "relinquished"}
      BY <1>2 DEF Held
<1>6. \A b \in bundles' : b \in bundles /\ (Held(b.target) => Held(b.target)')
      BY <1>2 DEF Held
<1> QED BY <1>1, <1>2, <1>4, <1>5, <1>6, QuietStep

(* An offer is made by the Home, in the last epoch, and while it has no    *)
(* other.                                                                  *)
LEMMA PrepareKeeps ==
    ASSUME AuthorityInv, NEW p \in Planes, PrepareRecords(p)
    PROVE  AuthorityInv'
<1> DEFINE mine == preparing[p]
           row == [role |-> "source", phase |-> "prepared", peer |-> mine.target,
                   retired |-> conversations[p].epoch, content |-> mine.content]
<1>1. TypeOK /\ TypeOK'
      BY PrepareType DEF AuthorityInv
<1>2. UNCHANGED <<documents, fences, conversations>>
      BY DEF PrepareRecords, ledgers
<1>3. PICK now \in plan(p, mine.target) :
        now.transfer = mine.transfer /\ now.recorded = mine.recorded
      BY DEF PrepareRecords
<1>4. mine.transfer \in Transfers /\ Held(p) /\ Is(p, "home")
      BY <1>1, <1>3, PlanType DEF TypeOK
<1>5. Tip(p, conversations[p].epoch) /\ conversations[p].epoch \in Nat
      BY <1>1, <1>4, HeldRow DEF AuthorityInv, Claims
<1>6. \A q, e : (Owner(q, e)' <=> Owner(q, e)) /\ (Tip(q, e)' <=> Tip(q, e))
      BY <1>2 DEF Owner, Tip
<1>7. \A q \in Planes : (Held(q)' <=> Held(q)) /\ (Is(q, "home")' <=> Is(q, "home"))
                        /\ (Is(q, "prepared")' <=> Is(q, "prepared"))
      BY <1>2 DEF Held, Is
<1>8. Chain'
      BY <1>2, <1>6 DEF AuthorityInv, Chain
<1>9. Claims'
  <2>1. CASE transfers' = transfers
        BY <1>2, <1>6, <1>7, <2>1 DEF AuthorityInv, Claims, Offers, Recorded
  <2>2. CASE transfers' /= transfers
    <3>1. ~mine.recorded /\ transfers' = [transfers EXCEPT ![p][mine.transfer] = row]
          BY <2>2 DEF PrepareRecords
    <3>2. now \in Begins(p, mine.target)
      <4>1. now \in Continues(p, mine.target) => now.recorded = TRUE
            BY DEF Continues
      <4> QED BY <1>3, <3>1, <4>1 DEF plan
    <3>3. open_plane_transfer(p) = {}
          BY <3>2 DEF Begins
    <3>4. \A t \in Transfers : ~Offers(p, t)
          BY <3>3 DEF Offers, Recorded, open_plane_transfer
    <3>5. ASSUME NEW q \in Planes, NEW t \in Transfers
          PROVE  /\ q = p /\ t = mine.transfer => transfers'[q][t] = row
                 /\ ~(q = p /\ t = mine.transfer) => transfers'[q][t] = transfers[q][t]
          BY <1>1, <1>4, <3>1 DEF TypeOK
    <3>6. ASSUME NEW q \in Planes, NEW t \in Transfers, Offers(q, t)'
          PROVE  \/ q = p /\ t = mine.transfer /\ transfers'[q][t].retired = conversations[p].epoch
                 \/ q /= p /\ Offers(q, t) /\ transfers'[q][t] = transfers[q][t]
          BY <3>4, <3>5, <3>6 DEF Offers, Recorded
    <3> QED BY <1>2, <1>4, <1>5, <1>6, <1>7, <3>6 DEF AuthorityInv, Claims
  <2> QED BY <2>1, <2>2
<1>10. Forward'
  <2>1. ASSUME NEW b \in bundles', NEW d \in documents,
               d.source = b.target, d.retired > b.retired
        PROVE  Held(b.target)'
    <3>1. CASE b \in bundles
          BY <1>1, <1>7, <2>1, <3>1, BundleType DEF AuthorityInv, Forward
    <3>2. CASE b \notin bundles
      <4>1. b.retired = conversations[p].epoch
            BY <3>2 DEF PrepareRecords
      <4> QED BY <1>1, <1>5, <2>1, <4>1, DocumentType DEF Tip
    <3> QED BY <3>1, <3>2
  <2>2. ASSUME NEW d \in documents, Held(d.source)'
        PROVE  /\ d.retired <= conversations'[d.source].epoch
               /\ Is(d.source, "prepared")' => d.retired < conversations'[d.source].epoch
        BY <1>1, <1>2, <1>7, <2>2, DocumentType DEF AuthorityInv, Forward
  <2> QED BY <1>2, <2>1, <2>2 DEF Forward
<1>11. Ledgers'
       BY <1>2 DEF AuthorityInv, Ledgers
<1> QED BY <1>1, <1>8, <1>9, <1>10, <1>11 DEF AuthorityInv


(* An import moves its Plane forward: what the Plane holds is older, and   *)
(* if it holds nothing, it has retired nothing the bundle would give back. *)
LEMMA ImportKeeps ==
    ASSUME AuthorityInv, NEW b \in bundles, import(b)
    PROVE  AuthorityInv'
<1> DEFINE q == b.target
<1>1. TypeOK /\ TypeOK'
      BY SettleType DEF AuthorityInv
<1>2. UNCHANGED <<documents, fences, bundles>>
      BY DEF import, ledgers, clients
<1>3. q \in Planes /\ b.transfer \in Transfers /\ b.retired \in Nat
      BY <1>1, BundleType
<1>4. /\ Held(q)' /\ Is(q, "prepared")' /\ ~Is(q, "home")'
      /\ conversations'[q].epoch = b.retired + 1
  <2> DEFINE new == [authority |-> "prepared", epoch |-> b.retired + 1,
                     content |-> b.content, busy |-> FALSE, trash |-> "none"]
  <2>1. conversations'[q] = new
        BY <1>1, <1>3 DEF import, Changes, TypeOK
  <2>2. new \in Rows
        BY <1>1 DEF TypeOK, Rows, Authorities, Trash
  <2>3. conversations'[q] /= NoRow
        BY <2>1, <2>2, TransferAssumption
  <2> QED BY <2>1, <2>3 DEF Held, Is
<1>5. \A p \in Planes : p /= q =>
        conversations'[p] = conversations[p] /\ transfers'[p] = transfers[p]
      BY <1>1, <1>3 DEF import, Changes, TypeOK
<1>6. \A t \in Transfers : ~Offers(q, t)'
  <2> TAKE t \in Transfers
  <2>1. transfers'[q] = [NoTransfers EXCEPT ![b.transfer] =
            [role |-> "target", phase |-> "prepared", peer |-> b.source,
             retired |-> b.retired, content |-> b.content]]
        BY <1>1, <1>3 DEF import, TypeOK
  <2>2. transfers'[q][t] = NoRow \/ transfers'[q][t].role = "target"
        BY <1>3, <2>1 DEF NoTransfers
  <2> QED BY <2>2 DEF Offers, Recorded
<1>7. \A p, e : (Owner(p, e)' <=> Owner(p, e)) /\ (Tip(p, e)' <=> Tip(p, e))
      BY <1>2 DEF Owner, Tip
<1>8. Chain'
      BY <1>2, <1>7 DEF AuthorityInv, Chain
<1>9. Claims'
  <2>1. \A p \in Planes : Is(p, "home")' => p /= q /\ Is(p, "home")
        BY <1>4, <1>5 DEF Is, Held
  <2>2. \A p \in Planes, t \in Transfers : Offers(p, t)' => p /= q /\ Offers(p, t)
        BY <1>5, <1>6 DEF Offers, Recorded
  <2>3. \A p \in Planes : p /= q => (Held(p)' <=> Held(p))
        BY <1>5 DEF Held
  <2> QED BY <1>5, <1>7, <2>1, <2>2, <2>3 DEF AuthorityInv, Claims
<1>10. Forward'
  <2>1. ASSUME NEW d \in documents, Held(d.source)'
        PROVE  /\ d.retired <= conversations'[d.source].epoch
               /\ Is(d.source, "prepared")' => d.retired < conversations'[d.source].epoch
    <3>1. CASE d.source /= q
          BY <1>1, <1>5, <2>1, <3>1, DocumentType DEF AuthorityInv, Forward, Held, Is
    <3>2. CASE d.source = q
      <4>1. d.retired \in Nat
            BY <1>1, DocumentType
      <4>2. d.retired < b.retired + 1
        <5>1. CASE Held(q)
          <6>1. /\ conversations[q].epoch < b.retired + 1 /\ conversations[q].epoch \in Nat
                /\ d.retired <= conversations[q].epoch
                BY <1>1, <1>3, <3>2, <5>1, HeldRow DEF import, AuthorityInv, Forward
          <6> QED BY <1>3, <4>1, <6>1
        <5>2. CASE ~Held(q)
              BY <1>3, <3>2, <4>1, <5>2 DEF AuthorityInv, Forward
        <5> QED BY <5>1, <5>2
      <4> QED BY <1>3, <1>4, <3>2, <4>1, <4>2
    <3> QED BY <3>1, <3>2
  <2>2. \A p \in Planes : Held(p) => Held(p)'
        BY <1>4, <1>5 DEF Held
  <2>3. ASSUME NEW c \in bundles, NEW d \in documents,
               d.source = c.target, d.retired > c.retired
        PROVE  Held(c.target)'
        BY <1>1, <2>2, <2>3, BundleType DEF AuthorityInv, Forward
  <2> QED BY <1>2, <2>1, <2>3 DEF Forward
<1>11. Ledgers'
       BY <1>2 DEF AuthorityInv, Ledgers
<1> QED BY <1>1, <1>8, <1>9, <1>10, <1>11 DEF AuthorityInv

(* What is known of an offer that can be relinquished.                     *)
LEMMA RelinquishableOffer ==
    ASSUME AuthorityInv, NEW b \in bundles, Relinquishable(b.source, b)
    PROVE  /\ b.source \in Planes /\ b.transfer \in Transfers
           /\ Offers(b.source, b.transfer) /\ Held(b.source)
           /\ conversations[b.source].epoch \in Nat
           /\ conversations[b.source] \in Rows
           /\ transfers[b.source][b.transfer] \in TransferRows
           /\ transfers[b.source][b.transfer].retired = conversations[b.source].epoch
           /\ Tip(b.source, conversations[b.source].epoch)
<1>1. b.source \in Planes /\ b.transfer \in Transfers
      BY BundleType DEF AuthorityInv
<1>2. Offers(b.source, b.transfer) /\ Held(b.source)
      BY DEF Relinquishable, Presents, Offers
<1>3. /\ conversations[b.source].epoch \in Nat /\ conversations[b.source] \in Rows
      /\ transfers[b.source][b.transfer] \in TransferRows
      BY <1>1, <1>2, HeldRow, RecordedRow DEF AuthorityInv, Offers, Recorded
<1> QED BY <1>1, <1>2, <1>3 DEF AuthorityInv, Claims

(* The fence is durable and the transaction is not.                        *)
LEMMA RelinquishFailsKeeps ==
    ASSUME AuthorityInv, NEW b \in bundles, RelinquishFails(b)
    PROVE  AuthorityInv'
<1> DEFINE p == b.source
           e == conversations[p].epoch
<1>1. TypeOK /\ TypeOK'
      BY SettleType DEF AuthorityInv
<1>2. UNCHANGED <<conversations, transfers, documents, bundles>>
      BY DEF RelinquishFails, stores, clients
<1>3. p \in Planes /\ Fences(p, e) /\ Tip(p, e)
      BY RelinquishableOffer DEF RelinquishFails
<1>4. \A q \in Planes : fences[q] \subseteq fences'[q] /\ fences'[q] \subseteq fences[q] \union {e}
      BY <1>1, <1>3 DEF Fences, TypeOK
<1>5. \A q, f : (Owner(q, f)' <=> Owner(q, f)) /\ (Tip(q, f)' <=> Tip(q, f))
      BY <1>2 DEF Owner, Tip
<1>6. Chain'
      BY <1>1, <1>2, <1>4, <1>5, DocumentType DEF AuthorityInv, Chain
<1>7. Claims'
      BY <1>2, <1>5 DEF AuthorityInv, Claims, Offers, Recorded, Held, Is
<1>8. Forward'
      BY <1>2 DEF AuthorityInv, Forward, Held, Is
<1>9. Ledgers'
      BY <1>2, <1>3, <1>4 DEF AuthorityInv, Ledgers, Tip, Owner
<1> QED BY <1>1, <1>6, <1>7, <1>8, <1>9 DEF AuthorityInv


(* The fence is given: the chain grows by the epoch of its last owner.     *)
LEMMA RelinquishKeeps ==
    ASSUME AuthorityInv, NEW b \in bundles, relinquish(b)
    PROVE  AuthorityInv'
<1> DEFINE p == b.source
           t == b.transfer
           e == conversations[p].epoch
           new == fence(p, t)
<1>1. TypeOK /\ TypeOK' /\ Chain
      BY SettleType DEF AuthorityInv
<1>2. Relinquishable(p, b)
      BY DEF relinquish
<1>3. /\ p \in Planes /\ t \in Transfers /\ e \in Nat /\ Held(p) /\ Tip(p, e)
      /\ Offers(p, t) /\ conversations[p] \in Rows
      /\ transfers[p][t] \in TransferRows /\ transfers[p][t].retired = e
      BY <1>2, RelinquishableOffer
<1>4. new.source = p /\ new.retired = e
      BY <1>3 DEF fence
<1>5. documents' = documents \union {new} /\ bundles' = bundles
      BY DEF relinquish
<1>6. Fences(p, e)
      BY <1>3 DEF relinquish
<1>7. /\ e \in fences'[p]
      /\ \A q \in Planes : fences[q] \subseteq fences'[q] /\ fences'[q] \subseteq fences[q] \union {e}
      BY <1>1, <1>3, <1>6 DEF Fences, TypeOK
<1>8. /\ conversations'[p] = Tombstone(conversations[p], e)
      /\ \A q \in Planes : q /= p => conversations'[q] = conversations[q]
      BY <1>1, <1>3 DEF relinquish, Changes, TypeOK
<1>9. /\ conversations'[p].authority = "relinquished" /\ conversations'[p].epoch = e
      /\ Held(p)'
  <2>1. Tombstone(conversations[p], e) \in Rows
        BY <1>3 DEF Tombstone, Rows, Authorities, Trash
  <2>2. /\ Tombstone(conversations[p], e).authority = "relinquished"
        /\ Tombstone(conversations[p], e).epoch = e
        BY <1>3 DEF Tombstone, Rows
  <2> QED BY <1>8, <2>1, <2>2, TransferAssumption DEF Held
<1>10. \A q, f : Owner(q, f) => Owner(q, f)'
       BY <1>5 DEF Owner
<1>11. \A d \in documents : d.retired \in Nat /\ d.retired < e
       BY <1>1, <1>3, DocumentType DEF Tip
<1>12. Chain'
  <2>1. ASSUME NEW d \in documents'
        PROVE  Owner(d.source, d.retired)' /\ d.retired \in fences'[d.source]
    <3>1. CASE d \in documents
          BY <1>1, <1>7, <1>10, <3>1, DocumentType DEF Chain
    <3>2. CASE d = new
          BY <1>3, <1>4, <1>7, <1>10, <3>2 DEF Tip
    <3> QED BY <1>5, <3>1, <3>2
  <2>2. ASSUME NEW c \in documents', NEW d \in documents', c.retired = d.retired
        PROVE  c.target = d.target
        BY <1>1, <1>3, <1>4, <1>5, <1>11, <2>2 DEF Chain
  <2>3. ASSUME NEW d \in documents', NEW k \in 1..d.retired
        PROVE  \E before \in documents' : before.retired = k
    <3>1. CASE d \in documents
          BY <1>1, <1>5, <3>1 DEF Chain
    <3>2. CASE d = new
      <4>1. CASE k = e
            BY <1>4, <1>5, <4>1
      <4>2. CASE k /= e
        <5>1. k \in Nat /\ 1 <= k /\ k < e
              BY <1>3, <1>4, <3>2, <4>2
        <5>2. PICK last \in documents : last.retired + 1 = e
              BY <1>3, <5>1 DEF Tip, Owner
        <5>3. k \in 1..last.retired
              BY <1>3, <1>11, <5>1, <5>2
        <5> QED BY <1>1, <1>5, <5>3 DEF Chain
      <4> QED BY <4>1, <4>2
    <3> QED BY <1>5, <3>1, <3>2
  <2> QED BY <2>1, <2>2, <2>3 DEF Chain
<1>13. /\ \A u \in Transfers : ~Offers(p, u)'
       /\ \A q \in Planes : q /= p => transfers'[q] = transfers[q]
  <2>1. transfers' = [transfers EXCEPT ![p] = [transfers[p] EXCEPT ![t] =
            [transfers[p][t] EXCEPT !.phase = "relinquished"]]]
        BY <1>1, <1>3 DEF relinquish, TypeOK
  <2>2. \A q \in Planes : q /= p => transfers'[q] = transfers[q]
        BY <1>1, <1>3, <2>1 DEF TypeOK
  <2>3. /\ transfers'[p][t] = [transfers[p][t] EXCEPT !.phase = "relinquished"]
        /\ \A u \in Transfers : u /= t => transfers'[p][u] = transfers[p][u]
        BY <1>1, <1>3, <2>1 DEF TypeOK
  <2>4. transfers'[p][t].phase = "relinquished"
        BY <1>3, <2>3 DEF TransferRows
  <2>5. ASSUME NEW u \in Transfers
        PROVE  ~Offers(p, u)'
    <3>1. CASE u = t
          BY <2>4, <3>1 DEF Offers
    <3>2. CASE u /= t
      <4>1. Offers(p, u)' => Offers(p, u)
            BY <2>3, <3>2 DEF Offers, Recorded
      <4> QED BY <1>3, <3>2, <4>1 DEF AuthorityInv, Claims
    <3> QED BY <3>1, <3>2
  <2> QED BY <2>2, <2>5
<1>14. Claims'
  <2>1. ASSUME NEW q \in Planes, q /= p
        PROVE  ~Is(q, "home")' /\ \A u \in Transfers : ~Offers(q, u)'
    <3>1. ~Is(q, "home")
          BY <1>1, <1>3, <2>1, OneTip, HeldRow DEF AuthorityInv, Claims, Is
    <3>2. \A u \in Transfers : ~Offers(q, u)
          BY <1>1, <1>3, <2>1, OneTip, HeldRow DEF AuthorityInv, Claims
    <3> QED BY <1>8, <1>13, <2>1, <3>1, <3>2 DEF Is, Held, Offers, Recorded
  <2>2. ~Is(p, "home")'
        BY <1>9 DEF Is
  <2> QED BY <1>13, <2>1, <2>2 DEF Claims
<1>15. Forward'
  <2>1. ASSUME NEW d \in documents', Held(d.source)'
        PROVE  /\ d.retired <= conversations'[d.source].epoch
               /\ Is(d.source, "prepared")' => d.retired < conversations'[d.source].epoch
    <3>1. CASE d.source = p
          BY <1>3, <1>4, <1>5, <1>9, <1>11, <3>1 DEF Is
    <3>2. CASE d.source /= p
      <4>1. d \in documents /\ d.source \in Planes
            BY <1>1, <1>4, <1>5, <3>2, DocumentType
      <4> QED BY <1>8, <2>1, <3>2, <4>1 DEF AuthorityInv, Forward, Held, Is
    <3> QED BY <3>1, <3>2
  <2>2. ASSUME NEW c \in bundles, NEW d \in documents',
               d.source = c.target, d.retired > c.retired
        PROVE  Held(c.target)'
    <3>1. CASE c.target = p
          BY <1>9, <3>1
    <3>2. CASE c.target /= p
      <4>1. d \in documents /\ c.target \in Planes
            BY <1>1, <1>4, <1>5, <2>2, <3>2, BundleType
      <4> QED BY <1>8, <2>2, <3>2, <4>1 DEF AuthorityInv, Forward, Held
    <3> QED BY <3>1, <3>2
  <2> QED BY <1>5, <2>1, <2>2 DEF Forward
<1>16. Ledgers'
       BY <1>3, <1>5, <1>7 DEF AuthorityInv, Ledgers, Tip, Owner
<1> QED BY <1>1, <1>12, <1>14, <1>15, <1>16 DEF AuthorityInv

(* The target becomes the Home of the epoch the last fence opens: were     *)
(* there a later fence, this Plane would have given it, and would not be   *)
(* prepared for that epoch any more.                                       *)
LEMMA CommitKeeps ==
    ASSUME AuthorityInv, NEW b \in bundles, NEW d \in documents, commit(b, d)
    PROVE  AuthorityInv'
<1> DEFINE q == b.target
           t == b.transfer
           e == conversations[q].epoch
<1>1. TypeOK /\ TypeOK' /\ Chain
      BY SettleType DEF AuthorityInv
<1>2. q \in Planes /\ t \in Transfers
      BY <1>1, BundleType
<1>3. /\ Is(q, "prepared") /\ Held(q) /\ e = transfers[q][t].retired + 1
      /\ Recorded(q, t, "target") /\ Validates(d, q, t)
      BY DEF commit, Presents, Is
<1>4. /\ d.retired + 1 = e /\ d.target = q /\ e \in Nat /\ d.retired \in Nat
      /\ conversations[q] \in Rows /\ transfers[q][t] \in TransferRows
      BY <1>1, <1>2, <1>3, HeldRow, RecordedRow, DocumentType DEF Validates, Recorded
<1>5. UNCHANGED <<documents, fences, bundles>>
      BY DEF commit, ledgers, clients
<1>6. Tip(q, e)
  <2>1. Owner(q, e)
        BY <1>4 DEF Owner
  <2>2. ASSUME NEW c \in documents, ~(c.retired < e)
        PROVE  FALSE
    <3>1. c.retired \in Nat /\ e \in 1..c.retired
          BY <1>1, <1>4, <2>2, DocumentType
    <3>2. PICK later \in documents : later.retired = e
          BY <1>1, <3>1 DEF Chain
    <3>3. Owner(later.source, e)
          BY <1>1, <3>2 DEF Chain
    <3>4. e /= 1
      <4>1. Owner(d.source, d.retired)
            BY <1>1 DEF Chain
      <4>2. d.retired /= 0
            BY <1>1, <4>1, DocumentType DEF Owner
      <4> QED BY <1>4, <4>2
    <3>5. PICK opens \in documents : opens.retired + 1 = e /\ opens.target = later.source
          BY <3>3, <3>4 DEF Owner
    <3>6. opens.retired = d.retired
          BY <1>1, <1>4, <3>5, DocumentType
    <3>7. later.source = q
          BY <1>1, <1>4, <3>5, <3>6 DEF Chain
    <3> QED BY <1>3, <1>4, <3>2, <3>7 DEF AuthorityInv, Forward
  <2> QED BY <2>1, <2>2 DEF Tip
<1>7. /\ conversations' = [conversations EXCEPT ![q] = [conversations[q] EXCEPT !.authority = "home"]]
      /\ transfers' = [transfers EXCEPT ![q] = [transfers[q] EXCEPT ![t] =
            [transfers[q][t] EXCEPT !.phase = "committed"]]]
      BY <1>1, <1>2 DEF commit, Changes, TypeOK
<1>8. /\ conversations'[q].authority = "home" /\ conversations'[q].epoch = e
      /\ Held(q)' /\ ~Is(q, "prepared")'
  <2>1. [conversations[q] EXCEPT !.authority = "home"] \in Rows
        BY <1>4 DEF Rows, Authorities
  <2>2. conversations'[q] = [conversations[q] EXCEPT !.authority = "home"]
        BY <1>1, <1>2, <1>7 DEF TypeOK
  <2> QED BY <1>4, <2>1, <2>2, TransferAssumption DEF Held, Is, Rows
<1>9. \A p \in Planes : p /= q => conversations'[p] = conversations[p]
      BY <1>1, <1>2, <1>7 DEF TypeOK
<1>10. \A p \in Planes : (Held(p)' <=> Held(p)) /\ conversations'[p].epoch = conversations[p].epoch
       BY <1>3, <1>8, <1>9 DEF Held
<1>11. ASSUME NEW p \in Planes, NEW u \in Transfers, Offers(p, u)'
       PROVE  Offers(p, u) /\ transfers'[p][u] = transfers[p][u]
  <2>1. CASE p = q /\ u = t
    <3>1. transfers'[q][t] = [transfers[q][t] EXCEPT !.phase = "committed"]
          BY <1>1, <1>2, <1>7 DEF TypeOK
    <3>2. transfers'[q][t].phase = "committed"
          BY <1>4, <3>1 DEF TransferRows
    <3> QED BY <1>11, <2>1, <3>2 DEF Offers
  <2>2. CASE ~(p = q /\ u = t)
    <3>1. transfers'[p][u] = transfers[p][u]
          BY <1>1, <1>2, <1>7, <2>2 DEF TypeOK
    <3> QED BY <1>11, <3>1 DEF Offers, Recorded
  <2> QED BY <2>1, <2>2
<1>12. \A p, f : (Owner(p, f)' <=> Owner(p, f)) /\ (Tip(p, f)' <=> Tip(p, f))
       BY <1>5 DEF Owner, Tip
<1>13. Chain'
       BY <1>1, <1>5, <1>12 DEF Chain
<1>14. Claims'
  <2>1. ASSUME NEW p \in Planes, Is(p, "home")'
        PROVE  Tip(p, conversations'[p].epoch)
    <3>1. CASE p = q
          BY <1>6, <1>8, <3>1
    <3>2. CASE p /= q
          BY <1>9, <2>1, <3>2 DEF AuthorityInv, Claims, Is, Held
    <3> QED BY <3>1, <3>2
  <2> QED BY <1>10, <1>11, <1>12, <2>1 DEF AuthorityInv, Claims
<1>15. Forward'
  <2>1. ASSUME NEW c \in documents, Held(c.source)'
        PROVE  /\ c.retired <= conversations'[c.source].epoch
               /\ Is(c.source, "prepared")' => c.retired < conversations'[c.source].epoch
    <3>1. c.source \in Planes
          BY <1>1, DocumentType
    <3>2. Is(c.source, "prepared")' => Is(c.source, "prepared")
          BY <1>8, <1>9, <3>1 DEF Is, Held
    <3> QED BY <1>10, <2>1, <3>1, <3>2 DEF AuthorityInv, Forward
  <2>2. ASSUME NEW c \in bundles, NEW f \in documents,
               f.source = c.target, f.retired > c.retired
        PROVE  Held(c.target)'
        BY <1>1, <1>10, <2>2, BundleType DEF AuthorityInv, Forward
  <2> QED BY <1>5, <2>1, <2>2 DEF Forward
<1>16. Ledgers'
       BY <1>5 DEF AuthorityInv, Ledgers
<1> QED BY <1>1, <1>13, <1>14, <1>15, <1>16 DEF AuthorityInv

LEMMA InitAuthority == Init => AuthorityInv
<1> SUFFICES ASSUME Init PROVE AuthorityInv
    OBVIOUS
<1>1. TypeOK
      BY InitType
<1>2. documents = {} /\ bundles = {} /\ \A p \in Planes : fences[p] = {}
      BY DEF Init
<1>3. Chain /\ Forward /\ Ledgers
      BY <1>2 DEF Chain, Forward, Ledgers
<1>4. \A p \in Planes, t \in Transfers : ~Offers(p, t)
      BY DEF Init, Offers, Recorded, NoTransfers
<1>5. \A p \in Planes : Is(p, "home") => Tip(p, conversations[p].epoch)
      BY <1>2 DEF Init, Is, Held, Tip, Owner
<1> QED BY <1>1, <1>3, <1>4, <1>5 DEF AuthorityInv, Claims

LEMMA AuthorityStep ==
    ASSUME LateBundles = FALSE, AuthorityInv, [Next]_vars
    PROVE  AuthorityInv'
<1>1. CASE UNCHANGED vars
      BY <1>1 DEF vars, AuthorityInv, TypeOK, Chain, Claims, Forward, Ledgers, Tip, Owner,
                  Offers, Recorded, Held, Is
<1>2. ASSUME NEW p \in Planes,
             \/ Admits(p) \/ Completes(p) \/ Withdrawn(p)
             \/ forget(p) \/ stage_if_unprotected(p) \/ restore(p) \/ TombstoneExpires(p)
             \/ PrepareRecords(p) \/ PrepareFails(p) \/ Restart(p)
             \/ \E q \in Planes : PrepareReads(p, q)
             \/ \E t \in Transfers : abort(p, t)
      PROVE  AuthorityInv'
      BY <1>2, WorkKeeps, DeletionKeeps, PrepareKeeps, AbortKeeps
<1>3. ASSUME NEW b \in bundles,
             import(b) \/ relinquish(b) \/ RelinquishFails(b) \/ \E d \in documents : commit(b, d)
      PROVE  AuthorityInv'
      BY <1>3, ImportKeeps, RelinquishKeeps, RelinquishFailsKeeps, CommitKeeps
<1> QED BY <1>1, <1>2, <1>3 DEF Next

(* The fences form one chain and only its last owner is or offers a Home.  *)
THEOREM Invariant == LateBundles = FALSE => (Spec => []AuthorityInv)
<1> SUFFICES ASSUME LateBundles = FALSE PROVE Spec => []AuthorityInv
    OBVIOUS
<1>1. AuthorityInv /\ [Next]_vars => AuthorityInv'
      BY AuthorityStep
<1> QED BY <1>1, InitAuthority, PTL DEF Spec

(* No two Planes are ever Home (OneHome), however transfers are repeated,   *)
(* delayed, aborted or interrupted, if no bundle reaches a Plane which has *)
(* deleted the Conversation since (plane_transfer/settle.rs, import.rs).   *)
THEOREM HomeIsUnique == LateBundles = FALSE => (Spec => []OneHome)
<1>1. AuthorityInv => OneHome
  <2> SUFFICES ASSUME AuthorityInv PROVE OneHome
      OBVIOUS
  <2>1. \A p, q \in Homes : p = q
        BY OneTip, HeldRow DEF AuthorityInv, Claims, Homes, Is
  <2>2. CASE Homes = {}
        BY <2>2, FS_EmptySet DEF OneHome
  <2>3. CASE Homes /= {}
    <3>1. PICK p : Homes = {p}
          BY <2>1, <2>3
    <3>2. Cardinality({p}) = 1
          BY FS_Singleton
    <3> QED BY <3>1, <3>2 DEF OneHome
  <2> QED BY <2>2, <2>3
<1> QED BY <1>1, Invariant, PTL

(* Every epoch before that of a Home is retired in a durable ledger, and    *)
(* none after it is (HomeIsFenced; jet-store authority/, reapply at start). *)
THEOREM AuthorityIsFenced == LateBundles = FALSE => (Spec => []HomeIsFenced)
<1>1. AuthorityInv => HomeIsFenced
  <2> DEFINE retired == UNION {fences[p] : p \in Planes}
  <2> SUFFICES ASSUME AuthorityInv, NEW p \in Homes
               PROVE  /\ 1..(conversations[p].epoch - 1) \subseteq retired
                      /\ retired \subseteq 1..conversations[p].epoch
      BY DEF HomeIsFenced
  <2>1. TypeOK /\ Chain /\ Ledgers
        BY DEF AuthorityInv
  <2>2. p \in Planes /\ Tip(p, conversations[p].epoch) /\ conversations[p].epoch \in Nat
        BY <2>1, HeldRow DEF AuthorityInv, Claims, Homes, Is
  <2>3. ASSUME NEW k \in 1..(conversations[p].epoch - 1)
        PROVE  k \in retired
    <3>1. PICK last \in documents : last.retired + 1 = conversations[p].epoch
          BY <2>2 DEF Tip, Owner
    <3>2. k \in 1..last.retired
          BY <2>1, <2>2, <3>1, DocumentType
    <3>3. PICK d \in documents : d.retired = k
          BY <2>1, <3>2 DEF Chain
    <3> QED BY <2>1, <3>3, DocumentType DEF Chain
  <2>4. ASSUME NEW k \in retired
        PROVE  k \in 1..conversations[p].epoch
    <3>1. PICK q \in Planes : k \in fences[q]
          OBVIOUS
    <3>2. k \in Nat
          BY <2>1, <3>1 DEF TypeOK
    <3>3. conversations[p].epoch >= 1
          BY <2>1, <2>2, DocumentType DEF Tip, Owner
    <3>4. CASE k = 1
          BY <2>2, <3>3, <3>4
    <3>5. CASE k /= 1
      <4>1. PICK d \in documents : d.retired + 1 = k
            BY <2>1, <3>1, <3>5 DEF Ledgers
      <4> QED BY <2>1, <2>2, <3>2, <4>1, DocumentType DEF Tip
    <3> QED BY <3>4, <3>5
  <2> QED BY <2>3, <2>4
<1> QED BY <1>1, Invariant, PTL

-----------------------------------------------------------------------------
(* The content of the Conversation.                                        *)

(* c is what a bundle, or a record of transfer t, says the content is.     *)
Copy(t, c) ==
    \/ \E b \in bundles : b.transfer = t /\ b.content = c
    \/ \E p \in Planes : transfers[p][t] /= NoRow /\ transfers[p][t].content = c

(* ... and what Plane q may still come Home with.                          *)
Deliverable(q, t, c) ==
    \/ \E b \in bundles : b.transfer = t /\ b.target = q /\ b.content = c
    \/ transfers[q][t] /= NoRow /\ transfers[q][t].content = c

(* Epoch e has begun at q.                                                 *)
Arrived(q, e) ==
    Held(q) /\ conversations[q].epoch = e /\ conversations[q].authority /= "prepared"

(* Content that lacks no turn but those a prepare may have missed.         *)
Kept(c) == c \in (written - unseen)..written

(* Whatever is written of one transfer says the same content.              *)
OneContent ==
    \A t \in Transfers : \A c1, c2 \in Nat : Copy(t, c1) /\ Copy(t, c2) => c1 = c2

(* Until the Plane that the last fence names is at Home, nothing is        *)
(* written, and all it can come Home with is everything but those.         *)
Carried ==
    \A d \in documents : Tip(d.target, d.retired + 1) =>
        \/ Arrived(d.target, d.retired + 1)
        \/ \A c \in Nat : Deliverable(d.target, d.transfer, c) => Kept(c)

(* Work is done only in the last epoch, whose row holds the rest.          *)
Worked ==
    /\ \A p \in Planes : Held(p) /\ has_live_work(p) => conversations[p].authority /= "prepared"
    /\ \A p \in Planes, e \in Nat : Arrived(p, e) =>
        /\ Owner(p, e)
        /\ has_live_work(p) => Tip(p, e)
        /\ Tip(p, e) => Kept(conversations[p].content)

(* An open transfer has frozen its Conversation, on both sides.            *)
Offered ==
    \A p \in Planes, t \in Transfers :
        /\ Offers(p, t) =>
            /\ ~has_live_work(p) /\ conversations[p].authority /= "prepared"
            /\ Kept(transfers[p][t].content)
        /\ Recorded(p, t, "target") /\ transfers[p][t].phase = "prepared" /\ Is(p, "prepared") =>
            transfers[p][t].content = conversations[p].content

(* A bundle leaves the owner of its epoch.                                 *)
Bundled == \A b \in bundles : b.source /= b.target /\ Owner(b.source, b.retired)

(* A prepare under way has read what its Plane held, under an identity     *)
(* that is recorded there or nowhere.                                      *)
Planned ==
    \A p \in Planes : preparing[p] /= NoPlan =>
        /\ preparing[p].transfer \in Transfers
        /\ \A e \in Nat : Arrived(p, e) /\ Tip(p, e) => Kept(preparing[p].content)
        /\ ~preparing[p].recorded =>
            /\ \A q \in Planes : transfers[q][preparing[p].transfer] = NoRow
            /\ \A b \in bundles : b.transfer /= preparing[p].transfer
            /\ \A q \in Planes : q /= p => preparing[q].transfer /= preparing[p].transfer

ContentInv == OneContent /\ Carried /\ Worked /\ Offered /\ Bundled /\ Planned

LEMMA CopyType ==
    ASSUME TypeOK
    PROVE  /\ \A b \in bundles : b.content \in Nat
           /\ \A p \in Planes, t \in Transfers :
                transfers[p][t] /= NoRow => transfers[p][t].content \in Nat
BY RecordedRow DEF TypeOK

LEMMA DeliverableIsCopy ==
    ASSUME NEW q \in Planes, NEW t, NEW c, Deliverable(q, t, c)
    PROVE  Copy(t, c)
BY DEF Deliverable, Copy

LEMMA InitContent == Init => ContentInv
<1> SUFFICES ASSUME Init PROVE ContentInv
    OBVIOUS
<1>1. /\ bundles = {} /\ documents = {} /\ written = 0 /\ unseen = 0
      /\ \A p \in Planes : preparing[p] = NoPlan
      /\ \A p \in Planes, t \in Transfers : transfers[p][t] = NoRow
      BY DEF Init, NoTransfers
<1>2. OneContent
      BY <1>1 DEF OneContent, Copy
<1>3. Carried /\ Bundled /\ Planned
      BY <1>1 DEF Carried, Bundled, Planned
<1>4. Offered
      BY <1>1 DEF Offered, Offers, Recorded
<1>5. Worked
  <2> SUFFICES ASSUME NEW p \in Planes, Held(p)
               PROVE  /\ ~has_live_work(p) /\ conversations[p].epoch = 1 /\ Owner(p, 1)
                      /\ Kept(conversations[p].content)
      BY DEF Worked, Arrived
  <2>1. p = Origin
        BY DEF Init, Held
  <2>2. conversations[p] = [authority |-> "home", epoch |-> 1, content |-> 0,
                            busy |-> FALSE, trash |-> "none"]
        BY <2>1 DEF Init
  <2> QED BY <1>1, <2>1, <2>2 DEF has_live_work, Owner, Kept
<1> QED BY <1>2, <1>3, <1>4, <1>5 DEF ContentInv

(* A step that writes nothing, makes no copy and opens no epoch: rows and  *)
(* bundles may go, and a Plane that drops the Conversation drops whatever  *)
(* it could come Home with.                                                *)
LEMMA ShrinkStep ==
    ASSUME AuthorityInv, ContentInv, UNCHANGED <<documents, written, unseen>>,
           bundles' \subseteq bundles,
           \A p \in Planes, t \in Transfers : transfers'[p][t] \in {transfers[p][t], NoRow},
           \A p \in Planes :
               \/ /\ Held(p)' <=> Held(p)
                  /\ Held(p)' =>
                       /\ conversations'[p].epoch = conversations[p].epoch
                       /\ conversations'[p].content = conversations[p].content
                       /\ conversations'[p].authority = "prepared" <=> conversations[p].authority = "prepared"
                       /\ conversations'[p].busy => conversations[p].busy
               \/ /\ ~Held(p)'
                  /\ \A t \in Transfers : transfers'[p][t] = NoRow
                  /\ \A b \in bundles' : b.target /= p,
           \A p \in Planes : preparing'[p] \in {preparing[p], NoPlan}
    PROVE  ContentInv'
<1>1. TypeOK /\ NoTransfer \notin Transfers
      BY TransferAssumption DEF AuthorityInv
<1>2. \A p, e : (Owner(p, e)' <=> Owner(p, e)) /\ (Tip(p, e)' <=> Tip(p, e))
      BY DEF Owner, Tip
<1>3. \A t \in Transfers : \A c : Copy(t, c)' => Copy(t, c)
      BY DEF Copy
<1>4. \A p \in Planes, t \in Transfers : \A c : Deliverable(p, t, c)' => Deliverable(p, t, c)
      BY DEF Deliverable
<1>5. ASSUME NEW p \in Planes, Held(p)'
      PROVE  /\ Held(p) /\ conversations'[p].epoch = conversations[p].epoch
             /\ conversations'[p].content = conversations[p].content
             /\ conversations'[p].authority = "prepared" <=> conversations[p].authority = "prepared"
             /\ has_live_work(p)' => has_live_work(p)
             /\ \A e : Arrived(p, e)' <=> Arrived(p, e)
      BY <1>5 DEF has_live_work, Arrived, Held
<1>6. OneContent'
      BY <1>3 DEF ContentInv, OneContent
<1>7. Carried'
  <2> SUFFICES ASSUME NEW d \in documents, Tip(d.target, d.retired + 1),
                      ~Arrived(d.target, d.retired + 1)',
                      NEW c \in Nat, Deliverable(d.target, d.transfer, c)'
               PROVE  Kept(c)
      BY <1>2 DEF Carried, Kept
  <2>1. d.target \in Planes /\ d.transfer \in Transfers
        BY <1>1 DEF TypeOK
  <2>2. Deliverable(d.target, d.transfer, c)
        BY <1>4, <2>1
  <2>3. ~Arrived(d.target, d.retired + 1)
    <3>1. CASE Held(d.target)'
          BY <1>5, <2>1, <3>1
    <3>2. CASE ~Held(d.target)' /\ ~Held(d.target)
          BY <3>2 DEF Arrived
    <3>3. CASE ~Held(d.target)' /\ Held(d.target)
          BY <2>1, <3>3 DEF Deliverable
    <3> QED BY <3>1, <3>2, <3>3
  <2> QED BY <2>2, <2>3 DEF ContentInv, Carried
<1>8. Worked'
  <2>1. \A p \in Planes, e \in Nat : Arrived(p, e)' => Held(p)' /\ Arrived(p, e)
        BY <1>5 DEF Arrived
  <2> QED BY <1>2, <1>5, <2>1 DEF ContentInv, Worked, Kept
<1>9. Offered'
  <2> SUFFICES ASSUME NEW p \in Planes, NEW t \in Transfers
               PROVE  /\ Offers(p, t)' =>
                           /\ ~has_live_work(p)' /\ conversations'[p].authority /= "prepared"
                           /\ Kept(transfers[p][t].content)'
                      /\ Recorded(p, t, "target")' /\ transfers'[p][t].phase = "prepared" /\ Is(p, "prepared")' =>
                           transfers'[p][t].content = conversations'[p].content
      BY DEF Offered
  <2>1. CASE transfers'[p][t] = NoRow
        BY <2>1 DEF Offers, Recorded
  <2>2. CASE transfers'[p][t] /= NoRow
    <3>1. transfers'[p][t] = transfers[p][t]
          BY <2>2
    <3>2. Offers(p, t)' => Offers(p, t)
          BY <3>1 DEF Offers, Recorded
    <3>3. Recorded(p, t, "target")' => Recorded(p, t, "target")
          BY <3>1 DEF Recorded
    <3>4. Held(p)' <=> Held(p)
          BY <2>2
    <3>5. Offers(p, t) => Held(p)
          BY DEF AuthorityInv, Claims
    <3>6. Is(p, "prepared")' => Is(p, "prepared") /\ Held(p)'
          BY <1>5 DEF Is
    <3> QED BY <1>5, <3>1, <3>2, <3>3, <3>4, <3>5, <3>6 DEF ContentInv, Offered, Kept
  <2> QED BY <2>1, <2>2
<1>10. Bundled'
       BY <1>2 DEF ContentInv, Bundled
<1>11. Planned'
  <2> SUFFICES ASSUME NEW p \in Planes, preparing'[p] /= NoPlan
               PROVE  /\ preparing'[p].transfer \in Transfers
                      /\ \A e \in Nat : Arrived(p, e)' /\ Tip(p, e)' => Kept(preparing[p].content)'
                      /\ ~preparing'[p].recorded =>
                          /\ \A q \in Planes : transfers'[q][preparing'[p].transfer] = NoRow
                          /\ \A b \in bundles' : b.transfer /= preparing'[p].transfer
                          /\ \A q \in Planes : q /= p => preparing'[q].transfer /= preparing'[p].transfer
      BY DEF Planned
  <2>1. preparing'[p] = preparing[p] /\ preparing[p].transfer \in Transfers
        BY DEF ContentInv, Planned
  <2>2. \A q \in Planes : preparing'[q] = preparing[q] \/ preparing'[q].transfer = NoTransfer
        BY DEF NoPlan
  <2>3. ASSUME ~preparing[p].recorded
        PROVE  /\ \A q \in Planes : transfers[q][preparing[p].transfer] = NoRow
               /\ \A b \in bundles : b.transfer /= preparing[p].transfer
               /\ \A q \in Planes : q /= p => preparing[q].transfer /= preparing[p].transfer
        BY <2>1, <2>3 DEF ContentInv, Planned
  <2>4. ASSUME NEW e \in Nat, Arrived(p, e)', Tip(p, e)'
        PROVE  Kept(preparing[p].content)'
    <3>1. Arrived(p, e) /\ Tip(p, e)
          BY <1>2, <1>5, <2>4 DEF Arrived
    <3>2. Kept(preparing[p].content)
          BY <2>1, <3>1 DEF ContentInv, Planned
    <3> QED BY <2>1, <3>2 DEF Kept
  <2> QED BY <1>1, <2>1, <2>2, <2>3, <2>4
<1> QED BY <1>6, <1>7, <1>8, <1>9, <1>10, <1>11 DEF ContentInv

(* Work that ends without a turn, Jet Trash, and what fails or is undone.  *)
LEMMA QuietContent ==
    ASSUME AuthorityInv, ContentInv, NEW p \in Planes,
           \/ Withdrawn(p) \/ forget(p) \/ stage_if_unprotected(p) \/ restore(p)
           \/ PrepareFails(p) \/ \E t \in Transfers : abort(p, t)
    PROVE  ContentInv'
<1>1. TypeOK
      BY DEF AuthorityInv
<1>2. UNCHANGED <<documents, written, unseen, bundles>>
      BY DEF Withdrawn, forget, stage_if_unprotected, restore, PrepareFails, abort, stores,
             ledgers, clients
<1>3. \A q \in Planes, t \in Transfers : transfers'[q][t] \in {transfers[q][t], NoRow}
      BY <1>1 DEF Withdrawn, forget, stage_if_unprotected, restore, PrepareFails, abort, stores,
                  TypeOK
<1>4. \A q \in Planes : preparing'[q] \in {preparing[q], NoPlan}
      BY <1>1 DEF Withdrawn, forget, stage_if_unprotected, restore, PrepareFails, abort, TypeOK
<1>5. \A q \in Planes : conversations'[q] = conversations[q] \/
        /\ Held(q) /\ Held(q)'
        /\ conversations'[q].epoch = conversations[q].epoch
        /\ conversations'[q].content = conversations[q].content
        /\ conversations'[q].authority = conversations[q].authority
        /\ conversations'[q].busy => conversations[q].busy
  <2> TAKE q \in Planes
  <2>1. CASE conversations' = conversations
        BY <2>1
  <2>2. CASE conversations' /= conversations
    <3>1. /\ Withdrawn(p) \/ forget(p) \/ stage_if_unprotected(p) \/ restore(p)
          /\ Held(p)
          BY <2>2 DEF Withdrawn, forget, stage_if_unprotected, restore, PrepareFails, abort, stores
    <3>2. PICK busy \in BOOLEAN, trash \in Trash :
            /\ busy => conversations[p].busy
            /\ Changes(p, [conversations[p] EXCEPT !.busy = busy, !.trash = trash])
      <4>1. conversations[p] \in Rows
            BY <1>1, <3>1, HeldRow
      <4>2. conversations[p] = [conversations[p] EXCEPT !.busy = conversations[p].busy,
                                                        !.trash = conversations[p].trash]
            BY <4>1 DEF Rows
      <4>3. CASE Withdrawn(p)
        <5>1. [conversations[p] EXCEPT !.busy = FALSE] =
                [conversations[p] EXCEPT !.busy = FALSE, !.trash = conversations[p].trash]
              BY <4>1 DEF Rows
        <5> QED BY <4>1, <4>3, <5>1 DEF Withdrawn, Rows
      <4>4. ASSUME NEW trash \in Trash
            PROVE  [conversations[p] EXCEPT !.trash = trash] =
                     [conversations[p] EXCEPT !.busy = conversations[p].busy, !.trash = trash]
            BY <4>1 DEF Rows
      <4>5. CASE forget(p) \/ stage_if_unprotected(p) \/ restore(p)
            BY <4>1, <4>4, <4>5 DEF forget, stage_if_unprotected, restore, Rows, Trash
      <4> QED BY <3>1, <4>3, <4>5
    <3>3. conversations[p] \in Rows
          BY <1>1, <3>1, HeldRow
    <3>4. [conversations[p] EXCEPT !.busy = busy, !.trash = trash] \in Rows
          BY <3>3 DEF Rows
    <3>5. /\ q /= p => conversations'[q] = conversations[q]
          /\ conversations'[p] = [conversations[p] EXCEPT !.busy = busy, !.trash = trash]
          BY <1>1, <3>2 DEF Changes, TypeOK
    <3>6. CASE q = p
          BY <3>1, <3>2, <3>3, <3>4, <3>5, <3>6, TransferAssumption DEF Held, Rows
    <3> QED BY <3>5, <3>6
  <2> QED BY <2>1, <2>2
<1>6. ASSUME NEW q \in Planes
      PROVE  /\ Held(q)' <=> Held(q)
             /\ Held(q)' =>
                  /\ conversations'[q].epoch = conversations[q].epoch
                  /\ conversations'[q].content = conversations[q].content
                  /\ conversations'[q].authority = "prepared" <=> conversations[q].authority = "prepared"
                  /\ conversations'[q].busy => conversations[q].busy
      BY <1>5 DEF Held
<1> QED BY <1>2, <1>3, <1>4, <1>6, ShrinkStep

LEMMA RelinquishFailsContent ==
    ASSUME AuthorityInv, ContentInv, NEW b \in bundles, RelinquishFails(b)
    PROVE  ContentInv'
<1>1. UNCHANGED <<conversations, transfers, preparing, bundles, documents, written, unseen>>
      BY DEF RelinquishFails, stores, clients
<1> QED BY <1>1, ShrinkStep DEF Held

LEMMA DeletionContent ==
    ASSUME LateBundles = FALSE, AuthorityInv, ContentInv, NEW p \in Planes,
           TombstoneExpires(p) \/ Restart(p)
    PROVE  ContentInv'
<1>1. TypeOK
      BY DEF AuthorityInv
<1>2. UNCHANGED <<documents, written, unseen>> /\ bundles' \subseteq bundles
      BY DEF TombstoneExpires, Restart, StillHeld, ledgers
<1>3. \A q \in Planes, t \in Transfers :
        /\ transfers'[q][t] \in {transfers[q][t], NoRow}
        /\ q /= p => conversations'[q] = conversations[q]
      BY <1>1 DEF TombstoneExpires, Restart, Changes, TypeOK, NoTransfers
<1>4. \A q \in Planes : preparing'[q] \in {preparing[q], NoPlan}
      BY <1>1 DEF TombstoneExpires, Restart, TypeOK
<1>5. \A q \in Planes : q /= p => conversations'[q] = conversations[q]
      BY <1>1 DEF TombstoneExpires, Restart, Changes, TypeOK
<1>6. CASE TombstoneExpires(p) \/ (Restart(p) /\ p \in deleted)
  <2>1. Changes(p, NoRow)
        BY <1>6 DEF TombstoneExpires, Restart, Reopened
  <2>2. ~Held(p)'
        BY <1>1, <2>1 DEF Changes, TypeOK, Held
  <2>3. transfers' = [transfers EXCEPT ![p] = NoTransfers]
        BY <1>6 DEF TombstoneExpires, Restart
  <2>4. \A t \in Transfers : transfers'[p][t] = NoRow
        BY <1>1, <2>3 DEF TypeOK, NoTransfers
  <2>5. \A b \in bundles' : b.target /= p
        BY <1>6 DEF TombstoneExpires, Restart, StillHeld
  <2> QED BY <1>2, <1>3, <1>4, <1>5, <2>2, <2>4, <2>5, ShrinkStep DEF Held
<1>7. CASE Restart(p) /\ p \notin deleted
  <2>1. conversations'[p] = Reopened(p)
        BY <1>1, <1>7 DEF Restart, Changes, TypeOK
  <2>2. /\ Held(p)' <=> Held(p)
        /\ Held(p)' =>
             /\ conversations'[p].epoch = conversations[p].epoch
             /\ conversations'[p].content = conversations[p].content
             /\ conversations'[p].authority = "prepared" <=> conversations[p].authority = "prepared"
             /\ conversations'[p].busy => conversations[p].busy
    <3>1. CASE Held(p)
      <4>1. conversations[p] \in Rows
            BY <1>1, <3>1, HeldRow
      <4>2. Reopened(p) \in Rows
            BY <1>7, <3>1, <4>1 DEF Reopened, Held, Rows, Authorities
      <4>3. Held(p)'
            BY <2>1, <4>2, TransferAssumption DEF Held
      <4>4. \/ conversations'[p] = conversations[p]
            \/ /\ conversations'[p] = [conversations[p] EXCEPT !.authority = "relinquished"]
               /\ conversations[p].authority = "home"
            BY <1>7, <2>1, <3>1 DEF Reopened, Held
      <4> QED BY <3>1, <4>1, <4>3, <4>4 DEF Rows
    <3>2. CASE ~Held(p)
          BY <2>1, <3>2 DEF Reopened, Held
    <3> QED BY <3>1, <3>2
  <2> QED BY <1>2, <1>3, <1>4, <1>5, <2>2, ShrinkStep DEF Held
<1>8. p \in deleted \/ p \notin deleted
      OBVIOUS
<1> QED BY <1>6, <1>7, <1>8

(* A turn is admitted at the Home, in the last epoch, and no transfer of   *)
(* it is open.                                                             *)
LEMMA AdmitsContent ==
    ASSUME AuthorityInv, ContentInv, NEW p \in Planes, Admits(p)
    PROVE  ContentInv'
<1>1. TypeOK /\ Is(p, "home") /\ Held(p) /\ Tip(p, conversations[p].epoch)
      BY DEF AuthorityInv, Claims, Admits, require_authoritative, Is
<1>2. conversations[p] \in Rows
      BY <1>1, HeldRow
<1>3. UNCHANGED <<transfers, preparing, bundles, documents, written, unseen>>
      BY DEF Admits, clients
<1>4. /\ conversations'[p] = [conversations[p] EXCEPT !.busy = TRUE]
      /\ \A q \in Planes : q /= p => conversations'[q] = conversations[q]
      BY <1>1 DEF Admits, Changes, TypeOK
<1>5. [conversations[p] EXCEPT !.busy = TRUE] \in Rows
      BY <1>2 DEF Rows
<1>6. /\ Held(p)' /\ conversations'[p].epoch = conversations[p].epoch
      /\ conversations'[p].content = conversations[p].content
      /\ conversations'[p].authority = conversations[p].authority
      BY <1>2, <1>4, <1>5, TransferAssumption DEF Held, Rows
<1>7. \A q \in Planes :
        /\ Held(q)' <=> Held(q)
        /\ Held(q) => /\ conversations'[q].epoch = conversations[q].epoch
                      /\ conversations'[q].content = conversations[q].content
                      /\ conversations'[q].authority = conversations[q].authority
        /\ q /= p => conversations'[q] = conversations[q]
      BY <1>1, <1>4, <1>6 DEF Held
<1>8. \A q \in Planes : \A e : Arrived(q, e)' <=> Arrived(q, e)
      BY <1>7 DEF Arrived
<1>9. \A q, e : (Owner(q, e)' <=> Owner(q, e)) /\ (Tip(q, e)' <=> Tip(q, e))
      BY <1>3 DEF Owner, Tip
<1>10. OneContent'
       BY <1>3 DEF ContentInv, OneContent, Copy
<1>11. \A d \in documents : d.target \in Planes
       BY <1>1, DocumentType
<1>12. Carried'
       BY <1>3, <1>8, <1>9, <1>11 DEF ContentInv, Carried, Deliverable, Kept
<1>13. Worked'
  <2>1. \A e : Arrived(p, e) => e = conversations[p].epoch
        BY DEF Arrived
  <2>2. \A q \in Planes : q /= p => (has_live_work(q)' <=> has_live_work(q))
        BY <1>7 DEF has_live_work
  <2>3. conversations'[p].authority /= "prepared"
        BY <1>1, <1>6 DEF Is
  <2>4. \A q \in Planes, e \in Nat : Arrived(q, e) => Held(q)
        BY DEF Arrived
  <2> QED BY <1>1, <1>3, <1>7, <1>8, <1>9, <2>1, <2>2, <2>3, <2>4 DEF ContentInv, Worked, Kept
<1>14. Offered'
  <2>1. \A t \in Transfers : ~Offers(p, t)
        BY DEF Admits, require_authoritative, Frozen, open_plane_transfer, Offers, Recorded
  <2>2. \A q \in Planes, t \in Transfers :
            (Offers(q, t)' <=> Offers(q, t)) /\ (Recorded(q, t, "target")' <=> Recorded(q, t, "target"))
        BY <1>3 DEF Offers, Recorded
  <2>3. \A q \in Planes : Is(q, "prepared")' => Is(q, "prepared")
        BY <1>7 DEF Is
  <2>4. \A q \in Planes, t \in Transfers : Offers(q, t) => q /= p /\ Held(q)
        BY <2>1 DEF AuthorityInv, Claims
  <2>5. \A q \in Planes : q /= p => (has_live_work(q)' <=> has_live_work(q))
        BY <1>7 DEF has_live_work
  <2>6. \A q \in Planes, t \in Transfers : Offers(q, t)' =>
            /\ ~has_live_work(q)' /\ conversations'[q].authority /= "prepared"
            /\ Kept(transfers[q][t].content)'
        BY <1>3, <1>7, <2>2, <2>4, <2>5 DEF ContentInv, Offered, Kept
  <2>7. \A q \in Planes, t \in Transfers :
            Recorded(q, t, "target")' /\ transfers'[q][t].phase = "prepared" /\ Is(q, "prepared")' =>
            transfers'[q][t].content = conversations'[q].content
        BY <1>3, <1>7, <2>2, <2>3 DEF ContentInv, Offered, Is
  <2> QED BY <2>6, <2>7 DEF Offered
<1>15. Bundled'
       BY <1>3, <1>9 DEF ContentInv, Bundled
<1>16. Planned'
       BY <1>3, <1>8, <1>9 DEF ContentInv, Planned, Kept
<1> QED BY <1>10, <1>12, <1>13, <1>14, <1>15, <1>16 DEF ContentInv

(* A turn is completed where the last epoch has begun, and nowhere else is *)
(* anything written.                                                       *)
LEMMA CompletesContent ==
    ASSUME AuthorityInv, ContentInv, NEW p \in Planes, Completes(p)
    PROVE  ContentInv'
<1>1. TypeOK /\ Chain /\ Held(p) /\ has_live_work(p)
      BY DEF AuthorityInv, Completes
<1>2. /\ conversations[p] \in Rows /\ conversations[p].epoch \in Nat
      /\ conversations[p].content \in Nat /\ written \in Nat /\ unseen \in Nat
      BY <1>1, HeldRow DEF TypeOK
<1>3. PICK e \in Nat : e = conversations[p].epoch
      BY <1>2
<1>4. Arrived(p, e) /\ Tip(p, e) /\ Kept(conversations[p].content)
      BY <1>1, <1>3 DEF ContentInv, Worked, Arrived
<1>5. /\ UNCHANGED <<transfers, preparing, bundles, documents>> /\ written' = written + 1
      /\ unseen' = IF preparing[p] = NoPlan THEN unseen ELSE unseen + 1
      BY DEF Completes, clients
<1>6. /\ conversations'[p] = [conversations[p] EXCEPT !.busy = FALSE, !.content = conversations[p].content + 1]
      /\ \A q \in Planes : q /= p => conversations'[q] = conversations[q]
      BY <1>1 DEF Completes, Changes, TypeOK
<1>7. [conversations[p] EXCEPT !.busy = FALSE, !.content = conversations[p].content + 1] \in Rows
  <2>1. conversations[p].content + 1 \in Nat
        BY <1>2
  <2> QED BY <1>2, <2>1 DEF Rows
<1>8. /\ Held(p)' /\ conversations'[p].epoch = e
      /\ conversations'[p].content = conversations[p].content + 1
      /\ conversations'[p].authority = conversations[p].authority /\ ~has_live_work(p)'
      BY <1>2, <1>3, <1>4, <1>5, <1>6, <1>7, TransferAssumption DEF Held, Rows, has_live_work
<1>9. \A q \in Planes : q /= p =>
        /\ Held(q)' <=> Held(q)
        /\ has_live_work(q)' <=> has_live_work(q)
        /\ \A f : Arrived(q, f)' <=> Arrived(q, f)
        /\ \A a : Is(q, a)' <=> Is(q, a)
      BY <1>6 DEF Held, Arrived, has_live_work, Is
<1>10. Arrived(p, e)' /\ \A f : Arrived(p, f)' => f = e
       BY <1>3, <1>4, <1>8 DEF Arrived
<1>11. \A q, f : (Owner(q, f)' <=> Owner(q, f)) /\ (Tip(q, f)' <=> Tip(q, f))
       BY <1>5 DEF Owner, Tip
<1>12. OneContent'
       BY <1>5 DEF ContentInv, OneContent, Copy
<1>13. Carried'
  <2> SUFFICES ASSUME NEW d \in documents, Tip(d.target, d.retired + 1)
               PROVE  Arrived(d.target, d.retired + 1)'
      BY <1>5, <1>11 DEF Carried
  <2>1. d.retired + 1 \in Nat
        BY <1>1, DocumentType
  <2>2. d.retired + 1 = e /\ d.target = p
        BY <1>1, <1>4, <2>1, OneTip
  <2> QED BY <1>10, <2>2
<1>14. Worked'
  <2> SUFFICES ASSUME NEW q \in Planes, NEW f \in Nat
               PROVE  /\ Held(q)' /\ has_live_work(q)' => conversations'[q].authority /= "prepared"
                      /\ Arrived(q, f)' =>
                           /\ Owner(q, f)
                           /\ has_live_work(q)' => Tip(q, f)
                           /\ Tip(q, f) => Kept(conversations[q].content)'
      BY <1>11 DEF Worked
  <2>1. CASE q = p
    <3>1. Kept(conversations[p].content)'
          BY <1>2, <1>4, <1>5, <1>8 DEF Kept
    <3> QED BY <1>4, <1>8, <1>10, <2>1, <3>1 DEF Tip
  <2>2. CASE q /= p
    <3>1. ~Tip(q, f)
          BY <1>1, <1>4, <2>2, OneTip
    <3> QED BY <1>6, <1>9, <2>2, <3>1 DEF ContentInv, Worked
  <2> QED BY <2>1, <2>2
<1>15. Offered'
  <2>1. \A t \in Transfers : ~Offers(p, t)
        BY <1>1 DEF ContentInv, Offered
  <2>2. \A q \in Planes, t \in Transfers :
            (Offers(q, t)' <=> Offers(q, t)) /\ (Recorded(q, t, "target")' <=> Recorded(q, t, "target"))
        BY <1>5 DEF Offers, Recorded
  <2>3. ~Is(p, "prepared")'
        BY <1>4, <1>8 DEF Is, Arrived
  <2>4. \A q \in Planes, t \in Transfers : ~Offers(q, t)
    <3> SUFFICES ASSUME NEW q \in Planes, NEW t \in Transfers, Offers(q, t) PROVE FALSE
        OBVIOUS
    <3>1. Held(q) /\ Tip(q, conversations[q].epoch)
          BY DEF AuthorityInv, Claims
    <3>2. q = p
          BY <1>1, <1>4, <3>1, HeldRow, OneTip
    <3> QED BY <2>1, <3>2
  <2>5. \A q \in Planes, t \in Transfers :
            Recorded(q, t, "target")' /\ transfers'[q][t].phase = "prepared" /\ Is(q, "prepared")' =>
            transfers'[q][t].content = conversations'[q].content
        BY <1>5, <1>6, <1>9, <2>2, <2>3 DEF ContentInv, Offered
  <2> QED BY <2>2, <2>4, <2>5 DEF Offered
<1>16. Bundled'
       BY <1>5, <1>11 DEF ContentInv, Bundled
<1>17. Planned'
  <2>1. ASSUME NEW q \in Planes, preparing[q] /= NoPlan, NEW f \in Nat, Arrived(q, f)', Tip(q, f)
        PROVE  Kept(preparing[q].content)'
    <3>1. q = p /\ f = e
          BY <1>1, <1>4, <2>1, OneTip
    <3>2. Kept(preparing[p].content) /\ preparing[p].content \in Nat
          BY <1>1, <1>4, <2>1, <3>1 DEF ContentInv, Planned, TypeOK
    <3> QED BY <1>2, <1>5, <2>1, <3>1, <3>2 DEF Kept
  <2> QED BY <1>5, <1>11, <2>1 DEF ContentInv, Planned
<1> QED BY <1>12, <1>13, <1>14, <1>15, <1>16, <1>17 DEF ContentInv

(* A prepare reads what its Plane holds, and chooses a new identity or one *)
(* that its Plane has recorded.                                            *)
LEMMA ReadsContent ==
    ASSUME AuthorityInv, ContentInv, NEW p \in Planes, NEW q \in Planes, PrepareReads(p, q)
    PROVE  ContentInv'
<1>1. TypeOK
      BY DEF AuthorityInv
<1>2. UNCHANGED <<conversations, transfers, bundles, documents, written, unseen>>
      BY DEF PrepareReads, stores, clients
<1>3. PICK new \in plan(p, q) :
        /\ new.recorded \/ new.transfer \in Fresh
        /\ preparing' = [preparing EXCEPT ![p] = new]
      BY DEF PrepareReads
<1>4. new.transfer \in Transfers /\ new.recorded \in BOOLEAN
      BY <1>1, <1>3, PlanType
<1>5. new.content = conversations[p].content
      BY <1>3 DEF plan, Continues, Begins
<1>6. new.recorded => transfers[p][new.transfer] /= NoRow
      BY <1>3 DEF plan, Continues, Begins, Recorded
<1>7. preparing'[p] = new /\ \A r \in Planes : r /= p => preparing'[r] = preparing[r]
      BY <1>1, <1>3 DEF TypeOK
<1>8. /\ OneContent' /\ Carried' /\ Worked' /\ Offered' /\ Bundled'
      BY <1>2 DEF ContentInv, OneContent, Copy, Carried, Deliverable, Arrived, Tip, Owner, Worked,
                  has_live_work, Offered, Offers, Recorded, Held, Is, Bundled, Kept
<1>9. Planned'
  <2>1. /\ preparing'[p].transfer \in Transfers
        /\ \A e \in Nat : Arrived(p, e)' /\ Tip(p, e)' => Kept(preparing[p].content)'
    <3>1. ASSUME NEW e \in Nat, Arrived(p, e)', Tip(p, e)'
          PROVE  Kept(preparing[p].content)'
      <4>1. Arrived(p, e) /\ Tip(p, e)
            BY <1>2, <3>1 DEF Arrived, Held, Tip, Owner
      <4>2. Kept(conversations[p].content)
            BY <4>1 DEF ContentInv, Worked
      <4> QED BY <1>2, <1>5, <1>7, <4>2 DEF Kept
    <3> QED BY <1>4, <1>7, <3>1
  <2>2. ASSUME ~new.recorded
        PROVE  /\ \A r \in Planes : transfers'[r][new.transfer] = NoRow
               /\ \A b \in bundles' : b.transfer /= new.transfer
               /\ \A r \in Planes : r /= p => preparing'[r].transfer /= new.transfer
        BY <1>2, <1>3, <1>7, <2>2 DEF Fresh
  <2>3. ASSUME NEW r \in Planes, r /= p, preparing[r] /= NoPlan, ~preparing[r].recorded
        PROVE  preparing[r].transfer /= new.transfer
    <3>1. \A s \in Planes : transfers[s][preparing[r].transfer] = NoRow
          BY <2>3 DEF ContentInv, Planned
    <3> QED BY <1>3, <1>6, <3>1 DEF Fresh
  <2>4. \A r \in Planes : r /= p /\ preparing[r] /= NoPlan =>
            /\ preparing[r].transfer \in Transfers
            /\ \A f \in Nat : Arrived(r, f) /\ Tip(r, f) => Kept(preparing[r].content)
            /\ ~preparing[r].recorded =>
                /\ \A s \in Planes : transfers[s][preparing[r].transfer] = NoRow
                /\ \A b \in bundles : b.transfer /= preparing[r].transfer
                /\ \A s \in Planes : s /= r => preparing[s].transfer /= preparing[r].transfer
        BY DEF ContentInv, Planned
  <2>5. \A r \in Planes, f \in Nat : Arrived(r, f)' /\ Tip(r, f)' => Arrived(r, f) /\ Tip(r, f)
        BY <1>2 DEF Held, Arrived, Tip, Owner
  <2> SUFFICES ASSUME NEW r \in Planes, preparing'[r] /= NoPlan
               PROVE  /\ preparing'[r].transfer \in Transfers
                      /\ \A f \in Nat : Arrived(r, f)' /\ Tip(r, f)' => Kept(preparing[r].content)'
                      /\ ~preparing'[r].recorded =>
                          /\ \A s \in Planes : transfers'[s][preparing'[r].transfer] = NoRow
                          /\ \A b \in bundles' : b.transfer /= preparing'[r].transfer
                          /\ \A s \in Planes : s /= r => preparing'[s].transfer /= preparing'[r].transfer
      BY DEF Planned
  <2>6. CASE r = p
        BY <1>7, <2>1, <2>2, <2>6
  <2>7. CASE r /= p
    <3>1. preparing'[r] = preparing[r]
          BY <1>7, <2>7
    <3>2. \A f \in Nat : Arrived(r, f)' /\ Tip(r, f)' => Kept(preparing[r].content)'
          BY <1>2, <2>4, <2>5, <2>7, <3>1 DEF Kept
    <3> QED BY <1>2, <1>7, <2>3, <2>4, <2>7, <3>1, <3>2
  <2> QED BY <2>6, <2>7
<1> QED BY <1>8, <1>9 DEF ContentInv

(* The Home records what it read, under its identity: one more copy of     *)
(* everything that was written, or of all but what the prepare missed.     *)
LEMMA RecordsContent ==
    ASSUME AuthorityInv, ContentInv, NEW p \in Planes, PrepareRecords(p)
    PROVE  ContentInv'
<1>1. TypeOK /\ Chain
      BY DEF AuthorityInv
<1>2. PICK mine : mine = preparing[p]
      OBVIOUS
<1>3. PICK now \in plan(p, mine.target) :
        now.transfer = mine.transfer /\ now.recorded = mine.recorded
      BY <1>2 DEF PrepareRecords
<1>4. /\ mine /= NoPlan /\ mine.target \in Planes /\ mine.content \in Nat
      BY <1>1, <1>2 DEF PrepareRecords, TypeOK
<1>5. mine.transfer \in Transfers /\ Held(p) /\ Is(p, "home") /\ p /= mine.target
      BY <1>1, <1>3, <1>4, PlanType DEF plan
<1>6. PICK e \in Nat : e = conversations[p].epoch
      BY <1>1, <1>5, HeldRow
<1>7. /\ Tip(p, e) /\ Owner(p, e) /\ Arrived(p, e) /\ Kept(mine.content)
      BY <1>2, <1>4, <1>5, <1>6 DEF AuthorityInv, Claims, Tip, Arrived, Is, ContentInv, Planned
<1>8. PICK bundle : bundle = [transfer |-> mine.transfer, source |-> p, target |-> mine.target,
                              retired |-> e, content |-> mine.content]
      OBVIOUS
<1>9. PICK row : row = [role |-> "source", phase |-> "prepared", peer |-> mine.target,
                        retired |-> e, content |-> mine.content]
      OBVIOUS
<1>10. /\ UNCHANGED <<conversations, documents, written, unseen>>
       /\ bundles' = bundles \union {bundle}
       /\ preparing' = [preparing EXCEPT ![p] = NoPlan]
       BY <1>2, <1>6, <1>8 DEF PrepareRecords
<1>11. /\ preparing'[p] = NoPlan
       /\ \A q \in Planes : q /= p => preparing'[q] = preparing[q]
       BY <1>1, <1>10 DEF TypeOK
<1>12. \/ /\ mine.recorded /\ UNCHANGED transfers
          /\ transfers[p][mine.transfer].content = mine.content
       \/ /\ ~mine.recorded
          /\ transfers' = [transfers EXCEPT ![p] = [transfers[p] EXCEPT ![mine.transfer] = row]]
       BY <1>1, <1>2, <1>5, <1>6, <1>9 DEF PrepareRecords, TypeOK
<1>13. mine.recorded => transfers[p][mine.transfer] /= NoRow
  <2>1. mine.recorded => now \in Continues(p, mine.target)
    <3>1. now \in Begins(p, mine.target) => now.recorded = FALSE
          BY DEF Begins
    <3>2. now \in Continues(p, mine.target) \union Begins(p, mine.target)
          BY <1>3 DEF plan
    <3> QED BY <1>3, <3>1, <3>2
  <2>2. now \in Continues(p, mine.target) => transfers[p][now.transfer] /= NoRow
        BY DEF Continues, Recorded
  <2> QED BY <1>3, <2>1, <2>2
<1>14. ~mine.recorded => ~has_live_work(p)
  <2>1. now \in Continues(p, mine.target) => now.recorded
        BY DEF Continues
  <2> QED BY <1>3, <2>1 DEF plan, Begins
<1>15. ~mine.recorded => \A c : ~Copy(mine.transfer, c)
       BY <1>2, <1>4 DEF ContentInv, Planned, Copy
<1>16. \A q \in Planes, t \in Transfers :
         \/ transfers'[q][t] = transfers[q][t]
         \/ q = p /\ t = mine.transfer /\ transfers'[q][t] = row /\ ~mine.recorded
       BY <1>1, <1>5, <1>12 DEF TypeOK
<1>17. \A q, f : (Owner(q, f)' <=> Owner(q, f)) /\ (Tip(q, f)' <=> Tip(q, f))
       BY <1>10 DEF Owner, Tip
<1>18. \A q \in Planes : \A f : Arrived(q, f)' <=> Arrived(q, f)
       BY <1>10 DEF Arrived, Held
<1>19. OneContent'
  <2>1. \A t \in Transfers, c \in Nat : Copy(t, c)' =>
            Copy(t, c) \/ (t = mine.transfer /\ c = mine.content)
        BY <1>8, <1>9, <1>10, <1>16 DEF Copy
  <2>2. mine.recorded => Copy(mine.transfer, mine.content)
        BY <1>12, <1>13 DEF Copy
  <2> QED BY <1>4, <1>15, <2>1, <2>2 DEF ContentInv, OneContent
<1>20. Carried'
  <2> SUFFICES ASSUME NEW d \in documents, Tip(d.target, d.retired + 1)
               PROVE  Arrived(d.target, d.retired + 1)'
      BY <1>10, <1>17 DEF Carried
  <2>1. d.retired + 1 \in Nat
        BY <1>1, DocumentType
  <2>2. d.retired + 1 = e /\ d.target = p
        BY <1>1, <1>7, <2>1, OneTip
  <2> QED BY <1>7, <1>18, <2>2
<1>21. Worked'
       BY <1>10, <1>17, <1>18 DEF ContentInv, Worked, Held, has_live_work, Kept
<1>22. Offered'
  <2> SUFFICES ASSUME NEW q \in Planes, NEW t \in Transfers
               PROVE  /\ Offers(q, t)' =>
                           /\ ~has_live_work(q)' /\ conversations'[q].authority /= "prepared"
                           /\ Kept(transfers[q][t].content)'
                      /\ Recorded(q, t, "target")' /\ transfers'[q][t].phase = "prepared" /\ Is(q, "prepared")' =>
                           transfers'[q][t].content = conversations'[q].content
      BY DEF Offered
  <2>1. (has_live_work(q)' <=> has_live_work(q)) /\ (Is(q, "prepared")' <=> Is(q, "prepared"))
        BY <1>10 DEF has_live_work, Is, Held
  <2>2. CASE transfers'[q][t] = transfers[q][t]
    <3>1. (Offers(q, t)' <=> Offers(q, t)) /\ (Recorded(q, t, "target")' <=> Recorded(q, t, "target"))
          BY <2>2 DEF Offers, Recorded
    <3> QED BY <1>10, <2>1, <2>2, <3>1 DEF ContentInv, Offered, Kept
  <2>3. CASE q = p /\ transfers'[q][t] = row /\ ~mine.recorded
    <3>1. row.role = "source" /\ row.content = mine.content
          BY <1>9
    <3>2. ~Recorded(q, t, "target")'
          BY <2>3, <3>1 DEF Recorded
    <3>3. Kept(transfers[q][t].content)'
          BY <1>7, <1>10, <2>3, <3>1 DEF Kept
    <3> QED BY <1>5, <1>10, <1>14, <2>1, <2>3, <3>2, <3>3 DEF Is
  <2> QED BY <1>16, <2>2, <2>3
<1>23. Bundled'
  <2>1. bundle.source = p /\ bundle.target = mine.target /\ bundle.retired = e
        BY <1>8
  <2> QED BY <1>5, <1>7, <1>10, <1>17, <2>1 DEF ContentInv, Bundled
<1>24. Planned'
  <2> SUFFICES ASSUME NEW r \in Planes, r /= p, preparing[r] /= NoPlan
               PROVE  /\ preparing[r].transfer \in Transfers
                      /\ \A f \in Nat : Arrived(r, f) /\ Tip(r, f) => Kept(preparing[r].content)
                      /\ ~preparing[r].recorded =>
                          /\ \A s \in Planes : transfers'[s][preparing[r].transfer] = NoRow
                          /\ \A b \in bundles' : b.transfer /= preparing[r].transfer
                          /\ \A s \in Planes : s /= r => preparing'[s].transfer /= preparing[r].transfer
    <3> QED BY <1>10, <1>11, <1>17, <1>18 DEF Planned, Kept
  <2>1. /\ preparing[r].transfer \in Transfers
        /\ \A f \in Nat : Arrived(r, f) /\ Tip(r, f) => Kept(preparing[r].content)
        /\ ~preparing[r].recorded =>
             /\ \A s \in Planes : transfers[s][preparing[r].transfer] = NoRow
             /\ \A b \in bundles : b.transfer /= preparing[r].transfer
             /\ \A s \in Planes : s /= r => preparing[s].transfer /= preparing[r].transfer
        BY DEF ContentInv, Planned
  <2>2. ~preparing[r].recorded => preparing[r].transfer /= mine.transfer
        BY <1>2, <2>1
  <2>3. bundle.transfer = mine.transfer
        BY <1>8
  <2>4. NoPlan.transfer \notin Transfers
        BY TransferAssumption DEF NoPlan
  <2>5. ASSUME ~preparing[r].recorded
        PROVE  /\ \A s \in Planes : transfers'[s][preparing[r].transfer] = NoRow
               /\ \A b \in bundles' : b.transfer /= preparing[r].transfer
        BY <1>10, <1>16, <2>1, <2>2, <2>3, <2>5
  <2>6. ASSUME ~preparing[r].recorded, NEW s \in Planes, s /= r
        PROVE  preparing'[s].transfer /= preparing[r].transfer
        BY <1>11, <2>1, <2>4, <2>6
  <2> QED BY <2>1, <2>5, <2>6
<1> QED BY <1>19, <1>20, <1>21, <1>22, <1>23, <1>24 DEF ContentInv

(* What an import takes over a bundle offered already, and its Plane was   *)
(* not at Home in the last epoch: only another Plane, the owner of that    *)
(* epoch or of an earlier one, could have sent the bundle.                 *)
LEMMA ImportContent ==
    ASSUME AuthorityInv, ContentInv, NEW b \in bundles, import(b)
    PROVE  ContentInv'
<1>1. TypeOK /\ Chain
      BY DEF AuthorityInv
<1>2. PICK q \in Planes : q = b.target
      BY <1>1, BundleType
<1>3. /\ b.transfer \in Transfers /\ b.retired \in Nat /\ b.content \in Nat
      /\ b.source \in Planes /\ b.source /= q /\ Owner(b.source, b.retired)
      BY <1>1, <1>2, BundleType DEF TypeOK, ContentInv, Bundled
<1>4. /\ UNCHANGED <<preparing, bundles, documents, written, unseen>> /\ preparing[q] = NoPlan
      /\ Held(q) => conversations[q].epoch < b.retired + 1
      BY <1>2 DEF import, clients
<1>5. PICK row : row = [authority |-> "prepared", epoch |-> b.retired + 1,
                        content |-> b.content, busy |-> FALSE, trash |-> "none"]
      OBVIOUS
<1>6. PICK record : record = [role |-> "target", phase |-> "prepared", peer |-> b.source,
                              retired |-> b.retired, content |-> b.content]
      OBVIOUS
<1>7. /\ conversations' = [conversations EXCEPT ![q] = row]
      /\ transfers' = [transfers EXCEPT ![q] = [NoTransfers EXCEPT ![b.transfer] = record]]
      BY <1>2, <1>5, <1>6 DEF import, Changes
<1>8. /\ conversations'[q] = row
      /\ \A p \in Planes : p /= q => conversations'[p] = conversations[p]
      BY <1>1, <1>7 DEF TypeOK
<1>9. \A p \in Planes, t \in Transfers :
        /\ p /= q => transfers'[p][t] = transfers[p][t]
        /\ p = q /\ t /= b.transfer => transfers'[p][t] = NoRow
        /\ p = q /\ t = b.transfer => transfers'[p][t] = record
      BY <1>1, <1>3, <1>7 DEF TypeOK, NoTransfers
<1>10. \A p, e : (Owner(p, e)' <=> Owner(p, e)) /\ (Tip(p, e)' <=> Tip(p, e))
       BY <1>4 DEF Owner, Tip
<1>11. /\ ~has_live_work(q)' /\ conversations'[q].authority = "prepared"
       /\ conversations'[q].content = b.content
       BY <1>5, <1>8 DEF has_live_work
<1>12. \A e : ~Arrived(q, e)'
       BY <1>11 DEF Arrived
<1>13. \A p \in Planes : p /= q =>
         /\ Held(p)' <=> Held(p)
         /\ has_live_work(p)' <=> has_live_work(p)
         /\ \A e : Arrived(p, e)' <=> Arrived(p, e)
         /\ Is(p, "prepared")' <=> Is(p, "prepared")
       BY <1>8 DEF Held, has_live_work, Arrived, Is
<1>14. record.content = b.content /\ record.role = "target"
       BY <1>6
<1>15. \A t \in Transfers : \A c : Copy(t, c)' => Copy(t, c)
       BY <1>4, <1>9, <1>14 DEF Copy
<1>16. \A p \in Planes, t \in Transfers : \A c : Deliverable(p, t, c)' => Deliverable(p, t, c)
       BY <1>2, <1>4, <1>9, <1>14 DEF Deliverable
<1>17. OneContent'
       BY <1>15 DEF ContentInv, OneContent
<1>18. Carried'
  <2> SUFFICES ASSUME NEW d \in documents, Tip(d.target, d.retired + 1),
                      ~Arrived(d.target, d.retired + 1)',
                      NEW c \in Nat, Deliverable(d.target, d.transfer, c)'
               PROVE  Kept(c)
      BY <1>4, <1>10 DEF Carried, Kept
  <2>1. d.target \in Planes /\ d.transfer \in Transfers /\ d.retired \in Nat
        BY <1>1 DEF TypeOK
  <2>2. Deliverable(d.target, d.transfer, c)
        BY <1>16, <2>1
  <2>3. ~Arrived(d.target, d.retired + 1)
    <3>1. CASE d.target /= q
          BY <1>13, <2>1, <3>1
    <3>2. CASE d.target = q /\ Arrived(d.target, d.retired + 1)
      <4>1. d.retired + 1 < b.retired + 1
            BY <1>4, <3>2 DEF Arrived
      <4>2. Tip(b.source, b.retired)
        <5>1. \A f \in documents : f.retired \in Nat /\ f.retired < d.retired + 1
              BY <1>1, DocumentType DEF Tip
        <5>2. \A f \in documents : f.retired < b.retired
              BY <1>3, <2>1, <4>1, <5>1
        <5> QED BY <1>3, <5>2 DEF Tip
      <4>3. d.retired + 1 \in Nat
            BY <2>1
      <4>4. b.source = q
            BY <1>1, <1>3, <3>2, <4>2, <4>3, OneTip
      <4> QED BY <1>3, <4>4
    <3> QED BY <3>1, <3>2
  <2> QED BY <2>2, <2>3 DEF ContentInv, Carried
<1>19. Worked'
       BY <1>4, <1>8, <1>10, <1>11, <1>12, <1>13 DEF ContentInv, Worked, Kept
<1>20. Offered'
  <2> SUFFICES ASSUME NEW p \in Planes, NEW t \in Transfers
               PROVE  /\ Offers(p, t)' =>
                           /\ ~has_live_work(p)' /\ conversations'[p].authority /= "prepared"
                           /\ Kept(transfers[p][t].content)'
                      /\ Recorded(p, t, "target")' /\ transfers'[p][t].phase = "prepared" /\ Is(p, "prepared")' =>
                           transfers'[p][t].content = conversations'[p].content
      BY DEF Offered
  <2>1. CASE p = q /\ t /= b.transfer
        BY <1>9, <2>1 DEF Offers, Recorded
  <2>2. CASE p = q /\ t = b.transfer
        BY <1>9, <1>11, <1>14, <2>2 DEF Offers, Recorded
  <2>3. CASE p /= q
    <3>1. (Offers(p, t)' <=> Offers(p, t)) /\ (Recorded(p, t, "target")' <=> Recorded(p, t, "target"))
          BY <1>9, <2>3 DEF Offers, Recorded
    <3> QED BY <1>4, <1>8, <1>9, <1>13, <2>3, <3>1 DEF ContentInv, Offered, Kept
  <2> QED BY <2>1, <2>2, <2>3
<1>21. Bundled'
       BY <1>4, <1>10 DEF ContentInv, Bundled
<1>22. Planned'
  <2> SUFFICES ASSUME NEW r \in Planes, r /= q, preparing[r] /= NoPlan
               PROVE  /\ preparing[r].transfer \in Transfers
                      /\ \A f \in Nat : Arrived(r, f) /\ Tip(r, f) => Kept(preparing[r].content)
                      /\ ~preparing[r].recorded =>
                          /\ \A s \in Planes : transfers'[s][preparing[r].transfer] = NoRow
                          /\ \A c \in bundles : c.transfer /= preparing[r].transfer
                          /\ \A s \in Planes : s /= r => preparing[s].transfer /= preparing[r].transfer
      BY <1>4, <1>10, <1>12, <1>13 DEF Planned, Kept
  <2>1. /\ preparing[r].transfer \in Transfers
        /\ \A f \in Nat : Arrived(r, f) /\ Tip(r, f) => Kept(preparing[r].content)
        /\ ~preparing[r].recorded =>
             /\ \A s \in Planes : transfers[s][preparing[r].transfer] = NoRow
             /\ \A c \in bundles : c.transfer /= preparing[r].transfer
             /\ \A s \in Planes : s /= r => preparing[s].transfer /= preparing[r].transfer
        BY DEF ContentInv, Planned
  <2>2. ~preparing[r].recorded => \A s \in Planes : transfers'[s][preparing[r].transfer] = NoRow
        BY <1>9, <2>1
  <2> QED BY <2>1, <2>2
<1> QED BY <1>17, <1>18, <1>19, <1>20, <1>21, <1>22 DEF ContentInv

(* The fence passes on everything: whatever any bundle or record of this   *)
(* transfer says is what its source holds, and no work is left anywhere.   *)
LEMMA RelinquishContent ==
    ASSUME AuthorityInv, ContentInv, NEW b \in bundles, relinquish(b)
    PROVE  ContentInv'
<1>1. TypeOK /\ Chain
      BY DEF AuthorityInv
<1>2. PICK p \in Planes, t \in Transfers : p = b.source /\ t = b.transfer
      BY <1>1, BundleType
<1>3. Relinquishable(b.source, b)
      BY DEF relinquish
<1>4. /\ Offers(p, t) /\ Held(p) /\ conversations[p] \in Rows
      /\ transfers[p][t] \in TransferRows /\ transfers[p][t].retired = conversations[p].epoch
      /\ Tip(p, conversations[p].epoch) /\ conversations[p].epoch \in Nat
      BY <1>2, <1>3, RelinquishableOffer
<1>5. PICK e \in Nat : e = conversations[p].epoch
      BY <1>4
<1>6. /\ ~has_live_work(p) /\ Arrived(p, e) /\ Tip(p, e) /\ Owner(p, e)
      /\ Kept(transfers[p][t].content) /\ Kept(conversations[p].content)
      BY <1>4, <1>5 DEF ContentInv, Offered, Worked, Arrived
<1>7. PICK new : new = fence(p, t)
      OBVIOUS
<1>8. new.transfer = t /\ new.target = transfers[p][t].peer /\ new.retired = e /\ new.target \in Planes
      BY <1>4, <1>5, <1>7 DEF fence, TransferRows
<1>9. UNCHANGED <<preparing, bundles, written, unseen>> /\ documents' = documents \union {new}
      BY <1>2, <1>7 DEF relinquish
<1>10. /\ conversations'[p] = Tombstone(conversations[p], e)
       /\ \A q \in Planes : q /= p => conversations'[q] = conversations[q]
       BY <1>1, <1>2, <1>4, <1>5 DEF relinquish, Changes, TypeOK
<1>11. /\ Held(p)' /\ conversations'[p].authority = "relinquished"
       /\ conversations'[p].epoch = e /\ conversations'[p].content = conversations[p].content
       /\ ~has_live_work(p)'
  <2>1. Tombstone(conversations[p], e) \in Rows
        BY <1>4 DEF Tombstone, Rows, Authorities, Trash
  <2>2. /\ Tombstone(conversations[p], e).authority = "relinquished"
        /\ Tombstone(conversations[p], e).epoch = e
        /\ Tombstone(conversations[p], e).content = conversations[p].content
        /\ Tombstone(conversations[p], e).busy = conversations[p].busy
        BY <1>4 DEF Tombstone, Rows
  <2> QED BY <1>6, <1>10, <2>1, <2>2, TransferAssumption DEF Held, has_live_work
<1>12. transfers' = [transfers EXCEPT ![p] = [transfers[p] EXCEPT ![t] =
            [transfers[p][t] EXCEPT !.phase = "relinquished"]]]
       BY <1>1, <1>2 DEF relinquish, TypeOK
<1>13. \A q \in Planes, u \in Transfers :
         \/ transfers'[q][u] = transfers[q][u]
         \/ /\ q = p /\ u = t /\ transfers'[q][u].phase = "relinquished"
            /\ transfers'[q][u].content = transfers[q][u].content
            /\ transfers'[q][u] /= NoRow /\ transfers[q][u] /= NoRow
  <2> TAKE q \in Planes, u \in Transfers
  <2>1. CASE ~(q = p /\ u = t)
        BY <1>1, <1>12, <2>1 DEF TypeOK
  <2>2. CASE q = p /\ u = t
    <3>1. transfers'[p][t] = [transfers[p][t] EXCEPT !.phase = "relinquished"]
          BY <1>1, <1>12 DEF TypeOK
    <3>2. [transfers[p][t] EXCEPT !.phase = "relinquished"] \in TransferRows
          BY <1>4 DEF TransferRows
    <3> QED BY <1>4, <2>2, <3>1, <3>2, TransferAssumption DEF TransferRows
  <2> QED BY <2>1, <2>2
<1>14. \A q \in Planes, u \in Transfers :
         /\ transfers'[q][u].content = transfers[q][u].content
         /\ transfers'[q][u] = NoRow <=> transfers[q][u] = NoRow
       BY <1>13
<1>15. \A u \in Transfers, c \in Nat : Copy(u, c)' <=> Copy(u, c)
       BY <1>9, <1>14 DEF Copy
<1>16. \A q \in Planes, u \in Transfers, c \in Nat : Deliverable(q, u, c)' <=> Deliverable(q, u, c)
       BY <1>9, <1>14 DEF Deliverable
<1>17. \A d \in documents : d.retired \in Nat /\ d.retired < e /\ d.target \in Planes
       BY <1>1, <1>6, DocumentType DEF Tip
<1>18. \A q, f : Owner(q, f) => Owner(q, f)'
       BY <1>9 DEF Owner
<1>19. e >= 1
       BY <1>6, <1>17 DEF Owner
<1>20. ASSUME NEW q, NEW f \in Nat, Tip(q, f)'
       PROVE  f > e /\ ~Owner(q, f)
  <2>1. f > e
        BY <1>8, <1>9, <1>20 DEF Tip
  <2> QED BY <1>17, <1>19, <2>1 DEF Owner
<1>21. OneContent'
       BY <1>15 DEF ContentInv, OneContent
<1>22. Carried'
  <2> SUFFICES ASSUME NEW d \in documents', Tip(d.target, d.retired + 1)',
                      NEW c \in Nat, Deliverable(d.target, d.transfer, c)'
               PROVE  Kept(c)
      BY <1>9 DEF Carried, Kept
  <2>1. d = new
    <3>1. CASE d \in documents
      <4>1. d.retired + 1 \in Nat /\ d.retired + 1 <= e
            BY <1>17, <3>1
      <4>2. d.retired + 1 > e
            BY <1>20, <4>1
      <4> QED BY <4>1, <4>2
    <3> QED BY <1>9, <3>1
  <2>2. Copy(t, c)
        BY <1>8, <1>16, <2>1, DeliverableIsCopy
  <2>3. transfers[p][t].content \in Nat /\ Copy(t, transfers[p][t].content)
        BY <1>4 DEF TransferRows, Copy, Offers, Recorded
  <2>4. c = transfers[p][t].content
        BY <2>2, <2>3 DEF ContentInv, OneContent
  <2> QED BY <1>6, <2>4
<1>23. Worked'
  <2>1. \A q \in Planes : q /= p =>
          /\ Held(q)' <=> Held(q)
          /\ has_live_work(q)' <=> has_live_work(q)
          /\ \A f : Arrived(q, f)' <=> Arrived(q, f)
        BY <1>10 DEF Held, has_live_work, Arrived
  <2>2. ASSUME NEW q \in Planes, q /= p, Held(q), has_live_work(q)
        PROVE  FALSE
    <3>1. PICK f \in Nat : f = conversations[q].epoch
          BY <1>1, <2>2, HeldRow
    <3>2. Tip(q, f)
          BY <2>2, <3>1 DEF ContentInv, Worked, Arrived
    <3> QED BY <1>1, <1>6, <2>2, <3>2, OneTip
  <2>3. \A f \in Nat : Arrived(p, f)' => f = e
        BY <1>11 DEF Arrived
  <2>4. ASSUME NEW q \in Planes, NEW f \in Nat, Arrived(q, f)'
        PROVE  Owner(q, f) /\ ~has_live_work(q)'
    <3>1. CASE q = p
          BY <1>6, <1>11, <2>3, <2>4, <3>1
    <3>2. CASE q /= p
      <4>1. Arrived(q, f) /\ Held(q)
            BY <2>1, <2>4, <3>2 DEF Arrived
      <4> QED BY <2>1, <2>2, <3>2, <4>1 DEF ContentInv, Worked
    <3> QED BY <3>1, <3>2
  <2> QED BY <1>11, <1>18, <1>20, <2>1, <2>2, <2>4 DEF Worked
<1>24. Offered'
  <2> SUFFICES ASSUME NEW q \in Planes, NEW u \in Transfers
               PROVE  /\ Offers(q, u)' =>
                           /\ ~has_live_work(q)' /\ conversations'[q].authority /= "prepared"
                           /\ Kept(transfers[q][u].content)'
                      /\ Recorded(q, u, "target")' /\ transfers'[q][u].phase = "prepared" /\ Is(q, "prepared")' =>
                           transfers'[q][u].content = conversations'[q].content
      BY DEF Offered
  <2>1. CASE q = p
    <3>1. ~Is(q, "prepared")'
          BY <1>11, <2>1 DEF Is
    <3>2. Offers(q, u)' => Offers(q, u)
          BY <1>13 DEF Offers, Recorded
    <3>3. Offers(q, u) => Kept(transfers[q][u].content)
          BY DEF ContentInv, Offered
    <3> QED BY <1>9, <1>11, <1>14, <2>1, <3>1, <3>2, <3>3 DEF Kept
  <2>2. CASE q /= p
    <3>1. /\ transfers'[q][u] = transfers[q][u] /\ conversations'[q] = conversations[q]
          BY <1>10, <1>13, <2>2
    <3>2. /\ Offers(q, u)' <=> Offers(q, u)
          /\ Recorded(q, u, "target")' <=> Recorded(q, u, "target")
          /\ Is(q, "prepared")' <=> Is(q, "prepared")
          /\ has_live_work(q)' <=> has_live_work(q)
          BY <3>1 DEF Offers, Recorded, Is, Held, has_live_work
    <3> QED BY <1>9, <3>1, <3>2 DEF ContentInv, Offered, Kept
  <2> QED BY <2>1, <2>2
<1>25. Bundled'
       BY <1>9, <1>18 DEF ContentInv, Bundled
<1>26. Planned'
  <2>1. ASSUME NEW q \in Planes, NEW f \in Nat, Arrived(q, f)', Tip(q, f)'
        PROVE  FALSE
    <3>1. f > e /\ ~Owner(q, f)
          BY <1>20, <2>1
    <3>2. CASE q = p
          BY <1>11, <2>1, <3>1, <3>2 DEF Arrived
    <3>3. CASE q /= p
      <4>1. Arrived(q, f)
            BY <1>10, <2>1, <3>3 DEF Arrived, Held
      <4> QED BY <3>1, <4>1 DEF ContentInv, Worked
    <3> QED BY <3>2, <3>3
  <2> QED BY <1>9, <1>14, <2>1 DEF ContentInv, Planned
<1> QED BY <1>21, <1>22, <1>23, <1>24, <1>25, <1>26 DEF ContentInv

(* The target comes Home in the last epoch with the content of its record, *)
(* which is all that was written, or all but what a prepare missed.        *)
LEMMA CommitContent ==
    ASSUME AuthorityInv, ContentInv, NEW b \in bundles, NEW d \in documents, commit(b, d)
    PROVE  ContentInv'
<1>1. TypeOK /\ Chain
      BY DEF AuthorityInv
<1>2. PICK q \in Planes, t \in Transfers : q = b.target /\ t = b.transfer
      BY <1>1, BundleType
<1>3. /\ Is(q, "prepared") /\ Held(q) /\ conversations[q].epoch = transfers[q][t].retired + 1
      /\ Recorded(q, t, "target") /\ transfers[q][t].phase = "prepared" /\ Validates(d, q, t)
      BY <1>2 DEF commit, Presents, Is
<1>4. PICK e \in Nat : e = conversations[q].epoch
      BY <1>1, <1>3, HeldRow
<1>5. /\ d.retired + 1 = e /\ d.target = q /\ d.transfer = t /\ conversations[q] \in Rows
      /\ transfers[q][t] \in TransferRows /\ transfers[q][t].content \in Nat
      BY <1>1, <1>3, <1>4, HeldRow, RecordedRow DEF Validates, Recorded
<1>6. UNCHANGED <<preparing, bundles, documents, written, unseen>>
      BY DEF commit, clients
<1>7. /\ conversations'[q] = [conversations[q] EXCEPT !.authority = "home"]
      /\ \A p \in Planes : p /= q => conversations'[p] = conversations[p]
      BY <1>1, <1>2 DEF commit, Changes, TypeOK
<1>8. /\ Held(q)' /\ conversations'[q].authority = "home"
      /\ conversations'[q].epoch = e /\ conversations'[q].content = conversations[q].content
      /\ has_live_work(q)' <=> has_live_work(q)
  <2>1. [conversations[q] EXCEPT !.authority = "home"] \in Rows
        BY <1>5 DEF Rows, Authorities
  <2> QED BY <1>4, <1>5, <1>7, <2>1, TransferAssumption DEF Held, has_live_work, Rows
<1>9. ~has_live_work(q) /\ \A f : ~Arrived(q, f)
      BY <1>3 DEF ContentInv, Worked, Is, Arrived
<1>10. transfers' = [transfers EXCEPT ![q] = [transfers[q] EXCEPT ![t] =
            [transfers[q][t] EXCEPT !.phase = "committed"]]]
       BY <1>1, <1>2 DEF commit, TypeOK
<1>11. \A p \in Planes, u \in Transfers :
         \/ transfers'[p][u] = transfers[p][u]
         \/ /\ p = q /\ u = t /\ transfers'[p][u].phase = "committed"
            /\ transfers'[p][u].content = transfers[p][u].content
            /\ transfers'[p][u] /= NoRow /\ transfers[p][u] /= NoRow
  <2> TAKE p \in Planes, u \in Transfers
  <2>1. CASE ~(p = q /\ u = t)
        BY <1>1, <1>10, <2>1 DEF TypeOK
  <2>2. CASE p = q /\ u = t
    <3>1. transfers'[q][t] = [transfers[q][t] EXCEPT !.phase = "committed"]
          BY <1>1, <1>10 DEF TypeOK
    <3>2. [transfers[q][t] EXCEPT !.phase = "committed"] \in TransferRows
          BY <1>5 DEF TransferRows
    <3> QED BY <1>5, <2>2, <3>1, <3>2, TransferAssumption DEF TransferRows
  <2> QED BY <2>1, <2>2
<1>12. \A p \in Planes, u \in Transfers :
         /\ transfers'[p][u].content = transfers[p][u].content
         /\ transfers'[p][u] = NoRow <=> transfers[p][u] = NoRow
       BY <1>11
<1>13. \A u \in Transfers, c \in Nat : Copy(u, c)' <=> Copy(u, c)
       BY <1>6, <1>12 DEF Copy
<1>14. \A p \in Planes, u \in Transfers, c \in Nat : Deliverable(p, u, c)' <=> Deliverable(p, u, c)
       BY <1>6, <1>12 DEF Deliverable
<1>15. \A p, f : (Owner(p, f)' <=> Owner(p, f)) /\ (Tip(p, f)' <=> Tip(p, f))
       BY <1>6 DEF Owner, Tip
<1>16. \A p \in Planes : p /= q =>
         /\ Held(p)' <=> Held(p)
         /\ has_live_work(p)' <=> has_live_work(p)
         /\ \A f : Arrived(p, f)' <=> Arrived(p, f)
         /\ Is(p, "prepared")' <=> Is(p, "prepared")
       BY <1>7 DEF Held, has_live_work, Arrived, Is
<1>17. OneContent'
       BY <1>13 DEF ContentInv, OneContent
<1>18. Carried'
  <2>1. \A c \in documents : c.target \in Planes /\ c.transfer \in Transfers
        BY <1>1 DEF TypeOK
  <2>2. \A p \in Planes : \A f : Arrived(p, f) => Arrived(p, f)'
        BY <1>9, <1>16
  <2> QED BY <1>6, <1>14, <1>15, <2>1, <2>2 DEF ContentInv, Carried, Kept
<1>19. Tip(q, e) => Kept(conversations[q].content)
  <2>1. transfers[q][t].content = conversations[q].content
        BY <1>3 DEF ContentInv, Offered
  <2>2. Deliverable(q, t, transfers[q][t].content)
        BY <1>3 DEF Deliverable, Recorded
  <2> QED BY <1>5, <1>9, <2>1, <2>2 DEF ContentInv, Carried
<1>20. Worked'
  <2>1. Owner(q, e)
        BY <1>5 DEF Owner
  <2>2. \A f : Arrived(q, f)' => f = e
        BY <1>8 DEF Arrived
  <2>3. \A p \in Planes : p /= q => conversations'[p] = conversations[p]
        BY <1>7
  <2> SUFFICES ASSUME NEW p \in Planes, NEW f \in Nat
               PROVE  /\ Held(p)' /\ has_live_work(p)' => conversations'[p].authority /= "prepared"
                      /\ Arrived(p, f)' =>
                           /\ Owner(p, f)
                           /\ has_live_work(p)' => Tip(p, f)
                           /\ Tip(p, f) => Kept(conversations[p].content)'
      BY <1>6, <1>15 DEF Worked
  <2>4. CASE p = q
        BY <1>6, <1>8, <1>9, <1>19, <2>1, <2>2, <2>4 DEF Kept
  <2>5. CASE p /= q
        BY <1>6, <1>16, <2>3, <2>5 DEF ContentInv, Worked, Kept
  <2> QED BY <2>4, <2>5
<1>21. Offered'
  <2> SUFFICES ASSUME NEW p \in Planes, NEW u \in Transfers
               PROVE  /\ Offers(p, u)' =>
                           /\ ~has_live_work(p)' /\ conversations'[p].authority /= "prepared"
                           /\ Kept(transfers[p][u].content)'
                      /\ Recorded(p, u, "target")' /\ transfers'[p][u].phase = "prepared" /\ Is(p, "prepared")' =>
                           transfers'[p][u].content = conversations'[p].content
      BY DEF Offered
  <2>1. CASE p = q
    <3>1. ~Is(p, "prepared")'
          BY <1>8, <2>1 DEF Is
    <3>2. Offers(p, u)' => Offers(p, u)
          BY <1>11 DEF Offers, Recorded
    <3>3. ~Offers(p, u)
          BY <1>3, <2>1 DEF ContentInv, Offered, Is
    <3> QED BY <3>1, <3>2, <3>3
  <2>2. CASE p /= q
    <3>1. /\ transfers'[p][u] = transfers[p][u] /\ conversations'[p] = conversations[p]
          BY <1>7, <1>11, <2>2
    <3>2. /\ Offers(p, u)' <=> Offers(p, u)
          /\ Recorded(p, u, "target")' <=> Recorded(p, u, "target")
          BY <3>1 DEF Offers, Recorded
    <3> QED BY <1>6, <1>16, <2>2, <3>1, <3>2 DEF ContentInv, Offered, Kept
  <2> QED BY <2>1, <2>2
<1>22. Bundled'
       BY <1>6, <1>15 DEF ContentInv, Bundled
<1>23. Planned'
  <2>1. preparing[q] = NoPlan
        BY <1>2 DEF commit, Presents
  <2> QED BY <1>6, <1>12, <1>15, <1>16, <2>1 DEF ContentInv, Planned, Kept
<1> QED BY <1>17, <1>18, <1>20, <1>21, <1>22, <1>23 DEF ContentInv

LEMMA ContentStep ==
    ASSUME LateBundles = FALSE, AuthorityInv, ContentInv, [Next]_vars
    PROVE  ContentInv'
<1>1. CASE UNCHANGED vars
      BY <1>1, ShrinkStep DEF vars, Held
<1>2. ASSUME NEW p \in Planes,
             \/ Admits(p) \/ Completes(p) \/ Withdrawn(p)
             \/ forget(p) \/ stage_if_unprotected(p) \/ restore(p) \/ TombstoneExpires(p)
             \/ PrepareRecords(p) \/ PrepareFails(p) \/ Restart(p)
             \/ \E q \in Planes : PrepareReads(p, q)
             \/ \E t \in Transfers : abort(p, t)
      PROVE  ContentInv'
      BY <1>2, QuietContent, DeletionContent, AdmitsContent, CompletesContent, ReadsContent,
         RecordsContent
<1>3. ASSUME NEW b \in bundles,
             import(b) \/ relinquish(b) \/ RelinquishFails(b) \/ \E d \in documents : commit(b, d)
      PROVE  ContentInv'
      BY <1>3, ImportContent, RelinquishContent, RelinquishFailsContent, CommitContent
<1> QED BY <1>1, <1>2, <1>3 DEF Next

(* The Home lacks no turn that was ever completed but those completed      *)
(* inside a prepare (NothingLost), if no bundle reaches a Plane which has  *)
(* deleted the Conversation since (plane_transfer/prepare.rs, settle.rs,   *)
(* mod.rs).                                                                *)
THEOREM NothingIsLost == LateBundles = FALSE => (Spec => []NothingLost)
<1> SUFFICES ASSUME LateBundles = FALSE PROVE Spec => []NothingLost
    OBVIOUS
<1> DEFINE IInv == AuthorityInv /\ ContentInv
<1>1. Init => IInv
      BY InitAuthority, InitContent
<1>2. IInv /\ [Next]_vars => IInv'
      BY AuthorityStep, ContentStep
<1>3. IInv => NothingLost
  <2> SUFFICES ASSUME AuthorityInv, ContentInv, NEW p \in Homes
               PROVE  Kept(conversations[p].content)
      BY DEF NothingLost, Kept
  <2>1. p \in Planes /\ Is(p, "home") /\ Held(p)
        BY DEF Homes, Is
  <2>2. PICK e \in Nat : e = conversations[p].epoch
        BY <2>1, HeldRow DEF AuthorityInv
  <2>3. Arrived(p, e) /\ Tip(p, e)
        BY <2>1, <2>2 DEF AuthorityInv, Claims, Arrived, Is
  <2> QED BY <2>1, <2>3 DEF ContentInv, Worked
<1> HIDE DEF IInv
<1> QED BY <1>1, <1>2, <1>3, PTL DEF Spec
=============================================================================
