------------------------------- MODULE Pairing -------------------------------
(***************************************************************************)
(* What the pairing Commands do to the store of a Plane (jet-core          *)
(* pairing/, jet-store pairing/).  Each operator is the transaction of one *)
(* Command: from the store before it to the store after it, with what is   *)
(* answered and the client whose connections have to close.  RemoteAccess  *)
(* runs them.                                                              *)
(*                                                                         *)
(* A proof (the secret of an offer, the authentication string of a claim,  *)
(* the signature of its challenge) is right or wrong; the key of a client  *)
(* is named by the offer it was established with.                          *)
(***************************************************************************)
EXTENDS Integers

CONSTANTS
    Clients,
    NoClient,
    Window,         \* PAIRING_WINDOW_MS, in ticks
    MaxAttempts,    \* MAX_PAIRING_ATTEMPTS
    MaxOffers,      \* bound on the offers a Plane makes
    MaxTime         \* bound on the clock

ASSUME PairingAssumption ==
    /\ NoClient \notin Clients
    /\ Window \in Nat /\ MaxAttempts \in Nat \ {0}
    /\ MaxOffers \in Nat /\ MaxTime \in Nat

Offers ==
    [id : 0..MaxOffers, state : {"offered", "claimed", "invalidated", "none"},
     claimant : Clients \union {NoClient}, confirmed_by : Clients \union {NoClient},
     attempts : 0..MaxAttempts, expires : 0..(MaxTime + Window)]
PairedClients == [access : {"none", "enabled", "disabled"}, key : 0..MaxOffers]
(* issued counts the offers, which stand for fresh identities.             *)
Stores ==
    [gate : {"open", "closed"}, offer : Offers, issued : 0..MaxOffers,
     paired : [Clients -> PairedClients]]

NoOffer ==
    [id |-> 0, state |-> "none", claimant |-> NoClient, confirmed_by |-> NoClient,
     attempts |-> 0, expires |-> 0]
Unpaired == [access |-> "none", key |-> 0]
NewStore ==
    [gate |-> "closed", offer |-> NoOffer, issued |-> 0, paired |-> [c \in Clients |-> Unpaired]]

(* A refusal is an answer: what was written before it commits with it.     *)
Refused(store) == [store |-> store, answer |-> "refused", invalidates |-> NoClient]
Wrong(store) == [Refused(store) EXCEPT !.answer = "wrong"]
Done(store) == [store |-> store, answer |-> "applied", invalidates |-> NoClient]
Closes(client, store) == [Done(store) EXCEPT !.invalidates = client]

-----------------------------------------------------------------------------
(* How far an offer has got; its expiry is decided, never written.         *)
progress(offer, now) ==
    CASE offer.state \in {"none", "invalidated"} -> "ended"
      [] offer.state \in {"offered", "claimed"} /\ now > offer.expires -> "ended"
      [] OTHER -> IF offer.confirmed_by /= NoClient THEN "confirmed" ELSE offer.state

(* An offer is issued under a new identity and replaces the open one.      *)
open(store, now) ==
    IF store.gate = "closed" THEN Refused(store)
    ELSE Done([store EXCEPT !.issued = @ + 1,
                            !.offer = [NoOffer EXCEPT !.id = store.issued + 1, !.state = "offered",
                                                      !.expires = now + Window]])

(* Mutant: the refusal takes the count back with it.                       *)
count_failure_RolledBack(store) == Wrong(store)
(* One wrong proof; too many of them end the offer.                        *)
count_failure(store) ==
    LET attempts == store.offer.attempts + 1
    IN  Wrong([store EXCEPT !.offer.attempts = attempts,
                            !.offer.state = IF attempts >= MaxAttempts THEN "invalidated" ELSE @])

claim(store, client, right, now) ==
    CASE progress(store.offer, now) /= "offered" -> Refused(store)
      [] progress(store.offer, now) = "offered" /\ ~right -> count_failure(store)
      [] OTHER ->
            Done([store EXCEPT !.offer.state = "claimed", !.offer.claimant = client,
                               !.offer.expires = now + Window])

confirm(store, client, id, right, now) ==
    CASE \/ store.offer.id /= id \/ progress(store.offer, now) /= "claimed"
         \/ store.offer.claimant = client -> Refused(store)
      [] store.offer.id = id /\ progress(store.offer, now) = "claimed"
            /\ store.offer.claimant /= client /\ ~right -> count_failure(store)
      [] OTHER ->
            Done([store EXCEPT !.offer.confirmed_by = client, !.offer.expires = now + Window])

(* The client is recorded with its key and enabled, whatever was known of  *)
(* it before, and the offer is gone.                                       *)
complete(store, client, id, right, now) ==
    CASE \/ store.offer.id /= id \/ progress(store.offer, now) /= "confirmed"
         \/ store.offer.claimant /= client -> Refused(store)
      [] store.offer.id = id /\ progress(store.offer, now) = "confirmed"
            /\ store.offer.claimant = client /\ ~right -> count_failure(store)
      [] OTHER ->
            Closes(client,
                   [store EXCEPT !.paired[client] = [access |-> "enabled", key |-> id],
                                 !.offer = NoOffer])

-----------------------------------------------------------------------------
(* Mutant: a pairing that has begun may end.                               *)
end_open_offer_Kept(store, now) == store
(* A closing gate ends the offer that is still open.                       *)
end_open_offer(store, now) ==
    IF progress(store.offer, now) = "ended" THEN store
    ELSE [store EXCEPT !.offer.state = "invalidated"]

set_gate(store, gate, now) ==
    LET moved == [store EXCEPT !.gate = gate]
    IN  Done(IF gate = "closed" THEN end_open_offer(moved, now) ELSE moved)

set_access(store, client, access) ==
    LET written == [store EXCEPT !.paired[client].access = access]
    IN  CASE store.paired[client].access = "none" -> Refused(store)
          [] access = "disabled" /\ store.paired[client].access /= "none" -> Closes(client, written)
          [] OTHER -> Done(written)

revoke(store, client) ==
    IF store.paired[client].access = "none" THEN Refused(store)
    ELSE Closes(client, [store EXCEPT !.paired[client] = Unpaired])
=============================================================================
