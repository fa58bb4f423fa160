-------------------------- MODULE RemoteAccess_proofs --------------------------
(***************************************************************************)
(* Proofs about RemoteAccess, for any clients, connections, Commands,      *)
(* contents, retention, window and number of faults.                       *)
(***************************************************************************)
EXTENDS RemoteAccess, FiniteSetTheorems, TLAPS

(* What holds of the store of a Plane at every moment: an offer that may   *)
(* still be used has an attempt left and an open gate, and whoever         *)
(* confirmed it is not the client it is for.                               *)
Usable(s) == s.offer.state \in {"offered", "claimed"}
ValidStore(s, at) ==
    /\ s \in Stores
    /\ s.offer.id <= s.issued
    /\ Usable(s) => s.offer.attempts < MaxAttempts
    /\ Usable(s) /\ at <= s.offer.expires => s.gate = "open"
    /\ s.offer.state = "offered" => s.offer.confirmed_by = NoClient
    /\ s.offer.confirmed_by /= NoClient => s.offer.confirmed_by /= s.offer.claimant

(* What a pairing Command may do to it: whoever loses a key or access has  *)
(* to lose its connections, a new key has gone the whole way, and every    *)
(* wrong proof is counted against its offer.                               *)
KeepsAuthority(s, r) ==
    \A c \in Clients :
        \/ r.invalidates = c
        \/ /\ r.store.paired[c].key = s.paired[c].key
           /\ s.paired[c].access = "enabled" => r.store.paired[c].access = "enabled"
NewKeys(s, r) ==
    \A c \in Clients :
        r.store.paired[c].key /= s.paired[c].key /\ r.store.paired[c].key /= 0 =>
            /\ s.gate = "open"
            /\ s.offer.claimant = c /\ s.offer.confirmed_by \notin {NoClient, c}
Counts(s, r) ==
    \/ /\ r.answer = "wrong" /\ Usable(s) /\ r.store.issued = s.issued
       /\ r.store.offer.id = s.offer.id /\ r.store.offer.attempts = s.offer.attempts + 1
    \/ /\ r.answer /= "wrong" /\ r.store.issued = s.issued
       /\ r.store.offer.id = s.offer.id /\ r.store.offer.attempts = s.offer.attempts
       /\ s.offer.state = "none" => r.store.offer.state = "none"
    \/ r.answer /= "wrong" /\ r.store.issued = s.issued /\ r.store.offer = NoOffer
    \/ /\ r.answer /= "wrong" /\ r.store.issued = s.issued + 1
       /\ r.store.offer.id = s.issued + 1 /\ r.store.offer.attempts = 0

Sound(s, r, at) ==
    /\ r.store.issued <= MaxOffers => ValidStore(r.store, at) /\ Counts(s, r)
    /\ r.invalidates \in Clients \union {NoClient}
    /\ KeepsAuthority(s, r) /\ NewKeys(s, r)

(* The wrong proofs made against an offer are the attempts it records.     *)
Guesses ==
    /\ guesses \in [0..MaxOffers -> 0..MaxAttempts]
    /\ store.offer.state /= "none" => guesses[store.offer.id] = store.offer.attempts
    /\ \A o \in 0..MaxOffers : o > store.issued => guesses[o] = 0

(* Connections: while a Command holds the gate nobody is authenticating,   *)
(* and a key that was read has kept its authority, or its client is being  *)
(* invalidated.                                                            *)
Enabled(n) ==
    LET paired == store.paired[connections[n].client]
    IN  paired.access = "enabled" /\ paired.key = connections[n].key
Connected ==
    /\ gate.invalidates /= NoClient => gate.authenticating = {}
    /\ \A n \in Connections :
        /\ connections[n].state = "verified" => n \in gate.authenticating
        /\ connections[n].state \in {"verified", "live"} =>
            /\ connections[n].client \in Clients
            /\ connections[n].client = gate.invalidates \/ Enabled(n)

(* An identity without a receipt was never executed.                       *)
Receipted ==
    /\ applied \in [Commands -> 0..1]
    /\ \A i \in Commands : receipts[i].state = "none" => applied[i] = 0

AccessInv == TypeOK /\ ValidStore(store, now) /\ Guesses /\ Connected /\ Receipted


-----------------------------------------------------------------------------
(* The pairing Commands.                                                   *)

LEMMA StoreFields ==
    ASSUME NEW s \in Stores
    PROVE  /\ s.gate \in {"open", "closed"} /\ s.offer \in Offers /\ s.issued \in 0..MaxOffers
           /\ s.paired \in [Clients -> PairedClients]
           /\ s.offer.id \in 0..MaxOffers /\ s.offer.attempts \in 0..MaxAttempts
           /\ s.offer.state \in {"offered", "claimed", "invalidated", "none"}
           /\ s.offer.claimant \in Clients \union {NoClient}
           /\ s.offer.confirmed_by \in Clients \union {NoClient}
           /\ s.offer.expires \in 0..(MaxTime + Window)
BY DEF Stores, Offers

(* A store whose offer alone is written.                                   *)
LEMMA OfferWritten ==
    ASSUME NEW s \in Stores, NEW o
    PROVE  LET r == [s EXCEPT !.offer = o]
           IN  /\ r.offer = o /\ r.gate = s.gate /\ r.issued = s.issued /\ r.paired = s.paired
               /\ o \in Offers => r \in Stores
BY DEF Stores

LEMMA NoOfferType == NoOffer \in Offers
BY PairingAssumption DEF NoOffer, Offers

(* A Command that leaves the keys and the gate, and writes the offer.      *)
LEMMA OfferSound ==
    ASSUME NEW s, NEW at \in 0..MaxTime, ValidStore(s, at), NEW r,
           NEW o \in Offers, r.store = [s EXCEPT !.offer = o], r.invalidates = NoClient,
           o.id = s.offer.id,
           \/ r.answer = "wrong" /\ Usable(s) /\ o.attempts = s.offer.attempts + 1
           \/ /\ r.answer /= "wrong" /\ o.attempts = s.offer.attempts
              /\ s.offer.state = "none" => o.state = "none",
           o.state \in {"offered", "claimed"} =>
               o.attempts < MaxAttempts /\ (at <= o.expires => s.gate = "open"),
           o.state = "offered" => o.confirmed_by = NoClient,
           o.confirmed_by /= NoClient => o.confirmed_by /= o.claimant
    PROVE  Sound(s, r, at)
<1>1. s \in Stores
      BY DEF ValidStore
<1>2. /\ r.store.offer = o /\ r.store.gate = s.gate /\ r.store.issued = s.issued
      /\ r.store.paired = s.paired /\ r.store \in Stores
      BY <1>1, OfferWritten
<1>3. ValidStore(r.store, at)
      BY <1>2 DEF ValidStore, Usable
<1>4. KeepsAuthority(s, r) /\ NewKeys(s, r)
      BY <1>2 DEF KeepsAuthority, NewKeys
<1>5. Counts(s, r)
      BY <1>2 DEF Counts
<1> QED BY <1>3, <1>4, <1>5 DEF Sound

LEMMA RefusedSound ==
    ASSUME NEW s, NEW at \in 0..MaxTime, ValidStore(s, at)
    PROVE  Sound(s, Refused(s), at)
<1>1. /\ Refused(s).store = s /\ Refused(s).answer = "refused"
      /\ Refused(s).invalidates = NoClient
      BY DEF Refused
<1> QED BY <1>1 DEF Sound, KeepsAuthority, NewKeys, Counts

LEMMA CountFailureSound ==
    ASSUME NEW s, NEW at \in 0..MaxTime, ValidStore(s, at), Usable(s)
    PROVE  Sound(s, count_failure(s), at)
<1> DEFINE a == s.offer.attempts + 1
           o == [s.offer EXCEPT !.attempts = a,
                                !.state = IF a >= MaxAttempts THEN "invalidated" ELSE @]
           r == count_failure(s)
<1>1. s \in Stores /\ s.offer \in Offers /\ s.offer.attempts < MaxAttempts
      BY StoreFields DEF ValidStore
<1>2. a \in 0..MaxAttempts
      BY <1>1, StoreFields, PairingAssumption
<1>3. /\ o \in Offers /\ o.id = s.offer.id /\ o.attempts = a /\ o.expires = s.offer.expires
      /\ o.state \in {s.offer.state, "invalidated"} /\ (a >= MaxAttempts => o.state = "invalidated")
      /\ o.claimant = s.offer.claimant /\ o.confirmed_by = s.offer.confirmed_by
      BY <1>1, <1>2 DEF Offers
<1>4. /\ r.store = [s EXCEPT !.offer.attempts = a,
                             !.offer.state = IF a >= MaxAttempts THEN "invalidated" ELSE @]
      /\ r.answer = "wrong" /\ r.invalidates = NoClient
      BY DEF count_failure, Wrong, Refused
<1>5. r.store = [s EXCEPT !.offer = o]
      BY <1>1, <1>4 DEF Stores, Offers
<1>6. a < MaxAttempts \/ a >= MaxAttempts
      BY <1>2, PairingAssumption
<1> HIDE DEF o, r
<1>7. o.state \in {"offered", "claimed"} =>
        o.attempts < MaxAttempts /\ (at <= o.expires => s.gate = "open")
      BY <1>3, <1>6 DEF ValidStore, Usable
<1>8. /\ o.state = "offered" => o.confirmed_by = NoClient
      /\ o.confirmed_by /= NoClient => o.confirmed_by /= o.claimant
      BY <1>3 DEF ValidStore
<1>9. Sound(s, r, at)
      BY <1>3, <1>4, <1>5, <1>7, <1>8, OfferSound
<1> QED BY <1>9 DEF r


LEMMA Progress ==
    ASSUME NEW s, NEW at \in 0..MaxTime, ValidStore(s, at), progress(s.offer, at) /= "ended"
    PROVE  /\ Usable(s) /\ at <= s.offer.expires /\ s.gate = "open"
           /\ s.offer.attempts < MaxAttempts
           /\ progress(s.offer, at) = "confirmed" <=> s.offer.confirmed_by /= NoClient
           /\ progress(s.offer, at) \in {"confirmed", s.offer.state}
<1>1. s \in Stores
      BY DEF ValidStore
<1>2. /\ s.offer.state \in {"offered", "claimed", "invalidated", "none"}
      /\ s.offer.expires \in Nat /\ at \in Nat
      BY <1>1, StoreFields, PairingAssumption
<1>3. Usable(s) /\ at <= s.offer.expires
      BY <1>2 DEF progress, Usable
<1>4. progress(s.offer, at) =
        IF s.offer.confirmed_by /= NoClient THEN "confirmed" ELSE s.offer.state
      BY <1>2, <1>3 DEF progress, Usable
<1>5. s.gate = "open" /\ s.offer.attempts < MaxAttempts
      BY <1>3 DEF ValidStore
<1> QED BY <1>3, <1>4, <1>5 DEF Usable

(* The offer a Plane issues.                                               *)
LEMMA NewOffer ==
    ASSUME NEW k \in 0..MaxOffers, NEW e \in 0..(MaxTime + Window)
    PROVE  LET o == [NoOffer EXCEPT !.id = k, !.state = "offered", !.expires = e]
           IN  /\ o \in Offers /\ o.id = k /\ o.state = "offered" /\ o.attempts = 0
               /\ o.confirmed_by = NoClient
<1>1. /\ NoOffer \in Offers /\ NoOffer.attempts = 0 /\ NoOffer.confirmed_by = NoClient
      BY NoOfferType DEF NoOffer
<1> QED BY <1>1 DEF Offers

LEMMA OpenSound ==
    ASSUME NEW s, NEW at \in 0..MaxTime, ValidStore(s, at)
    PROVE  Sound(s, open(s, at), at)
<1> DEFINE o == [NoOffer EXCEPT !.id = s.issued + 1, !.state = "offered",
                                !.expires = at + Window]
           new == [s EXCEPT !.issued = @ + 1, !.offer = o]
<1>1. CASE s.gate = "closed"
      BY <1>1, RefusedSound DEF open
<1>2. CASE s.gate /= "closed"
  <2>1. s \in Stores /\ s.gate = "open" /\ s.issued \in 0..MaxOffers
        BY <1>2, StoreFields DEF ValidStore
  <2>2. ASSUME s.issued + 1 <= MaxOffers
        PROVE  /\ s.issued + 1 \in 0..MaxOffers /\ o \in Offers /\ o.id = s.issued + 1
               /\ o.state = "offered" /\ o.attempts = 0 /\ o.confirmed_by = NoClient
    <3>1. s.issued + 1 \in 0..MaxOffers /\ at + Window \in 0..(MaxTime + Window)
          BY <2>1, <2>2, PairingAssumption
    <3> QED BY <3>1, NewOffer, ZenonT(40)
  <2>3. open(s, at) = Done(new)
        BY <1>2 DEF open
  <2> HIDE DEF o
  <2>4. /\ new.offer = o /\ new.issued = s.issued + 1 /\ new.gate = s.gate
        /\ new.paired = s.paired
        BY <2>1 DEF Stores
  <2>5. s.issued + 1 <= MaxOffers => new \in Stores
        BY <2>1, <2>2 DEF Stores
  <2>6. /\ open(s, at).store = new /\ open(s, at).answer = "applied"
        /\ open(s, at).invalidates = NoClient
        BY <2>3 DEF Done
  <2> HIDE DEF new
  <2>7. new.issued <= MaxOffers => ValidStore(new, at)
        BY <2>1, <2>2, <2>4, <2>5, PairingAssumption DEF ValidStore, Usable
  <2>8. KeepsAuthority(s, open(s, at)) /\ NewKeys(s, open(s, at))
        BY <2>4, <2>6 DEF KeepsAuthority, NewKeys
  <2>9. new.issued <= MaxOffers => Counts(s, open(s, at))
        BY <2>2, <2>4, <2>6 DEF Counts
  <2> QED BY <2>6, <2>7, <2>8, <2>9 DEF Sound
<1> QED BY <1>1, <1>2

LEMMA ClaimSound ==
    ASSUME NEW s, NEW at \in 0..MaxTime, ValidStore(s, at), NEW c \in Clients,
           NEW right \in BOOLEAN
    PROVE  Sound(s, claim(s, c, right, at), at)
<1> DEFINE o == [s.offer EXCEPT !.state = "claimed", !.claimant = c, !.expires = at + Window]
<1>1. CASE progress(s.offer, at) /= "offered"
      BY <1>1, RefusedSound DEF claim
<1>2. CASE progress(s.offer, at) = "offered" /\ ~right
      BY <1>2, Progress, CountFailureSound DEF claim
<1>3. CASE progress(s.offer, at) = "offered" /\ right
  <2>1. /\ s \in Stores /\ s.offer \in Offers /\ s.gate = "open" /\ s.offer.confirmed_by = NoClient
        /\ s.offer.attempts < MaxAttempts /\ s.offer.state /= "none"
        BY <1>3, Progress, StoreFields DEF ValidStore, Usable
  <2>2. claim(s, c, right, at) =
            Done([s EXCEPT !.offer.state = "claimed", !.offer.claimant = c,
                           !.offer.expires = at + Window])
        BY <1>3 DEF claim
  <2>3. claim(s, c, right, at) = Done([s EXCEPT !.offer = o])
        BY <2>1, <2>2 DEF Stores, Offers
  <2>4. at + Window \in 0..(MaxTime + Window)
        BY PairingAssumption
  <2>5. /\ o \in Offers /\ o.id = s.offer.id /\ o.attempts = s.offer.attempts
        /\ o.state = "claimed" /\ o.confirmed_by = NoClient
        BY <2>1, <2>4 DEF Offers
  <2> HIDE DEF o
  <2> DEFINE r == claim(s, c, right, at)
  <2>6. r.store = [s EXCEPT !.offer = o] /\ r.answer = "applied" /\ r.invalidates = NoClient
        BY <2>3 DEF Done
  <2> HIDE DEF r
  <2>7. Sound(s, r, at)
        BY <2>1, <2>5, <2>6, OfferSound
  <2> QED BY <2>7 DEF r
<1> QED BY <1>1, <1>2, <1>3

LEMMA ConfirmSound ==
    ASSUME NEW s, NEW at \in 0..MaxTime, ValidStore(s, at), NEW c \in Clients,
           NEW id \in Nat, NEW right \in BOOLEAN
    PROVE  Sound(s, confirm(s, c, id, right, at), at)
<1> DEFINE o == [s.offer EXCEPT !.confirmed_by = c, !.expires = at + Window]
           Mine == /\ s.offer.id = id /\ progress(s.offer, at) = "claimed"
                   /\ s.offer.claimant /= c
<1>1. CASE ~Mine
      BY <1>1, RefusedSound DEF confirm
<1>2. CASE Mine /\ ~right
      BY <1>2, Progress, CountFailureSound DEF confirm
<1>3. CASE Mine /\ right
  <2>1. /\ s \in Stores /\ s.offer \in Offers /\ s.gate = "open" /\ s.offer.state = "claimed"
        /\ s.offer.attempts < MaxAttempts /\ s.offer.claimant /= c
        BY <1>3, Progress, StoreFields DEF ValidStore
  <2>2. confirm(s, c, id, right, at) =
            Done([s EXCEPT !.offer.confirmed_by = c, !.offer.expires = at + Window])
        BY <1>3 DEF confirm
  <2>3. confirm(s, c, id, right, at) = Done([s EXCEPT !.offer = o])
        BY <2>1, <2>2 DEF Stores, Offers
  <2>4. at + Window \in 0..(MaxTime + Window)
        BY PairingAssumption
  <2>5. /\ o \in Offers /\ o.id = s.offer.id /\ o.attempts = s.offer.attempts
        /\ o.state = "claimed" /\ o.confirmed_by = c /\ o.claimant = s.offer.claimant
        BY <2>1, <2>4 DEF Offers
  <2> HIDE DEF o
  <2> DEFINE r == confirm(s, c, id, right, at)
  <2>6. r.store = [s EXCEPT !.offer = o] /\ r.answer = "applied" /\ r.invalidates = NoClient
        BY <2>3 DEF Done
  <2> HIDE DEF r
  <2>7. Sound(s, r, at)
        BY <2>1, <2>5, <2>6, OfferSound
  <2> QED BY <2>7 DEF r
<1> QED BY <1>1, <1>2, <1>3

(* A Command that writes one client and loses its connections, or enables  *)
(* it under the key it has.                                                *)
LEMMA ClosesSound ==
    ASSUME NEW s, NEW at \in 0..MaxTime, ValidStore(s, at), NEW c \in Clients,
           NEW p \in PairedClients, NEW o \in {s.offer, NoOffer}, NEW r,
           r.store = [s EXCEPT !.paired = [s.paired EXCEPT ![c] = p], !.offer = o],
           r.answer = "applied", r.invalidates \in {NoClient, c},
           \/ r.invalidates = c
           \/ p.key = s.paired[c].key /\ p.access = "enabled",
           \/ p.key \in {0, s.paired[c].key}
           \/ /\ s.gate = "open" /\ s.offer.claimant = c
              /\ s.offer.confirmed_by \notin {NoClient, c}
    PROVE  Sound(s, r, at)
<1>1. s \in Stores /\ s.offer \in Offers /\ o \in Offers
      BY StoreFields, NoOfferType DEF ValidStore
<1>2. /\ r.store \in Stores /\ r.store.offer = o /\ r.store.gate = s.gate
      /\ r.store.issued = s.issued /\ r.store.paired[c] = p
      /\ \A d \in Clients : d /= c => r.store.paired[d] = s.paired[d]
  <2>1. s.paired \in [Clients -> PairedClients]
        BY <1>1, StoreFields
  <2> DEFINE paired == [s.paired EXCEPT ![c] = p]
  <2>2. /\ paired \in [Clients -> PairedClients] /\ paired[c] = p
        /\ \A d \in Clients : d /= c => paired[d] = s.paired[d]
        BY <2>1
  <2>3. r.store = [s EXCEPT !.paired = paired, !.offer = o]
        OBVIOUS
  <2> HIDE DEF paired
  <2>4. /\ r.store \in Stores /\ r.store.offer = o /\ r.store.gate = s.gate
        /\ r.store.issued = s.issued /\ r.store.paired = paired
        BY <1>1, <2>2, <2>3 DEF Stores
  <2> QED BY <2>2, <2>4
<1>3. ValidStore(r.store, at)
  <2>1. CASE o = s.offer
        BY <1>2, <2>1 DEF ValidStore, Usable
  <2>2. CASE o = NoOffer
        BY <1>1, <1>2, <2>2, StoreFields DEF ValidStore, Usable, NoOffer
  <2> QED BY <2>1, <2>2
<1>4. KeepsAuthority(s, r)
      BY <1>2 DEF KeepsAuthority
<1>5. NewKeys(s, r)
      BY <1>2 DEF NewKeys
<1>6. Counts(s, r)
      BY <1>2 DEF Counts
<1> QED BY <1>3, <1>4, <1>5, <1>6 DEF Sound


LEMMA CompleteSound ==
    ASSUME NEW s, NEW at \in 0..MaxTime, ValidStore(s, at), NEW c \in Clients,
           NEW id \in 0..MaxOffers, NEW right \in BOOLEAN
    PROVE  Sound(s, complete(s, c, id, right, at), at)
<1> DEFINE Mine == /\ s.offer.id = id /\ progress(s.offer, at) = "confirmed"
                   /\ s.offer.claimant = c
           p == [access |-> "enabled", key |-> id]
           r == complete(s, c, id, right, at)
<1>1. CASE ~Mine
      BY <1>1, RefusedSound DEF complete
<1>2. CASE Mine /\ ~right
      BY <1>2, Progress, CountFailureSound DEF complete
<1>3. CASE Mine /\ right
  <2>1. /\ s \in Stores /\ s.gate = "open" /\ s.offer.claimant = c
        /\ s.offer.confirmed_by \notin {NoClient, c}
        BY <1>3, Progress DEF ValidStore
  <2>2. r = Closes(c, [s EXCEPT !.paired[c] = p, !.offer = NoOffer])
        BY <1>3 DEF complete
  <2>3. p \in PairedClients
        BY DEF PairedClients
  <2> HIDE DEF p
  <2>4. /\ r.store = [s EXCEPT !.paired = [s.paired EXCEPT ![c] = p], !.offer = NoOffer]
        /\ r.answer = "applied" /\ r.invalidates = c
        BY <2>2 DEF Closes, Done
  <2> HIDE DEF r
  <2>5. Sound(s, r, at)
        BY <2>1, <2>3, <2>4, ClosesSound
  <2> QED BY <2>5 DEF r
<1> QED BY <1>1, <1>2, <1>3

LEMMA SetAccessSound ==
    ASSUME NEW s, NEW at \in 0..MaxTime, ValidStore(s, at), NEW c \in Clients,
           NEW access \in {"enabled", "disabled"}
    PROVE  Sound(s, set_access(s, c, access), at)
<1> DEFINE p == [s.paired[c] EXCEPT !.access = access]
           r == set_access(s, c, access)
<1>1. CASE s.paired[c].access = "none"
      BY <1>1, RefusedSound DEF set_access
<1>2. CASE s.paired[c].access /= "none"
  <2>1. s \in Stores /\ s.paired \in [Clients -> PairedClients]
        BY StoreFields DEF ValidStore
  <2>2. p \in PairedClients /\ p.key = s.paired[c].key /\ p.access = access
        BY <2>1 DEF PairedClients
  <2>3. [s EXCEPT !.paired[c].access = access] =
            [s EXCEPT !.paired = [s.paired EXCEPT ![c] = p], !.offer = s.offer]
        BY <2>1 DEF Stores
  <2>4. r = IF access = "disabled" THEN Closes(c, [s EXCEPT !.paired[c].access = access])
            ELSE Done([s EXCEPT !.paired[c].access = access])
        BY <1>2 DEF set_access
  <2> HIDE DEF p
  <2>5. /\ r.store = [s EXCEPT !.paired = [s.paired EXCEPT ![c] = p], !.offer = s.offer]
        /\ r.answer = "applied" /\ r.invalidates = IF access = "disabled" THEN c ELSE NoClient
        BY <2>3, <2>4 DEF Closes, Done
  <2> HIDE DEF r
  <2>6. Sound(s, r, at)
        BY <2>2, <2>5, ClosesSound
  <2> QED BY <2>6 DEF r
<1> QED BY <1>1, <1>2

LEMMA RevokeSound ==
    ASSUME NEW s, NEW at \in 0..MaxTime, ValidStore(s, at), NEW c \in Clients
    PROVE  Sound(s, revoke(s, c), at)
<1> DEFINE r == revoke(s, c)
<1>1. CASE s.paired[c].access = "none"
      BY <1>1, RefusedSound DEF revoke
<1>2. CASE s.paired[c].access /= "none"
  <2>1. s \in Stores
        BY DEF ValidStore
  <2>2. Unpaired \in PairedClients /\ Unpaired.key = 0
        BY PairingAssumption DEF Unpaired, PairedClients
  <2>3. [s EXCEPT !.paired[c] = Unpaired] =
            [s EXCEPT !.paired = [s.paired EXCEPT ![c] = Unpaired], !.offer = s.offer]
        BY <2>1 DEF Stores
  <2>4. /\ r.store = [s EXCEPT !.paired = [s.paired EXCEPT ![c] = Unpaired], !.offer = s.offer]
        /\ r.answer = "applied" /\ r.invalidates = c
        BY <1>2, <2>3 DEF revoke, Closes, Done
  <2> HIDE DEF r
  <2>5. Sound(s, r, at)
        BY <2>2, <2>4, ClosesSound
  <2> QED BY <2>5 DEF r
<1> QED BY <1>1, <1>2

LEMMA SetGateSound ==
    ASSUME NEW s, NEW at \in 0..MaxTime, ValidStore(s, at), NEW to \in {"open", "closed"}
    PROVE  Sound(s, set_gate(s, to, at), at)
<1> DEFINE moved == [s EXCEPT !.gate = to]
           r == set_gate(s, to, at)
<1>1. s \in Stores
      BY DEF ValidStore
<1>2. /\ moved \in Stores /\ moved.offer = s.offer /\ moved.gate = to
      /\ moved.issued = s.issued /\ moved.paired = s.paired
      BY <1>1 DEF Stores
<1>3. r = Done(IF to = "closed" THEN end_open_offer(moved, at) ELSE moved)
      BY DEF set_gate
<1> HIDE DEF moved
<1>4. /\ r.answer = "applied" /\ r.invalidates = NoClient
      /\ r.store = IF to = "closed" THEN end_open_offer(moved, at) ELSE moved
      BY <1>3 DEF Done
<1> HIDE DEF r
<1>5. CASE to = "closed" /\ progress(s.offer, at) /= "ended"
  <2>1. r.store = [moved EXCEPT !.offer.state = "invalidated"]
        BY <1>2, <1>4, <1>5 DEF end_open_offer
  <2> DEFINE o == [s.offer EXCEPT !.state = "invalidated"]
  <2>2. /\ o \in Offers /\ o.state = "invalidated" /\ o.id = s.offer.id
        /\ o.attempts = s.offer.attempts /\ o.claimant = s.offer.claimant
        /\ o.confirmed_by = s.offer.confirmed_by
        BY <1>1, StoreFields DEF Offers
  <2>7. s.offer.state /= "none"
        BY <1>5, Progress DEF Usable
  <2>3. r.store = [moved EXCEPT !.offer = o]
        BY <1>2, <2>1 DEF Stores
  <2> HIDE DEF o
  <2>4. /\ r.store \in Stores /\ r.store.offer = o /\ r.store.gate = to
        /\ r.store.issued = s.issued /\ r.store.paired = s.paired
        BY <1>2, <2>2, <2>3, OfferWritten
  <2>5. ValidStore(r.store, at)
        BY <2>2, <2>4 DEF ValidStore, Usable
  <2>6. Sound(s, r, at)
        BY <1>4, <2>2, <2>4, <2>5, <2>7 DEF Sound, KeepsAuthority, NewKeys, Counts
  <2> QED BY <2>6 DEF r
<1>6. CASE to = "open" \/ progress(s.offer, at) = "ended"
  <2>1. r.store = moved
        BY <1>2, <1>4, <1>6 DEF end_open_offer
  <2>2. Usable(s) /\ at <= s.offer.expires => to = "open"
    <3>1. s.offer.expires \in Nat /\ at \in Nat
          BY <1>1, StoreFields, PairingAssumption
    <3> QED BY <1>6, <3>1 DEF progress, Usable
  <2>3. ValidStore(r.store, at)
        BY <1>2, <2>1, <2>2 DEF ValidStore, Usable
  <2>4. Sound(s, r, at)
        BY <1>2, <1>4, <2>1, <2>3 DEF Sound, KeepsAuthority, NewKeys, Counts
  <2> QED BY <2>4 DEF r
<1> QED BY <1>5, <1>6

LEMMA ResultsSound ==
    ASSUME ValidStore(store, now), now \in 0..MaxTime, NEW result \in Results
    PROVE  Sound(store, result, now)
<1>1. store.issued \in 0..MaxOffers
      BY StoreFields DEF ValidStore
<1>2. \A id \in 1..store.issued : id \in 0..MaxOffers /\ id \in Nat
      BY <1>1, PairingAssumption
<1>3. CASE result = open(store, now)
      BY <1>3, OpenSound
<1>4. CASE result \in {claim(store, c, right, now) : c \in Clients, right \in BOOLEAN}
      BY <1>4, ClaimSound
<1>5. CASE result \in {confirm(store, c, id, right, now) :
                c \in Clients, id \in 1..store.issued, right \in BOOLEAN}
      BY <1>2, <1>5, ConfirmSound
<1>6. CASE result \in {complete(store, c, id, right, now) :
                c \in Clients, id \in 1..store.issued, right \in BOOLEAN}
      BY <1>2, <1>6, CompleteSound
<1>7. CASE result \in {set_gate(store, to, now) : to \in {"open", "closed"}}
      BY <1>7, SetGateSound
<1>8. CASE result \in {set_access(store, c, access) :
                c \in Clients, access \in {"enabled", "disabled"}}
      BY <1>8, SetAccessSound
<1>9. CASE result \in {revoke(store, c) : c \in Clients}
      BY <1>9, RevokeSound
<1> QED BY <1>3, <1>4, <1>5, <1>6, <1>7, <1>8, <1>9 DEF Results


-----------------------------------------------------------------------------
(* The steps.                                                              *)

(* Receipts and history of Commands are left alone.                        *)
LEMMA ReceiptsKept ==
    ASSUME Receipted, UNCHANGED <<receipts, applied>>
    PROVE  Receipted'
BY DEF Receipted

(* Only the clock, the connections or the gate move.                       *)
LEMMA StoreKept ==
    ASSUME ValidStore(store, now), Guesses, UNCHANGED <<store, guesses>>,
           now \in Nat, now' \in Nat, now <= now', TypeOK
    PROVE  ValidStore(store, now)' /\ Guesses'
<1>1. store.offer.expires \in Nat
      BY StoreFields, PairingAssumption DEF TypeOK
<1> QED BY <1>1 DEF ValidStore, Usable, Guesses

LEMMA GateType ==
    ASSUME TypeOK
    PROVE  /\ gate.authenticating \subseteq Connections
           /\ gate.invalidates \in Clients \union {NoClient}
           /\ FreeGate.authenticating = {} /\ FreeGate.invalidates = NoClient
BY DEF TypeOK, FreeGate

LEMMA ConnectionType ==
    ASSUME TypeOK, NEW n \in Connections
    PROVE  /\ connections[n].state \in {"new", "verified", "refused", "live", "closed"}
           /\ connections[n].client \in Clients \union {NoClient}
           /\ connections[n].key \in 0..MaxOffers
BY DEF TypeOK

(* A pairing Command, committed.                                           *)
LEMMA ExecutesKeeps ==
    ASSUME AccessInv, NEW result \in Results, Executes(result)
    PROVE  AccessInv' /\ NewKeys(store, result) /\ store' = result.store
<1>1. TypeOK /\ ValidStore(store, now) /\ Guesses /\ Connected /\ Receipted /\ now \in 0..MaxTime
      BY DEF AccessInv, TypeOK
<1>2. Sound(store, result, now)
      BY <1>1, ResultsSound
<1>3. /\ store' = result.store /\ gate = FreeGate
      /\ gate' = [gate EXCEPT !.invalidates = result.invalidates]
      /\ ledgered' \subseteq ledgered \union {result.invalidates}
      /\ ledgered' /= ledgered => result.invalidates /= NoClient
      /\ UNCHANGED <<receipts, connections, now, faults, applied, answers>>
      BY DEF Executes, Commits, AllPermits
<1>4. ValidStore(store', now) /\ Counts(store, result)
      BY <1>2, <1>3 DEF Sound, Executes
<1>5. /\ gate'.invalidates = result.invalidates /\ gate'.authenticating = {}
      /\ gate' \in [authenticating : SUBSET Connections, invalidates : Clients \union {NoClient}]
      /\ result.invalidates \in Clients \union {NoClient}
      BY <1>2, <1>3 DEF Sound, FreeGate
<1>6. TypeOK'
      BY <1>1, <1>3, <1>4, <1>5 DEF TypeOK, ValidStore
<1>7. Connected'
  <2>1. ASSUME NEW n \in Connections, connections[n].state \in {"verified", "live"}
        PROVE  /\ connections[n].state /= "verified" /\ connections[n].client \in Clients
               /\ \/ connections[n].client = result.invalidates
                  \/ Enabled(n)'
    <3>1. /\ connections[n].state /= "verified" /\ connections[n].client \in Clients
          /\ connections[n].client = NoClient \/ Enabled(n)
          BY <1>1, <1>3, <2>1 DEF Connected, FreeGate
    <3>2. Enabled(n)
          BY <3>1, PairingAssumption
    <3> QED BY <1>2, <1>3, <3>1, <3>2 DEF Sound, KeepsAuthority, Enabled
  <2> QED BY <1>3, <1>5, <2>1 DEF Connected
<1>8. Guesses'
  <2>1. store.offer.id \in 0..MaxOffers /\ store.issued \in 0..MaxOffers
        BY <1>1, StoreFields DEF ValidStore
  <2>2. CASE result.answer = "wrong"
    <3>1. /\ guesses' = [guesses EXCEPT ![store.offer.id] = @ + 1] /\ Usable(store)
          /\ store'.issued = store.issued /\ store'.offer.id = store.offer.id
          /\ store'.offer.attempts = store.offer.attempts + 1
          BY <1>3, <1>4, <2>2 DEF Executes, Guess, Counts
    <3>2. /\ guesses[store.offer.id] = store.offer.attempts
          /\ store.offer.attempts \in Nat /\ store.offer.attempts < MaxAttempts
          /\ store.offer.id <= store.issued
          BY <1>1, <3>1, StoreFields DEF Guesses, Usable, ValidStore
    <3>3. store.offer.attempts + 1 \in 0..MaxAttempts
          BY <3>2, PairingAssumption
    <3>4. /\ guesses'[store.offer.id] = store.offer.attempts + 1
          /\ \A o \in 0..MaxOffers : o /= store.offer.id => guesses'[o] = guesses[o]
          /\ guesses' \in [0..MaxOffers -> 0..MaxAttempts]
          BY <1>1, <2>1, <3>1, <3>2, <3>3 DEF Guesses
    <3> QED BY <1>1, <2>1, <3>1, <3>2, <3>4 DEF Guesses
  <2>3. CASE result.answer /= "wrong"
    <3>1. guesses' = guesses
          BY <2>3 DEF Executes, Guess
    <3>2. CASE /\ store'.issued = store.issued
               /\ store'.offer.id = store.offer.id
               /\ store'.offer.attempts = store.offer.attempts
               /\ store.offer.state /= "none"
          BY <1>1, <3>1, <3>2 DEF Guesses
    <3>3. CASE store'.issued = store.issued /\ store'.offer.state = "none"
          BY <1>1, <3>1, <3>3 DEF Guesses
    <3>4. CASE /\ store'.issued = store.issued + 1 /\ store'.offer.id = store.issued + 1
               /\ store'.offer.attempts = 0
      <4>1. store.issued + 1 \in 0..MaxOffers
            BY <1>3, <1>4, <2>1, <3>4, PairingAssumption DEF Executes
      <4> QED BY <1>1, <2>1, <3>1, <3>4, <4>1 DEF Guesses
    <3>5. NoOffer.state = "none"
          BY DEF NoOffer
    <3> QED BY <1>3, <1>4, <2>3, <3>2, <3>3, <3>4, <3>5 DEF Counts
  <2> QED BY <2>2, <2>3
<1>9. Receipted'
      BY <1>1, <1>3, ReceiptsKept
<1> QED BY <1>2, <1>3, <1>4, <1>6, <1>7, <1>8, <1>9 DEF AccessInv, Sound


(* A pairing Command that fails to commit, and the invalidation after one. *)
LEMMA AbandonsKeeps ==
    ASSUME AccessInv, NEW result \in Results, Abandons(result)
    PROVE  AccessInv'
<1>1. TypeOK /\ ValidStore(store, now) /\ Guesses /\ Connected /\ Receipted /\ now \in 0..MaxTime
      BY DEF AccessInv, TypeOK
<1>2. result.invalidates \in Clients \union {NoClient}
      BY <1>1, ResultsSound DEF Sound
<1>3. /\ gate = FreeGate /\ gate' = [gate EXCEPT !.invalidates = result.invalidates]
      /\ UNCHANGED <<store, ledgered, receipts, connections, now, applied, answers, guesses>>
      /\ faults' \in 0..MaxFaults
      BY <1>1, AccessAssumption DEF Abandons, AllPermits, history, TypeOK
<1>4. /\ gate'.invalidates = result.invalidates /\ gate'.authenticating = {}
      /\ gate' \in [authenticating : SUBSET Connections, invalidates : Clients \union {NoClient}]
      BY <1>2, <1>3 DEF FreeGate
<1>5. TypeOK'
      BY <1>1, <1>3, <1>4 DEF TypeOK
<1>6. Connected'
  <2>1. \A n \in Connections : Enabled(n)' <=> Enabled(n)
        BY <1>3 DEF Enabled
  <2>2. gate.invalidates = NoClient /\ gate.authenticating = {}
        BY <1>3 DEF FreeGate
  <2> QED BY <1>1, <1>3, <1>4, <2>1, <2>2, PairingAssumption DEF Connected
<1>7. ValidStore(store, now)' /\ Guesses' /\ Receipted'
      BY <1>1, <1>3, PairingAssumption, StoreKept, ReceiptsKept
<1> QED BY <1>5, <1>6, <1>7 DEF AccessInv

LEMMA InvalidateKeeps ==
    ASSUME AccessInv, invalidate
    PROVE  AccessInv'
<1>1. TypeOK /\ ValidStore(store, now) /\ Guesses /\ Connected /\ Receipted /\ now \in 0..MaxTime
      BY DEF AccessInv, TypeOK
<1>2. /\ gate' = [gate EXCEPT !.invalidates = NoClient]
      /\ UNCHANGED <<store, ledgered, receipts, now, faults, applied, answers, guesses>>
      BY DEF invalidate, history
<1>3. /\ gate'.invalidates = NoClient /\ gate'.authenticating = {}
      /\ gate.authenticating = {}
      /\ gate' \in [authenticating : SUBSET Connections, invalidates : Clients \union {NoClient}]
      BY <1>1, <1>2 DEF TypeOK, Connected, invalidate
<1>4. ASSUME NEW n \in Connections
      PROVE  \/ connections'[n] = connections[n] /\
                    (connections[n].state = "live" => connections[n].client /= gate.invalidates)
             \/ connections'[n] = [connections[n] EXCEPT !.state = "closed"]
      BY DEF invalidate, Live
<1>5. connections' \in [Connections ->
        [state : {"new", "verified", "refused", "live", "closed"},
         client : Clients \union {NoClient}, key : 0..MaxOffers]]
      BY <1>1 DEF invalidate, TypeOK
<1>6. TypeOK'
      BY <1>1, <1>2, <1>3, <1>5 DEF TypeOK
<1>7. Connected'
  <2>1. ASSUME NEW n \in Connections, connections'[n].state \in {"verified", "live"}
        PROVE  /\ connections'[n].state /= "verified" /\ connections'[n].client \in Clients
               /\ Enabled(n)'
    <3>1. [connections[n] EXCEPT !.state = "closed"].state = "closed"
          BY <1>1 DEF TypeOK
    <3>2. /\ connections'[n] = connections[n]
          /\ connections[n].state = "live" => connections[n].client /= gate.invalidates
          BY <1>4, <2>1, <3>1
    <3>3. connections[n].state = "live" /\ connections[n].client \in Clients
          BY <1>1, <1>3, <2>1, <3>2 DEF Connected
    <3>4. Enabled(n)
          BY <1>1, <3>2, <3>3 DEF Connected
    <3> QED BY <1>2, <3>2, <3>3, <3>4 DEF Enabled
  <2> QED BY <1>3, <2>1 DEF Connected
<1>8. ValidStore(store, now)' /\ Guesses' /\ Receipted'
      BY <1>1, <1>2, PairingAssumption, StoreKept, ReceiptsKept
<1> QED BY <1>6, <1>7, <1>8 DEF AccessInv

(* Connections come and go.                                                *)
LEMMA ConnectionKeeps ==
    ASSUME AccessInv, NEW n \in Connections,
           register(n) \/ Disconnects(n) \/ \E c \in Clients : AuthenticateReads(n, c)
    PROVE  AccessInv'
<1>1. TypeOK /\ ValidStore(store, now) /\ Guesses /\ Connected /\ Receipted /\ now \in 0..MaxTime
      BY DEF AccessInv, TypeOK
<1>2. UNCHANGED <<store, ledgered, receipts, now, faults, applied, answers, guesses>>
      BY DEF register, Disconnects, AuthenticateReads, history
<1>3. ValidStore(store, now)' /\ Guesses' /\ Receipted'
      BY <1>1, <1>2, PairingAssumption, StoreKept, ReceiptsKept
<1>4. \A m \in Connections : connections'[m] = connections[m] => (Enabled(m)' <=> Enabled(m))
      BY <1>2 DEF Enabled
<1>5. CASE \E c \in Clients : AuthenticateReads(n, c)
  <2>1. PICK c \in Clients : AuthenticateReads(n, c)
        BY <1>5
  <2> DEFINE new == [state |-> IF store.paired[c].access = "enabled" THEN "verified" ELSE "refused",
                     client |-> c, key |-> store.paired[c].key]
  <2>2. /\ connections' = [connections EXCEPT ![n] = new] /\ gate.invalidates = NoClient
        /\ gate' = [gate EXCEPT !.authenticating = @ \union {n}]
        BY <2>1 DEF AuthenticateReads, OnePermit
  <2>3. store.paired[c].key \in 0..MaxOffers
        BY <1>1, StoreFields DEF ValidStore, PairedClients
  <2>4. /\ new.client = c /\ new.key = store.paired[c].key
        /\ new.state \in {"verified", "refused"}
        /\ new.state = "verified" => store.paired[c].access = "enabled"
        /\ new \in [state : {"new", "verified", "refused", "live", "closed"},
                    client : Clients \union {NoClient}, key : 0..MaxOffers]
        BY <2>3
  <2> HIDE DEF new
  <2>5. /\ connections'[n] = new
        /\ \A m \in Connections : m /= n => connections'[m] = connections[m]
        /\ connections' \in [Connections ->
            [state : {"new", "verified", "refused", "live", "closed"},
             client : Clients \union {NoClient}, key : 0..MaxOffers]]
        BY <1>1, <2>2, <2>4 DEF TypeOK
  <2>6. /\ gate'.invalidates = NoClient /\ gate'.authenticating = gate.authenticating \union {n}
        /\ gate' \in [authenticating : SUBSET Connections, invalidates : Clients \union {NoClient}]
        BY <1>1, <2>2 DEF TypeOK
  <2>7. TypeOK'
        BY <1>1, <1>2, <2>5, <2>6 DEF TypeOK
  <2>8. Connected'
    <3>1. Enabled(n)' \/ new.state = "refused"
          BY <1>2, <2>4, <2>5 DEF Enabled
    <3>2. ASSUME NEW m \in Connections
          PROVE  /\ connections'[m].state = "verified" => m \in gate'.authenticating
                 /\ connections'[m].state \in {"verified", "live"} =>
                        /\ connections'[m].client \in Clients
                        /\ connections'[m].client = gate'.invalidates \/ Enabled(m)'
      <4>1. CASE m = n
            BY <2>4, <2>5, <2>6, <3>1, <4>1
      <4>2. CASE m /= n
            BY <1>1, <1>4, <2>2, <2>5, <2>6, <4>2 DEF Connected
      <4> QED BY <4>1, <4>2
    <3> QED BY <2>6, <3>2 DEF Connected
  <2> QED BY <1>3, <2>7, <2>8 DEF AccessInv
<1>6. CASE register(n) \/ Disconnects(n)
  <2>1. PICK to \in {"live", "closed"} :
            /\ connections' = [connections EXCEPT ![n].state = to]
            /\ to = "live" => connections[n].state = "verified"
        BY <1>1, <1>6 DEF register, Disconnects, TypeOK
  <2> DEFINE new == [connections[n] EXCEPT !.state = to]
  <2>2. /\ new.client = connections[n].client /\ new.key = connections[n].key /\ new.state = to
        /\ new \in [state : {"new", "verified", "refused", "live", "closed"},
                    client : Clients \union {NoClient}, key : 0..MaxOffers]
        BY <1>1, <2>1 DEF TypeOK
  <2>3. connections' = [connections EXCEPT ![n] = new]
        BY <2>1
  <2> HIDE DEF new
  <2>4. /\ connections'[n] = new
        /\ \A m \in Connections : m /= n => connections'[m] = connections[m]
        /\ connections' \in [Connections ->
            [state : {"new", "verified", "refused", "live", "closed"},
             client : Clients \union {NoClient}, key : 0..MaxOffers]]
        BY <1>1, <2>2, <2>3 DEF TypeOK
  <2>5. /\ gate'.invalidates = gate.invalidates
        /\ gate'.authenticating \subseteq gate.authenticating
        /\ gate.authenticating \subseteq gate'.authenticating \union {n}
        /\ gate' \in [authenticating : SUBSET Connections, invalidates : Clients \union {NoClient}]
        BY <1>1, <1>6 DEF register, Disconnects, TypeOK
  <2>6. TypeOK'
        BY <1>1, <1>2, <2>4, <2>5 DEF TypeOK
  <2>7. Connected'
    <3>1. Enabled(n)' <=> Enabled(n)
          BY <1>2, <2>2, <2>4 DEF Enabled
    <3>2. ASSUME NEW m \in Connections
          PROVE  /\ connections'[m].state = "verified" => m \in gate'.authenticating
                 /\ connections'[m].state \in {"verified", "live"} =>
                        /\ connections'[m].client \in Clients
                        /\ connections'[m].client = gate'.invalidates \/ Enabled(m)'
      <4>1. CASE m = n
            BY <1>1, <2>1, <2>2, <2>4, <2>5, <3>1, <4>1 DEF Connected
      <4>2. CASE m /= n
            BY <1>1, <1>4, <2>4, <2>5, <4>2 DEF Connected
      <4> QED BY <4>1, <4>2
    <3>3. gate'.invalidates /= NoClient => gate'.authenticating = {}
          BY <1>1, <2>5 DEF Connected
    <3> QED BY <3>2, <3>3 DEF Connected
  <2> QED BY <1>3, <2>6, <2>7 DEF AccessInv
<1> QED BY <1>5, <1>6

(* Commands that are repeated, executed for the first time, or fail.       *)
LEMMA CommandKeeps ==
    ASSUME AccessInv, NEW n \in Connections, NEW i \in Commands,
           \/ Fails(n, i)
           \/ \E d \in Digests : Repeats(n, i, d)
           \/ \E d \in Digests, outcome \in {"applied", "refused"} : execute_new(n, i, d, outcome)
    PROVE  AccessInv'
<1>1. TypeOK /\ ValidStore(store, now) /\ Guesses /\ Connected /\ Receipted /\ now \in 0..MaxTime
      BY DEF AccessInv, TypeOK
<1>2. UNCHANGED <<store, ledgered, connections, gate, now, guesses>> /\ faults' \in 0..MaxFaults
  <2>1. /\ Done(store).store = store /\ Done(store).invalidates = NoClient
        /\ [FreeGate EXCEPT !.invalidates = NoClient] = FreeGate
        BY DEF Done, FreeGate
  <2>2. CASE Fails(n, i)
        BY <1>1, <2>2, AccessAssumption DEF Fails, history, TypeOK
  <2>3. CASE ~Fails(n, i)
        BY <1>1, <2>1, <2>3 DEF Repeats, execute_new, Commits, AllPermits, TypeOK
  <2> QED BY <2>2, <2>3
<1> DEFINE Receipts == [state : {"none", "kept", "tombstone"}, digest : Digests \union {0},
                        outcome : {"none", "applied", "refused"}, at : 0..now]
<1>3. /\ receipts \in [Commands -> Receipts]
      /\ \A j \in Commands : /\ prune_command_receipts[j] \in Receipts
                             /\ prune_command_receipts[j].state = "none" <=> receipts[j].state = "none"
      /\ prune_command_receipts \in [Commands -> Receipts]
  <2>1. receipts \in [Commands -> Receipts]
        BY <1>1 DEF TypeOK
  <2>2. ASSUME NEW j \in Commands
        PROVE  /\ prune_command_receipts[j] \in Receipts
               /\ prune_command_receipts[j].state = "none" <=> receipts[j].state = "none"
    <3>1. receipts[j] \in Receipts
          BY <2>1
    <3>2. LET gone == [receipts[j] EXCEPT !.state = "tombstone", !.digest = 0, !.outcome = "none"]
          IN  gone \in Receipts /\ gone.state = "tombstone"
          BY <3>1
    <3> QED BY <3>1, <3>2 DEF prune_command_receipts
  <2>3. prune_command_receipts \in [Commands -> Receipts]
    <3>1. prune_command_receipts = [j \in Commands |-> prune_command_receipts[j]]
          BY DEF prune_command_receipts
    <3> QED BY <2>2, <3>1
  <2> QED BY <2>1, <2>2, <2>3
<1>4. receipts' \in [Commands -> Receipts] /\ Receipted'
  <2> HIDE DEF Receipts
  <2>1. CASE receipts' \in {receipts, prune_command_receipts} /\ applied' = applied
        BY <1>1, <1>3, <2>1 DEF Receipted
  <2>2. ASSUME NEW d \in Digests, NEW outcome \in {"applied", "refused"},
               execute_new(n, i, d, outcome)
        PROVE  receipts' \in [Commands -> Receipts] /\ Receipted'
    <3> DEFINE new == [state |-> "kept", digest |-> d, outcome |-> outcome, at |-> now]
    <3>1. new \in Receipts /\ new.state = "kept"
          BY <1>1 DEF Receipts
    <3>2. /\ receipts' = [prune_command_receipts EXCEPT ![i] = new]
          /\ receipts[i].state = "none"
          /\ applied' = applied \/ applied' = [applied EXCEPT ![i] = @ + 1]
          BY <2>2 DEF execute_new, insert_command_receipt
    <3> HIDE DEF new
    <3>3. /\ receipts' \in [Commands -> Receipts] /\ receipts'[i].state = "kept"
          /\ \A j \in Commands : j /= i => receipts'[j] = prune_command_receipts[j]
          BY <1>3, <3>1, <3>2
    <3>4. applied[i] = 0
          BY <1>1, <3>2 DEF Receipted
    <3>5. /\ applied' \in [Commands -> 0..1]
          /\ \A j \in Commands : j /= i => applied'[j] = applied[j]
          BY <1>1, <3>2, <3>4 DEF Receipted
    <3> QED BY <1>1, <1>3, <3>3, <3>5 DEF Receipted
  <2>3. CASE Fails(n, i) \/ \E d \in Digests : Repeats(n, i, d)
        BY <2>1, <2>3 DEF Fails, Repeats, history
  <2> QED BY <2>2, <2>3
<1>5. TypeOK'
      BY <1>1, <1>2, <1>4 DEF TypeOK
<1>6. Connected'
      BY <1>1, <1>2 DEF Connected, Enabled
<1>7. ValidStore(store, now)' /\ Guesses'
      BY <1>1, <1>2, PairingAssumption, StoreKept
<1> QED BY <1>4, <1>5, <1>6, <1>7 DEF AccessInv

LEMMA TickKeeps ==
    ASSUME AccessInv, Tick
    PROVE  AccessInv'
<1>1. TypeOK /\ ValidStore(store, now) /\ Guesses /\ Connected /\ Receipted /\ now \in 0..MaxTime
      BY DEF AccessInv, TypeOK
<1>2. /\ UNCHANGED <<store, ledgered, receipts, connections, gate, faults, applied, answers, guesses>>
      /\ now' = now + 1 /\ now' \in 0..MaxTime
      BY <1>1, PairingAssumption DEF Tick, history
<1>3. now \in Nat /\ now' \in Nat /\ now <= now'
      BY <1>1, <1>2, PairingAssumption
<1>4. ValidStore(store, now)' /\ Guesses' /\ Receipted'
      BY <1>1, <1>2, <1>3, StoreKept, ReceiptsKept
<1>5. receipts' \in [Commands -> [state : {"none", "kept", "tombstone"}, digest : Digests \union {0},
                                  outcome : {"none", "applied", "refused"}, at : 0..now']]
  <2>1. \A k \in 0..now : k \in 0..now'
        BY <1>3
  <2>2. ASSUME NEW i \in Commands
        PROVE  receipts[i] \in [state : {"none", "kept", "tombstone"}, digest : Digests \union {0},
                                outcome : {"none", "applied", "refused"}, at : 0..now']
        BY <1>1, <2>1 DEF TypeOK
  <2> QED BY <1>1, <1>2, <2>2 DEF TypeOK
<1>6. TypeOK'
      BY <1>1, <1>2, <1>5 DEF TypeOK
<1>7. Connected'
      BY <1>1, <1>2 DEF Connected, Enabled
<1> QED BY <1>4, <1>6, <1>7 DEF AccessInv

(* A restart closes every connection; a key may go, and none comes.        *)
LEMMA RestartKeeps ==
    ASSUME AccessInv, Restart
    PROVE  /\ AccessInv'
           /\ \A c \in Clients : store'.paired[c].key \in {0, store.paired[c].key}
<1>1. TypeOK /\ ValidStore(store, now) /\ Guesses /\ Connected /\ Receipted /\ now \in 0..MaxTime
      BY DEF AccessInv, TypeOK
<1> DEFINE paired == [c \in Clients |-> IF c \in ledgered THEN Unpaired ELSE store.paired[c]]
<1>2. /\ store' = [store EXCEPT !.paired = paired] /\ gate' = FreeGate
      /\ UNCHANGED <<ledgered, receipts, now, applied, answers, guesses>>
      /\ faults' \in 0..MaxFaults
      BY <1>1, AccessAssumption DEF Restart, history, TypeOK
<1>3. /\ Unpaired \in PairedClients /\ Unpaired.key = 0
      BY PairingAssumption DEF Unpaired, PairedClients
<1>4. store \in Stores /\ store.paired \in [Clients -> PairedClients]
      BY <1>1, StoreFields DEF ValidStore
<1>5. /\ paired \in [Clients -> PairedClients]
      /\ \A c \in Clients : paired[c].key \in {0, store.paired[c].key}
      BY <1>3, <1>4
<1> HIDE DEF paired
<1>6. /\ store' \in Stores /\ store'.offer = store.offer /\ store'.gate = store.gate
      /\ store'.issued = store.issued /\ store'.paired = paired
      BY <1>2, <1>4, <1>5 DEF Stores
<1>7. ValidStore(store', now') /\ Guesses'
      BY <1>1, <1>2, <1>6 DEF ValidStore, Usable, Guesses
<1>8. ASSUME NEW n \in Connections
      PROVE  /\ connections'[n].state \notin {"verified", "live"}
             /\ connections'[n] \in [state : {"new", "verified", "refused", "live", "closed"},
                    client : Clients \union {NoClient}, key : 0..MaxOffers]
  <2>1. connections[n] \in [state : {"new", "verified", "refused", "live", "closed"},
                    client : Clients \union {NoClient}, key : 0..MaxOffers]
        BY <1>1 DEF TypeOK
  <2>2. NoConnection.state = "new"
        BY DEF NoConnection
  <2>3. connections'[n] = IF connections[n] = NoConnection THEN NoConnection
                          ELSE [connections[n] EXCEPT !.state = "closed"]
        BY DEF Restart
  <2> QED BY <2>1, <2>2, <2>3
<1>9. connections' \in [Connections ->
        [state : {"new", "verified", "refused", "live", "closed"},
         client : Clients \union {NoClient}, key : 0..MaxOffers]]
  <2>1. connections' = [n \in Connections |-> connections'[n]]
        BY DEF Restart
  <2> QED BY <1>8, <2>1
<1>10. FreeGate.invalidates = NoClient
       BY DEF FreeGate
<1>11. FreeGate \in [authenticating : SUBSET Connections, invalidates : Clients \union {NoClient}]
       BY DEF FreeGate
<1>12. TypeOK'
       BY <1>1, <1>2, <1>6, <1>9, <1>11 DEF TypeOK
<1>13. Connected'
       BY <1>2, <1>8, <1>10 DEF Connected
<1>14. Receipted'
       BY <1>1, <1>2, ReceiptsKept
<1> QED BY <1>5, <1>6, <1>7, <1>12, <1>13, <1>14 DEF AccessInv


LEMMA InitAccess == Init => AccessInv
<1> SUFFICES ASSUME Init PROVE AccessInv
    OBVIOUS
<1>1. NewStore \in Stores /\ NewStore.offer = NoOffer
  <2>1. Unpaired \in PairedClients
        BY PairingAssumption DEF Unpaired, PairedClients
  <2> QED BY <2>1, NoOfferType, PairingAssumption DEF NewStore, Stores
<1>2. store = NewStore /\ now = 0
      BY DEF Init
<1>3. NoOffer.state = "none" /\ NoOffer.id = 0 /\ NoOffer.confirmed_by = NoClient
      BY DEF NoOffer
<1>4. NewStore.issued = 0
      BY DEF NewStore
<1>5. ValidStore(store, now)
      BY <1>1, <1>2, <1>3, <1>4 DEF ValidStore, Usable
<1>6. Guesses
      BY <1>1, <1>2, <1>3, PairingAssumption DEF Init, Guesses
<1>7. NoConnection.state = "new" /\ FreeGate.invalidates = NoClient
      BY DEF NoConnection, FreeGate
<1>8. Connected
      BY <1>7 DEF Init, Connected
<1>9. Receipted
      BY DEF Init, Receipted
<1>10. TypeOK
  <2>1. receipts \in [Commands -> [state : {"none", "kept", "tombstone"}, digest : Digests \union {0},
                                   outcome : {"none", "applied", "refused"}, at : 0..now]]
        BY DEF Init, NoReceipt
  <2>2. connections \in [Connections ->
            [state : {"new", "verified", "refused", "live", "closed"},
             client : Clients \union {NoClient}, key : 0..MaxOffers]]
        BY PairingAssumption DEF Init, NoConnection
  <2>3. gate \in [authenticating : SUBSET Connections, invalidates : Clients \union {NoClient}]
        BY DEF Init, FreeGate
  <2> QED BY <1>1, <1>2, <2>1, <2>2, <2>3, PairingAssumption, AccessAssumption DEF Init, TypeOK
<1> QED BY <1>5, <1>6, <1>8, <1>9, <1>10 DEF AccessInv

LEMMA AccessStep ==
    ASSUME AccessInv, [Next]_vars
    PROVE  AccessInv'
<1>1. CASE UNCHANGED vars
      BY <1>1 DEF vars, AccessInv, TypeOK, ValidStore, Usable, Guesses, Connected, Enabled, Receipted
<1>2. ASSUME NEW result \in Results, Executes(result) \/ Abandons(result)
      PROVE  AccessInv'
      BY <1>2, ExecutesKeeps, AbandonsKeeps
<1>3. CASE invalidate \/ Restart \/ Tick
      BY <1>3, InvalidateKeeps, RestartKeeps, TickKeeps
<1>4. ASSUME NEW n \in Connections,
             register(n) \/ Disconnects(n) \/ \E c \in Clients : AuthenticateReads(n, c)
      PROVE  AccessInv'
      BY <1>4, ConnectionKeeps
<1>5. ASSUME NEW n \in Connections, NEW i \in Commands,
             \/ Fails(n, i)
             \/ \E d \in Digests :
                \/ Repeats(n, i, d)
                \/ \E outcome \in {"applied", "refused"} : execute_new(n, i, d, outcome)
      PROVE  AccessInv'
      BY <1>5, CommandKeeps
<1> QED BY <1>1, <1>2, <1>3, <1>4, <1>5 DEF Next

(* The store, the gate, connections, receipts and guesses stay consistent. *)
THEOREM Invariant == Spec => []AccessInv
BY InitAccess, AccessStep, PTL DEF Spec

(* Every store, receipt, connection and permit is well formed.             *)
THEOREM TypeCorrect == Spec => []TypeOK
<1>1. AccessInv => TypeOK
      BY DEF AccessInv
<1> QED BY <1>1, Invariant, PTL

(* No connection keeps or gains authority its client has lost              *)
(* (LiveIsEnabled: execute.rs, remote/mod.rs).                             *)
THEOREM AuthorityIsCurrent == Spec => []LiveIsEnabled
<1>1. AccessInv => LiveIsEnabled
      BY PairingAssumption DEF AccessInv, Connected, LiveIsEnabled, Live, Enabled
<1> QED BY <1>1, Invariant, PTL

(* A Command is executed at most once under its identity (AtMostOnce:       *)
(* receipt.rs, jet-store command.rs).                                      *)
THEOREM ExecutedOnce == Spec => []AtMostOnce
<1>1. AccessInv => AtMostOnce
      BY DEF AccessInv, Receipted, AtMostOnce
<1> QED BY <1>1, Invariant, PTL

(* No offer takes more wrong proofs than it allows (GuessesBounded:         *)
(* pairing/offer.rs count_failure).                                        *)
THEOREM GuessingStops == Spec => []GuessesBounded
<1>1. AccessInv => GuessesBounded
      BY PairingAssumption DEF AccessInv, Guesses, GuessesBounded
<1> QED BY <1>1, Invariant, PTL

(* A key is established only through an open gate and after another client *)
(* confirmed it (PairedThroughOpenGate: pairing/completion.rs).             *)
THEOREM KeysThroughOpenGate == Spec => PairedThroughOpenGate
<1> DEFINE Step ==
        \A c \in Clients :
            store'.paired[c].key /= store.paired[c].key /\ store'.paired[c].key /= 0 =>
                /\ store.gate = "open"
                /\ store.offer.claimant = c /\ store.offer.confirmed_by \notin {NoClient, c}
<1>1. ASSUME AccessInv, [Next]_vars
      PROVE  [Step]_vars
  <2>1. CASE UNCHANGED store
        BY <2>1
  <2>2. ASSUME NEW result \in Results, Executes(result)
        PROVE  Step
        BY <1>1, <2>2, ExecutesKeeps DEF NewKeys
  <2>3. CASE Restart
        BY <1>1, <2>3, RestartKeeps
  <2>4. UNCHANGED store \/ Restart \/ \E result \in Results : Executes(result)
    <3>1. Done(store).store = store
          BY DEF Done
    <3> QED BY <1>1, <3>1 DEF Next, vars, Abandons, invalidate, Tick, register, Disconnects,
            AuthenticateReads, Fails, Repeats, execute_new, Commits
  <2> QED BY <2>1, <2>2, <2>3, <2>4
<1> QED BY <1>1, Invariant, PTL DEF Spec, PairedThroughOpenGate

-----------------------------------------------------------------------------
(* What a repeated Command is answered.                                    *)

AnswerSet == {"applied", "refused", "none", "reused", "expired", "incompatible"}

(* What was answered under one identity, and the receipt kept for it: a    *)
(* kept receipt determines the answer to every content, and an identity    *)
(* whose outcome is gone is past its retention.                            *)
AgreesWith(r, row, at) ==
    /\ r.state = "none" => \A d \in Digests : row[d] = {}
    /\ r.state = "kept" => \A d \in Digests :
          row[d] \subseteq {IF d = r.digest THEN r.outcome ELSE "reused", "expired"}
    /\ r.state = "tombstone" =>
          /\ at - r.at > Retention
          /\ \A d \in Digests : \E a \in AnswerSet : row[d] \subseteq {a, "expired"}

AnswersAgree ==
    /\ answers \in [Commands -> [Digests -> SUBSET AnswerSet]]
    /\ \A i \in Commands : AgreesWith(receipts[i], answers[i], now)

Receipts(at) ==
    [state : {"none", "kept", "tombstone"}, digest : Digests \union {0},
     outcome : {"none", "applied", "refused"}, at : 0..at]

(* Pruning takes away an outcome only once it may no longer be answered.   *)
LEMMA PruneAgrees ==
    ASSUME TypeOK, AnswersAgree, NEW i \in Commands
    PROVE  /\ prune_command_receipts[i] \in Receipts(now)
           /\ AgreesWith(prune_command_receipts[i], answers[i], now)
           /\ prune_command_receipts[i].state = "kept" =>
                 /\ prune_command_receipts[i] = receipts[i]
                 /\ now - receipts[i].at <= Retention
           /\ prune_command_receipts[i].state = "none" => receipts[i].state = "none"
<1>1. /\ receipts[i] \in Receipts(now) /\ AgreesWith(receipts[i], answers[i], now)
      /\ now \in Nat /\ Retention \in Nat /\ receipts[i].at \in Nat
      BY PairingAssumption, AccessAssumption DEF TypeOK, AnswersAgree, Receipts
<1>2. CASE receipts[i].state = "kept" /\ receipts[i].at < now - Retention
  <2> DEFINE r == [receipts[i] EXCEPT !.state = "tombstone", !.digest = 0, !.outcome = "none"]
  <2>1. prune_command_receipts[i] = r
        BY <1>2 DEF prune_command_receipts
  <2>2. r \in Receipts(now) /\ r.state = "tombstone" /\ r.at = receipts[i].at
        BY <1>1 DEF Receipts
  <2>3. now - r.at > Retention
        BY <1>1, <1>2, <2>2
  <2>4. ASSUME NEW d \in Digests
        PROVE  \E a \in AnswerSet : answers[i][d] \subseteq {a, "expired"}
    <3> DEFINE a == IF d = receipts[i].digest THEN receipts[i].outcome ELSE "reused"
    <3>1. a \in AnswerSet
          BY <1>1 DEF Receipts, AnswerSet
    <3>2. answers[i][d] \subseteq {a, "expired"}
          BY <1>1, <1>2 DEF AgreesWith
    <3> QED BY <3>1, <3>2
  <2> HIDE DEF r
  <2> QED BY <2>1, <2>2, <2>3, <2>4 DEF AgreesWith
<1>3. CASE ~(receipts[i].state = "kept" /\ receipts[i].at < now - Retention)
  <2>1. prune_command_receipts[i] = receipts[i]
        BY <1>3 DEF prune_command_receipts
  <2>2. receipts[i].state = "kept" => now - receipts[i].at <= Retention
        BY <1>1, <1>3
  <2> QED BY <1>1, <2>1, <2>2
<1> QED BY <1>2, <1>3

(* A repeated Command is answered as its receipt says.                     *)
LEMMA RepeatAgrees ==
    ASSUME AccessInv, AnswersAgree, NEW n \in Connections, NEW i \in Commands,
           NEW d \in Digests, Repeats(n, i, d), Version[i] \in ReplayedVersions
    PROVE  AnswersAgree'
<1> DEFINE r == prune_command_receipts[i]
           answer == replay(i, r, d)
<1>0. TypeOK /\ now' = now
      BY DEF AccessInv, Repeats
<1>1. /\ r \in Receipts(now) /\ AgreesWith(r, answers[i], now)
      /\ r.state = "kept" => r = receipts[i] /\ now - receipts[i].at <= Retention
      /\ r.state \in {"kept", "tombstone"}
  <2>1. /\ r \in Receipts(now) /\ AgreesWith(r, answers[i], now)
        /\ r.state = "kept" => r = receipts[i] /\ now - receipts[i].at <= Retention
        /\ r.state = "none" => receipts[i].state = "none"
        BY <1>0, PruneAgrees
  <2> HIDE DEF r
  <2> QED BY <2>1 DEF Receipts, Repeats
<1>2. /\ receipts' = IF answer = "reused" THEN receipts ELSE prune_command_receipts
      /\ answers' = [answers EXCEPT ![i][d] = @ \union {answer}]
      BY DEF Repeats, Answered
<1> HIDE DEF r
<1>3. \/ r.state = "tombstone" /\ answer = "expired"
      \/ r.state = "kept" /\ answer = IF d = r.digest THEN r.outcome ELSE "reused"
  <2>0. now \in Nat /\ Retention \in Nat /\ r.at \in Nat
        BY <1>0, <1>1, PairingAssumption, AccessAssumption DEF TypeOK, Receipts
  <2>1. CASE r.state = "tombstone"
    <3>1. now - r.at > Retention
          BY <1>1, <2>1 DEF AgreesWith
    <3>2. ~(now - r.at <= Retention)
          BY <2>0, <3>1
    <3> QED BY <2>1, <3>1, <3>2 DEF replay
  <2>2. CASE r.state = "kept"
    <3>2. now - r.at <= Retention
          BY <1>1, <2>2
    <3>3. ~(now - r.at > Retention)
          BY <2>0, <3>2
    <3>4. CASE d = r.digest
      <4>1. outcome_version(i, r.outcome) \in ReplayedVersions
            BY DEF outcome_version, ReplayedVersions
      <4> QED BY <2>2, <3>2, <3>3, <3>4, <4>1 DEF replay
    <3>5. CASE d # r.digest
          BY <2>2, <3>2, <3>3, <3>5 DEF replay
    <3> QED BY <3>4, <3>5
  <2> QED BY <1>1, <2>1, <2>2
<1>4. answer \in AnswerSet
      BY <1>1, <1>3 DEF AnswerSet, Receipts
<1> HIDE DEF answer
<1>5. /\ answers' \in [Commands -> [Digests -> SUBSET AnswerSet]]
      /\ \A j \in Commands : j # i => answers'[j] = answers[j]
      /\ \A e \in Digests : e # d => answers'[i][e] = answers[i][e]
      /\ answers'[i][d] = answers[i][d] \union {answer}
      BY <1>2, <1>4 DEF AnswersAgree
<1>6. AgreesWith(r, answers'[i], now)
  <2>1. CASE r.state = "tombstone"
    <3>1. ASSUME NEW e \in Digests
          PROVE  \E a \in AnswerSet : answers'[i][e] \subseteq {a, "expired"}
      <4>1. PICK a \in AnswerSet : answers[i][e] \subseteq {a, "expired"}
            BY <1>1, <2>1 DEF AgreesWith
      <4>2. answers'[i][e] \subseteq {a, "expired"}
            BY <1>3, <1>5, <2>1, <4>1
      <4> QED BY <4>2
    <3> QED BY <1>1, <2>1, <3>1 DEF AgreesWith
  <2>2. CASE r.state = "kept"
    <3>1. ASSUME NEW e \in Digests
          PROVE  answers'[i][e] \subseteq {IF e = r.digest THEN r.outcome ELSE "reused", "expired"}
      <4>1. answers[i][e] \subseteq {IF e = r.digest THEN r.outcome ELSE "reused", "expired"}
            BY <1>1, <2>2 DEF AgreesWith
      <4> QED BY <4>1, <1>3, <1>5, <2>2
    <3> QED BY <2>2, <3>1 DEF AgreesWith
  <2> QED BY <1>1, <2>1, <2>2
<1>7. ASSUME NEW j \in Commands
      PROVE  AgreesWith(receipts'[j], answers'[j], now)
  <2>1. CASE answer = "reused"
    <3>1. r.state = "kept" /\ r = receipts[i]
          BY <1>1, <1>3, <2>1
    <3> QED BY <1>2, <1>5, <1>6, <2>1, <3>1 DEF AnswersAgree
  <2>2. CASE answer # "reused"
    <3>1. receipts'[j] = prune_command_receipts[j]
          BY <1>2, <2>2
    <3>2. CASE j = i
          BY <1>6, <3>1, <3>2 DEF r
    <3>3. CASE j # i
          BY <1>0, <1>5, <3>1, <3>3, PruneAgrees
    <3> QED BY <3>2, <3>3
  <2> QED BY <2>1, <2>2
<1> QED BY <1>0, <1>5, <1>7 DEF AnswersAgree

(* The first execution of a Command keeps what it answers.                 *)
LEMMA ExecuteAgrees ==
    ASSUME AccessInv, AnswersAgree, NEW n \in Connections, NEW i \in Commands,
           NEW d \in Digests, NEW outcome \in {"applied", "refused"}, execute_new(n, i, d, outcome)
    PROVE  AnswersAgree'
<1> DEFINE new == [state |-> "kept", digest |-> d, outcome |-> outcome, at |-> now]
<1>0. TypeOK /\ now' = now /\ receipts[i].state = "none"
      BY DEF AccessInv, execute_new
<1>1. /\ receipts' = [prune_command_receipts EXCEPT ![i] = new]
      /\ answers' = [answers EXCEPT ![i][d] = @ \union {outcome}]
      BY DEF execute_new, insert_command_receipt, Answered
<1>2. new.state = "kept" /\ new.digest = d /\ new.outcome = outcome
      OBVIOUS
<1> HIDE DEF new
<1>3. DOMAIN prune_command_receipts = Commands
      BY DEF prune_command_receipts
<1>4. /\ receipts'[i] = new
      /\ \A j \in Commands : j # i => receipts'[j] = prune_command_receipts[j]
      BY <1>1, <1>3
<1>5. outcome \in AnswerSet
      BY DEF AnswerSet
<1>6. /\ answers' \in [Commands -> [Digests -> SUBSET AnswerSet]]
      /\ \A j \in Commands : j # i => answers'[j] = answers[j]
      /\ \A e \in Digests : e # d => answers'[i][e] = answers[i][e]
      /\ answers'[i][d] = answers[i][d] \union {outcome}
      BY <1>1, <1>5 DEF AnswersAgree
<1>7. \A e \in Digests : answers[i][e] = {}
      BY <1>0 DEF AnswersAgree, AgreesWith
<1>8. AgreesWith(receipts'[i], answers'[i], now)
      BY <1>2, <1>4, <1>6, <1>7 DEF AgreesWith
<1>9. ASSUME NEW j \in Commands, j # i
      PROVE  AgreesWith(receipts'[j], answers'[j], now)
      BY <1>0, <1>4, <1>6, <1>9, PruneAgrees
<1> QED BY <1>0, <1>6, <1>8, <1>9 DEF AnswersAgree

LEMMA AnswersStep ==
    ASSUME AccessInv, AnswersAgree, [Next]_vars,
           \A i \in Commands : Version[i] \in ReplayedVersions
    PROVE  AnswersAgree'
<1>1. CASE UNCHANGED <<receipts, answers, now>>
      BY <1>1 DEF AnswersAgree, AgreesWith
<1>2. CASE Tick
  <2>1. now' = now + 1 /\ UNCHANGED <<receipts, answers>>
        BY <1>2 DEF Tick, history
  <2>2. ASSUME NEW i \in Commands
        PROVE  AgreesWith(receipts[i], answers[i], now')
    <3>1. /\ AgreesWith(receipts[i], answers[i], now)
          /\ now \in Nat /\ Retention \in Nat /\ receipts[i].at \in Nat
          BY PairingAssumption, AccessAssumption DEF AccessInv, TypeOK, AnswersAgree
    <3>2. now - receipts[i].at > Retention => now' - receipts[i].at > Retention
          BY <2>1, <3>1
    <3> QED BY <3>1, <3>2 DEF AgreesWith
  <2> QED BY <2>1, <2>2 DEF AnswersAgree
<1>3. ASSUME NEW n \in Connections, NEW i \in Commands, NEW d \in Digests,
             Repeats(n, i, d) \/ \E outcome \in {"applied", "refused"} : execute_new(n, i, d, outcome)
      PROVE  AnswersAgree'
      BY <1>3, RepeatAgrees, ExecuteAgrees
<1>4. \/ UNCHANGED <<receipts, answers, now>> \/ Tick
      \/ \E n \in Connections, i \in Commands, d \in Digests :
            Repeats(n, i, d) \/ \E outcome \in {"applied", "refused"} : execute_new(n, i, d, outcome)
      BY DEF Next, vars, history, Executes, Abandons, invalidate, Restart, register, Disconnects,
             AuthenticateReads, Fails
<1> QED BY <1>1, <1>2, <1>3, <1>4

(* Every retry of a Command is answered as it was the first time, until    *)
(* its identity expires, whatever was pruned, restarted or lost between,   *)
(* for every Command whose outcome is encoded in a version that replay     *)
(* decodes (OneAnswer: receipt.rs, jet-store command.rs).                  *)
THEOREM RetriesAgree ==
    ASSUME \A i \in Commands : Version[i] \in ReplayedVersions
    PROVE  Spec => []OneAnswer
<1>1. Init => AnswersAgree
  <2> SUFFICES ASSUME Init PROVE AnswersAgree
      OBVIOUS
  <2>1. /\ answers = [i \in Commands |-> [d \in Digests |-> {}]]
        /\ receipts = [i \in Commands |-> NoReceipt] /\ NoReceipt.state = "none"
        BY DEF Init, NoReceipt
  <2> QED BY <2>1 DEF AnswersAgree, AgreesWith
<1>2. AccessInv /\ AnswersAgree /\ [Next]_vars => AnswersAgree'
      BY AnswersStep
<1>3. TypeOK /\ AnswersAgree => OneAnswer
  <2> SUFFICES ASSUME TypeOK, AnswersAgree, NEW i \in Commands, NEW d \in Digests
               PROVE  Cardinality(answers[i][d] \ {"expired"}) <= 1
      BY DEF OneAnswer
  <2>1. receipts[i].state \in {"none", "kept", "tombstone"} /\ AgreesWith(receipts[i], answers[i], now)
        BY DEF TypeOK, AnswersAgree
  <2>2. PICK a : answers[i][d] \subseteq {a, "expired"}
        BY <2>1 DEF AgreesWith
  <2>3. answers[i][d] \ {"expired"} \subseteq {a}
        BY <2>2
  <2>4. IsFiniteSet({a}) /\ Cardinality({a}) = 1
        BY FS_Singleton
  <2>5. Cardinality(answers[i][d] \ {"expired"}) <= Cardinality({a})
        BY <2>3, <2>4, FS_Subset
  <2> QED BY <2>4, <2>5
<1>4. AccessInv => TypeOK
      BY DEF AccessInv
<1> QED BY <1>1, <1>2, <1>3, <1>4, Invariant, PTL DEF Spec
=============================================================================
