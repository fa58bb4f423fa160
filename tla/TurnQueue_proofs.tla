--------------------------- MODULE TurnQueue_proofs ---------------------------
(***************************************************************************)
(* What the operations of the Turn queue return and preserve, for queues   *)
(* of any length.                                                          *)
(***************************************************************************)
EXTENDS TurnQueue, FiniteSetTheorems, WellFoundedInduction, SequenceTheorems, TLAPS

-----------------------------------------------------------------------------
(* Subsequences.                                                           *)

LEMMA PositionsAreFinite ==
    ASSUME NEW k \in Nat, NEW S \in SUBSET (1..k)
    PROVE  IsFiniteSet(S) /\ Cardinality(S) \in Nat
<1>1. IsFiniteSet(1..k)
      BY FS_Interval
<1>2. IsFiniteSet(S)
      BY <1>1, FS_Subset
<1> QED BY <1>2, FS_CardinalityType

LEMMA PositionIsNat ==
    ASSUME NEW k \in Nat, NEW S \in SUBSET (1..k)
    PROVE  \A i \in S : i \in Nat /\ 1 <= i /\ i <= k
OBVIOUS

(* One more position of a set of positions counts one more, or none.       *)
LEMMA CountStep ==
    ASSUME NEW k \in Nat, NEW S \in SUBSET (1..k), NEW i \in Nat
    PROVE  /\ Cardinality({j \in S : j <= i}) \in Nat
           /\ Cardinality({j \in S : j <= i + 1}) =
                IF i + 1 \in S THEN Cardinality({j \in S : j <= i}) + 1
                ELSE Cardinality({j \in S : j <= i})
<1> DEFINE T == {j \in S : j <= i}
<1>0. \A j \in S : j \in Nat
      BY PositionIsNat
<1>1. IsFiniteSet(T) /\ Cardinality(T) \in Nat
      BY PositionsAreFinite
<1>2. CASE i + 1 \in S
  <2>1. {j \in S : j <= i + 1} = T \union {i + 1} /\ i + 1 \notin T
    <3>1. \A j \in S : j <= i + 1 <=> (j <= i \/ j = i + 1)
          BY <1>0
    <3>2. ~(i + 1 <= i)
          OBVIOUS
    <3> QED BY <1>2, <3>1, <3>2
  <2> HIDE DEF T
  <2>2. Cardinality(T \union {i + 1}) = Cardinality(T) + 1
        BY <1>1, <2>1, FS_AddElement
  <2> QED BY <1>1, <1>2, <2>1, <2>2 DEF T
<1>3. CASE i + 1 \notin S
  <2>1. {j \in S : j <= i + 1} = T
    <3>1. \A j \in S : j <= i + 1 <=> (j <= i \/ j = i + 1)
          BY <1>0
    <3> QED BY <1>3, <3>1
  <2> QED BY <1>1, <1>3, <2>1
<1> QED BY <1>2, <1>3

LEMMA NthPosition ==
    ASSUME NEW k \in Nat, NEW S \in SUBSET (1..k), NEW n \in 1..Cardinality(S)
    PROVE  Nth(S, n) \in S /\ Cardinality({j \in S : j <= Nth(S, n)}) = n
<1> DEFINE Count(i) == Cardinality({j \in S : j <= i})
           T == {i \in Nat : Count(i) >= n}
<1>1. \A i \in Nat : /\ Count(i) \in Nat
                     /\ Count(i + 1) = IF i + 1 \in S THEN Count(i) + 1 ELSE Count(i)
      BY CountStep
<1>2. Count(0) = 0
  <2>1. {j \in S : j <= 0} = {}
    <3>1. \A j \in S : ~(j <= 0)
          BY PositionIsNat
    <3> QED BY <3>1
  <2> QED BY <2>1, FS_EmptySet
<1>3. Count(k) = Cardinality(S)
  <2>1. {j \in S : j <= k} = S
        BY PositionIsNat
  <2> QED BY <2>1
<1>4. Cardinality(S) \in Nat /\ n \in Nat /\ n >= 1 /\ n <= Cardinality(S)
      BY PositionsAreFinite
<1>5. k \in T
      BY <1>3, <1>4
<1> HIDE DEF Count
<1>6. PICK i \in T : \A j \in T : ~(j < i)
  <2>1. T \subseteq Nat /\ T /= {}
        BY <1>5
  <2> HIDE DEF T
  <2>2. PICK i \in T : \A j \in T : ~(<<j, i>> \in OpToRel(<, Nat))
        BY <2>1, NatLessThanWellFounded, WFMin
  <2> QED BY <2>1, <2>2 DEF OpToRel
<1>7. i \in S /\ Count(i) = n
  <2>1. i /= 0
        BY <1>2, <1>4, <1>6
  <2>2. i - 1 \in Nat /\ i - 1 \notin T /\ (i - 1) + 1 = i
        BY <1>6, <2>1
  <2>3. Count(i - 1) \in Nat /\ Count(i) = IF i \in S THEN Count(i - 1) + 1 ELSE Count(i - 1)
        BY <1>1, <2>2
  <2>4. Count(i - 1) < n /\ Count(i) >= n
        BY <1>4, <1>6, <2>2, <2>3
  <2> QED BY <1>4, <2>3, <2>4
<1> QED BY <1>7 DEF Nth, Count

LEMMA NthIncreases ==
    ASSUME NEW k \in Nat, NEW S \in SUBSET (1..k),
           NEW m \in 1..Cardinality(S), NEW n \in 1..Cardinality(S), m < n
    PROVE  Nth(S, m) < Nth(S, n)
<1>1. PICK a \in S : a = Nth(S, m) /\ Cardinality({j \in S : j <= a}) = m
      BY NthPosition
<1>2. PICK b \in S : b = Nth(S, n) /\ Cardinality({j \in S : j <= b}) = n
      BY NthPosition
<1>3. CASE b <= a
  <2>1. {j \in S : j <= b} \in SUBSET {j \in S : j <= a}
    <3>1. \A j \in S : j <= b => j <= a
          BY <1>3, PositionIsNat
    <3> QED BY <3>1
  <2>2. IsFiniteSet({j \in S : j <= a})
        BY PositionsAreFinite
  <2>3. Cardinality({j \in S : j <= b}) <= Cardinality({j \in S : j <= a})
        BY <2>1, <2>2, FS_Subset
  <2> QED BY <1>1, <1>2, <2>3, PositionsAreFinite
<1> QED BY <1>1, <1>2, <1>3

LEMMA NthOnto ==
    ASSUME NEW k \in Nat, NEW S \in SUBSET (1..k), NEW i \in S
    PROVE  \E n \in 1..Cardinality(S) : Nth(S, n) = i
<1> DEFINE Count(j) == Cardinality({l \in S : l <= j})
<1>1. Count(i) \in Nat /\ Count(i) <= Cardinality(S) /\ Cardinality(S) \in Nat
  <2>1. IsFiniteSet(S) /\ {l \in S : l <= i} \in SUBSET S
        BY PositionsAreFinite
  <2> QED BY <2>1, FS_Subset, FS_CardinalityType
<1>2. Count(i) >= 1
  <2>1. IsFiniteSet({l \in S : l <= i}) /\ i \in {l \in S : l <= i}
        BY PositionsAreFinite, PositionIsNat
  <2>2. Count(i) /= 0
        BY <2>1, FS_EmptySet
  <2> QED BY <1>1, <2>2
<1>3. Count(i) \in 1..Cardinality(S)
      BY <1>1, <1>2
<1>4. PICK a \in S : a = Nth(S, Count(i)) /\ Count(a) = Count(i)
      BY <1>3, NthPosition
<1>5. ASSUME NEW x \in S, NEW y \in S, x < y, Count(x) = Count(y)
      PROVE  FALSE
  <2>1. {l \in S : l <= x} \in SUBSET {l \in S : l <= y} /\ y \notin {l \in S : l <= x}
    <3>1. \A l \in S : l <= x => l <= y
          BY <1>5, PositionIsNat
    <3>2. ~(y <= x) /\ x \in Nat /\ y \in Nat
          BY <1>5, PositionIsNat
    <3> QED BY <3>1, <3>2
  <2>2. IsFiniteSet({l \in S : l <= y}) /\ y \in {l \in S : l <= y}
    <3>1. y <= y
          BY PositionIsNat
    <3> QED BY <3>1, PositionsAreFinite
  <2> QED BY <1>5, <2>1, <2>2, FS_Subset
<1>6. a = i
  <2>1. a \in 1..k /\ i \in 1..k
        OBVIOUS
  <2> QED BY <1>4, <1>5, <2>1
<1> QED BY <1>3, <1>4, <1>6

(* f counts the m positions of S upwards.                                  *)
Enumerates(f, m, S) ==
    /\ f \in [1..m -> S]
    /\ \A a, b \in 1..m : a < b => f[a] < f[b]
    /\ \A i \in S : \E a \in 1..m : f[a] = i

(* Whatever counts the positions of S upwards is Nth.                      *)
LEMMA NthUnique ==
    ASSUME NEW k \in Nat, NEW S \in SUBSET (1..k), NEW m \in Nat, NEW f, Enumerates(f, m, S)
    PROVE  m = Cardinality(S) /\ \A n \in 1..m : Nth(S, n) = f[n]
<1>0. /\ f \in [1..m -> S]
      /\ \A a, b \in 1..m : a < b => f[a] < f[b]
      /\ \A i \in S : \E a \in 1..m : f[a] = i
      BY DEF Enumerates
<1>1. \A a, b \in 1..m : f[a] = f[b] => a = b
  <2>1. \A a \in 1..m : f[a] \in 1..k
        BY <1>0
  <2> QED BY <1>0, <2>1
<1>2. ASSUME NEW n \in 0..m, NEW T, T = {i \in S : \E a \in 1..n : f[a] = i}
      PROVE  Cardinality(T) = n
  <2> DEFINE g == [a \in 1..n |-> f[a]]
  <2>1. g \in Bijection(1..n, T)
    <3>1. \A a \in 1..n : a \in 1..m /\ g[a] = f[a] /\ f[a] \in T
          BY <1>0, <1>2
    <3>2. g \in [1..n -> T]
          BY <3>1
    <3>3. \A a, b \in 1..n : g[a] = g[b] => a = b
          BY <1>1, <3>1
    <3>4. \A i \in T : \E a \in 1..n : g[a] = i
          BY <1>2, <3>1
    <3> HIDE DEF g
    <3> QED BY <3>2, <3>3, <3>4 DEF Bijection, Injection, Surjection, IsInjective
  <2>2. IsFiniteSet(1..n) /\ Cardinality(1..n) = n
        BY FS_Interval
  <2>3. ExistsBijection(1..n, T)
        BY <2>1 DEF ExistsBijection
  <2> QED BY <2>2, <2>3, FS_Bijection
<1>3. m = Cardinality(S)
  <2>1. S = {i \in S : \E a \in 1..m : f[a] = i}
        BY <1>0
  <2> QED BY <1>2, <2>1
<1>4. ASSUME NEW n \in 1..m
      PROVE  Cardinality({i \in S : i <= f[n]}) = n
  <2>1. ASSUME NEW i \in S
        PROVE  i <= f[n] <=> \E a \in 1..n : f[a] = i
    <3>1. PICK b \in 1..m : f[b] = i
          BY <1>0
    <3>2. f[b] \in 1..k /\ f[n] \in 1..k
          BY <1>0
    <3>3. b <= n => f[b] <= f[n]
          BY <1>0, <3>2
    <3>4. b > n => ~(f[b] <= f[n])
          BY <1>0, <3>2
    <3> QED BY <1>1, <3>1, <3>3, <3>4
  <2>2. {i \in S : i <= f[n]} = {i \in S : \E a \in 1..n : f[a] = i}
        BY <2>1
  <2> QED BY <1>2, <2>2
<1>5. ASSUME NEW n \in 1..m
      PROVE  Nth(S, n) = f[n]
  <2>1. PICK i \in S : i = Nth(S, n) /\ Cardinality({j \in S : j <= i}) = n
        BY <1>3, NthPosition
  <2>2. PICK b \in 1..m : f[b] = i
        BY <1>0
  <2>3. b = n
        BY <1>4, <2>1, <2>2
  <2> QED BY <2>1, <2>2, <2>3
<1> QED BY <1>3, <1>5

LEMMA SubProperties ==
    ASSUME NEW E, NEW q \in Seq(E), NEW S \in SUBSET DOMAIN q
    PROVE  /\ Cardinality(S) \in Nat /\ Sub(q, S) \in Seq(E) /\ Len(Sub(q, S)) = Cardinality(S)
           /\ \A n \in 1..Cardinality(S) : Nth(S, n) \in S /\ Sub(q, S)[n] = q[Nth(S, n)]
<1>1. Len(q) \in Nat /\ DOMAIN q = 1..Len(q) /\ S \in SUBSET (1..Len(q))
      OBVIOUS
<1>2. Cardinality(S) \in Nat
      BY <1>1, PositionsAreFinite
<1>3. \A n \in 1..Cardinality(S) : Nth(S, n) \in S
      BY <1>1, NthPosition
<1>4. \A n \in 1..Cardinality(S) : Nth(S, n) \in 1..Len(q) /\ q[Nth(S, n)] \in E
      BY <1>1, <1>3
<1>5. Sub(q, S) = [n \in 1..Cardinality(S) |-> q[Nth(S, n)]]
      BY DEF Sub
<1>6. Sub(q, S) \in [1..Cardinality(S) -> E]
      BY <1>4, <1>5
<1> QED BY <1>2, <1>3, <1>5, <1>6

LEMMA RemoveAtProperties ==
    ASSUME NEW E, NEW q \in Seq(E), NEW i \in 1..Len(q)
    PROVE  /\ RemoveAt(q, i) \in Seq(E) /\ Len(RemoveAt(q, i)) = Len(q) - 1
           /\ \A n \in 1..(Len(q) - 1) :
                RemoveAt(q, i)[n] = IF n < i THEN q[n] ELSE q[n + 1]
<1> DEFINE front == SubSeq(q, 1, i - 1)
           back == SubSeq(q, i + 1, Len(q))
<1>1. Len(q) \in Nat /\ i \in Nat /\ 1 <= i /\ i <= Len(q)
      OBVIOUS
<1>2. /\ front \in Seq(E) /\ Len(front) = i - 1
      /\ \A n \in 1..(i - 1) : front[n] = q[n]
      BY <1>1
<1>3. /\ back \in Seq(E) /\ Len(back) = Len(q) - i
      /\ \A n \in 1..(Len(q) - i) : back[n] = q[n + i]
      BY <1>1
<1>4. RemoveAt(q, i) = front \o back
      BY DEF RemoveAt
<1> HIDE DEF front, back
<1>5. /\ front \o back \in Seq(E) /\ Len(front \o back) = Len(front) + Len(back)
      /\ \A n \in 1..(Len(front) + Len(back)) :
            (front \o back)[n] = IF n <= Len(front) THEN front[n] ELSE back[n - Len(front)]
      BY <1>2, <1>3, ConcatProperties
<1>6. Len(front) + Len(back) = Len(q) - 1
      BY <1>1, <1>2, <1>3
<1>7. ASSUME NEW n \in 1..(Len(q) - 1)
      PROVE  (front \o back)[n] = IF n < i THEN q[n] ELSE q[n + 1]
  <2>1. CASE n < i
        BY <1>1, <1>2, <1>5, <1>6, <2>1
  <2>2. CASE ~(n < i)
    <3>1. /\ ~(n <= Len(front)) /\ n - Len(front) = n - (i - 1)
          /\ n - (i - 1) \in 1..(Len(q) - i) /\ (n - (i - 1)) + i = n + 1
          BY <1>1, <1>2, <2>2
    <3>2. (front \o back)[n] = back[n - (i - 1)]
          BY <1>5, <1>6, <3>1
    <3> QED BY <1>3, <2>2, <3>1, <3>2
  <2> QED BY <2>1, <2>2
<1> QED BY <1>4, <1>5, <1>6, <1>7

-----------------------------------------------------------------------------
(* The queue, and what the journal says of its Turns.                      *)

(* A Turn is in the queue once, in the state the journal gave it last, and *)
(* only the first may be claimed.                                          *)
QueueOK(q, s) ==
    /\ q \in Seq(Entry)
    /\ \A i, j \in DOMAIN q : q[i].turn = q[j].turn => i = j
    /\ \A i \in DOMAIN q : /\ s[q[i].turn] = q[i].state
                           /\ q[i].state = "queued" => q[i].run = NoRun
                           /\ q[i].state \in Claims => i = 1 /\ q[i].run \in Runs
    /\ \A t \in Turns : s[t] \in {"queued"} \union Claims => \E i \in DOMAIN q : q[i].turn = t

(* The journal after it says something of t.                               *)
Said(s, t, state) == [s EXCEPT ![t] = state]

(* The journal after the admission of t.                                   *)
AfterAdmission(q, s, t) ==
    [u \in Turns |-> IF u = t THEN "queued"
                     ELSE IF u \in Displaced(q, t) THEN DisplacedState(t)
                     ELSE s[u]]

LEMMA EntryFields ==
    ASSUME NEW q \in Seq(Entry), NEW i \in DOMAIN q
    PROVE  /\ q[i] \in Entry /\ q[i].turn \in Turns /\ q[i].state \in {"queued"} \union Claims
           /\ q[i].run \in Runs \union {NoRun} /\ i \in Nat /\ 1 <= i /\ i <= Len(q)
<1>1. DOMAIN q = 1..Len(q) /\ Len(q) \in Nat
      OBVIOUS
<1>2. q[i] \in Entry
      BY <1>1
<1> QED BY <1>1, <1>2 DEF Entry

(* What stays is counted upwards by a function h.                          *)
LEMMA KeptProperties ==
    ASSUME NEW q \in Seq(Entry), NEW t \in Turns
    PROVE  /\ Kept(q, t) \in Seq(Entry)
           /\ \E h \in [1..Len(Kept(q, t)) -> DOMAIN q] :
                /\ \A n \in 1..Len(Kept(q, t)) :
                    Kept(q, t)[n] = q[h[n]] /\ ~Replaced(q[h[n]], t)
                /\ \A m, n \in 1..Len(Kept(q, t)) : m < n => h[m] < h[n]
                /\ \A i \in DOMAIN q : ~Replaced(q[i], t) =>
                    \E n \in 1..Len(Kept(q, t)) : h[n] = i
<1> DEFINE S == {i \in DOMAIN q : ~Replaced(q[i], t)}
           h == [n \in 1..Cardinality(S) |-> Nth(S, n)]
<1>1. Len(q) \in Nat /\ DOMAIN q = 1..Len(q) /\ S \in SUBSET (1..Len(q)) /\ S \in SUBSET DOMAIN q
      OBVIOUS
<1>2. Kept(q, t) = Sub(q, S)
      BY DEF Kept
<1>3. \A i \in S : i \in DOMAIN q /\ ~Replaced(q[i], t)
      OBVIOUS
<1>4. \A i \in DOMAIN q : ~Replaced(q[i], t) => i \in S
      OBVIOUS
<1> HIDE DEF S
<1>5. /\ Cardinality(S) \in Nat /\ Kept(q, t) \in Seq(Entry) /\ Len(Kept(q, t)) = Cardinality(S)
      /\ \A n \in 1..Cardinality(S) : Nth(S, n) \in S /\ Kept(q, t)[n] = q[Nth(S, n)]
      BY <1>1, <1>2, SubProperties
<1>6. h \in [1..Len(Kept(q, t)) -> DOMAIN q]
      BY <1>3, <1>5
<1>7. \A n \in 1..Len(Kept(q, t)) : Kept(q, t)[n] = q[h[n]] /\ ~Replaced(q[h[n]], t)
      BY <1>3, <1>5
<1>8. \A m, n \in 1..Len(Kept(q, t)) : m < n => h[m] < h[n]
      BY <1>1, <1>5, NthIncreases
<1>9. \A i \in DOMAIN q : ~Replaced(q[i], t) => \E n \in 1..Len(Kept(q, t)) : h[n] = i
      BY <1>1, <1>4, <1>5, NthOnto
<1> HIDE DEF h
<1> QED BY <1>5, <1>6, <1>7, <1>8, <1>9

LEMMA PrepareOK ==
    ASSUME NEW s \in [Turns -> Statuses], NEW q, QueueOK(q, s), NEW t \in Turns, s[t] = "absent"
    PROVE  /\ QueueOK(prepare(q, t), AfterAdmission(q, s, t))
           /\ Len(prepare(q, t)) \in Nat \ {0}
           /\ \A i \in DOMAIN prepare(q, t) : prepare(q, t)[i].state \in Claims =>
                i = 1 /\ 1 \in DOMAIN q /\ prepare(q, t)[i] = q[1]
           /\ \A i \in DOMAIN q : q[i].state \in Claims => prepare(q, t)[1] = q[1]
<1>1. q \in Seq(Entry) /\ DOMAIN q = 1..Len(q) /\ Len(q) \in Nat
      BY DEF QueueOK
<1>2. PICK k : k = Kept(q, t)
      OBVIOUS
<1>3. k \in Seq(Entry) /\ Len(k) \in Nat
      BY <1>1, <1>2, KeptProperties
<1>4. PICK h \in [1..Len(k) -> DOMAIN q] :
        /\ \A n \in 1..Len(k) : k[n] = q[h[n]] /\ ~Replaced(q[h[n]], t)
        /\ \A m, n \in 1..Len(k) : m < n => h[m] < h[n]
        /\ \A i \in DOMAIN q : ~Replaced(q[i], t) => \E n \in 1..Len(k) : h[n] = i
  <2>1. PICK h \in [1..Len(Kept(q, t)) -> DOMAIN q] :
            /\ \A n \in 1..Len(Kept(q, t)) : Kept(q, t)[n] = q[h[n]] /\ ~Replaced(q[h[n]], t)
            /\ \A m, n \in 1..Len(Kept(q, t)) : m < n => h[m] < h[n]
            /\ \A i \in DOMAIN q : ~Replaced(q[i], t) =>
                  \E n \in 1..Len(Kept(q, t)) : h[n] = i
        BY <1>1, KeptProperties
  <2>2. h \in [1..Len(k) -> DOMAIN q]
        BY <1>2, <2>1
  <2>3. \A n \in 1..Len(k) : k[n] = q[h[n]] /\ ~Replaced(q[h[n]], t)
        BY <1>2, <2>1
  <2>4. \A m, n \in 1..Len(k) : m < n => h[m] < h[n]
        BY <1>2, <2>1
  <2>5. \A i \in DOMAIN q : ~Replaced(q[i], t) => \E n \in 1..Len(k) : h[n] = i
        BY <1>2, <2>1
  <2> QED BY <2>2, <2>3, <2>4, <2>5
<1>5. PICK e : e = [turn |-> t, state |-> "queued", run |-> NoRun]
      OBVIOUS
<1>6. e \in Entry /\ e.turn = t /\ e.state = "queued" /\ e.run = NoRun
      BY <1>5 DEF Entry
<1>7. PICK p : p = prepare(q, t)
      OBVIOUS
<1>8. /\ p \in Seq(Entry) /\ Len(p) = Len(k) + 1 /\ DOMAIN p = 1..(Len(k) + 1)
      /\ \A n \in 1..Len(k) : p[n] = k[n]
      /\ p[Len(k) + 1] = e
  <2>1. p = Append(k, e)
        BY <1>2, <1>5, <1>7 DEF prepare
  <2> QED BY <1>3, <1>6, <2>1, AppendProperties
<1>9. \A n \in DOMAIN p : n \in 1..Len(k) \/ n = Len(k) + 1
      BY <1>3, <1>8
<1>10. \A m, n \in 1..Len(k) : h[m] = h[n] => m = n
  <2>1. \A n \in 1..Len(k) : h[n] \in Nat
        BY <1>1
  <2> QED BY <1>3, <1>4, <2>1
<1>11. \A i \in DOMAIN q : q[i].turn /= t /\ q[i].turn \in Turns
  <2>1. "absent" \notin {"queued"} \union Claims
        BY DEF Claims
  <2> QED BY <1>1, <2>1, EntryFields DEF QueueOK
<1>12. \A i \in DOMAIN q : q[i].turn \in Displaced(q, t) <=> Replaced(q[i], t)
       BY DEF QueueOK, Displaced
<1>13. PICK after : after = AfterAdmission(q, s, t)
       OBVIOUS
<1>14. /\ after[t] = "queued"
       /\ \A u \in Turns : u /= t /\ u \notin Displaced(q, t) => after[u] = s[u]
       /\ \A u \in Turns : u /= t /\ u \in Displaced(q, t) => after[u] \notin {"queued"} \union Claims
       BY <1>13 DEF AfterAdmission, DisplacedState, Claims
<1>15. \A n \in 1..Len(k) : p[n] = q[h[n]] /\ h[n] \in DOMAIN q /\ ~Replaced(q[h[n]], t)
       BY <1>4, <1>8
<1>16. ASSUME NEW n \in DOMAIN p, p[n].state \in Claims
       PROVE  n = 1 /\ n \in 1..Len(k) /\ h[n] = 1 /\ p[n] = q[1] /\ 1 \in DOMAIN q
  <2>1. n \in 1..Len(k)
        BY <1>6, <1>8, <1>9, <1>16 DEF Claims
  <2>2. h[n] = 1
        BY <1>15, <1>16, <2>1 DEF QueueOK
  <2>3. n = 1
    <3>1. 1 \in 1..Len(k) /\ h[1] \in Nat /\ h[1] >= 1
          BY <1>1, <1>3, <2>1
    <3>2. n > 1 => h[1] < h[n]
          BY <1>4, <2>1, <3>1
    <3> QED BY <2>1, <2>2, <3>1, <3>2
  <2> QED BY <1>15, <2>1, <2>2, <2>3
<1>17. QueueOK(p, after)
  <2>1. ASSUME NEW i \in DOMAIN p, NEW j \in DOMAIN p, p[i].turn = p[j].turn
        PROVE  i = j
    <3>1. CASE i \in 1..Len(k) /\ j \in 1..Len(k)
          BY <1>10, <1>15, <2>1, <3>1 DEF QueueOK
    <3>2. CASE ~(i \in 1..Len(k) /\ j \in 1..Len(k))
          BY <1>6, <1>8, <1>9, <1>11, <1>15, <2>1, <3>2
    <3> QED BY <3>1, <3>2
  <2>2. ASSUME NEW i \in DOMAIN p
        PROVE  /\ after[p[i].turn] = p[i].state
               /\ p[i].state = "queued" => p[i].run = NoRun
               /\ p[i].state \in Claims => i = 1 /\ p[i].run \in Runs
    <3>1. CASE i \in 1..Len(k)
      <4>1. p[i].turn /= t /\ p[i].turn \in Turns /\ p[i].turn \notin Displaced(q, t)
            BY <1>11, <1>12, <1>15, <3>1
      <4>2. after[p[i].turn] = s[q[h[i]].turn] /\ p[i] = q[h[i]] /\ h[i] \in DOMAIN q
            BY <1>14, <1>15, <3>1, <4>1
      <4> QED BY <1>16, <4>2 DEF QueueOK
    <3>2. CASE i = Len(k) + 1
          BY <1>6, <1>8, <1>14, <3>2 DEF Claims
    <3> QED BY <1>9, <3>1, <3>2
  <2>3. ASSUME NEW u \in Turns, after[u] \in {"queued"} \union Claims
        PROVE  \E i \in DOMAIN p : p[i].turn = u
    <3>1. CASE u = t
          BY <1>3, <1>6, <1>8, <3>1
    <3>2. CASE u /= t
      <4>1. u \notin Displaced(q, t) /\ after[u] = s[u]
            BY <1>14, <2>3, <3>2
      <4>2. PICK i \in DOMAIN q : q[i].turn = u
            BY <2>3, <4>1 DEF QueueOK
      <4>3. PICK n \in 1..Len(k) : h[n] = i
            BY <1>4, <1>12, <4>1, <4>2
      <4> QED BY <1>3, <1>8, <1>15, <4>2, <4>3
    <3> QED BY <3>1, <3>2
  <2> QED BY <1>8, <2>1, <2>2, <2>3 DEF QueueOK
<1>18. ASSUME NEW i \in DOMAIN q, q[i].state \in Claims
       PROVE  p[1] = q[1]
  <2>1. i = 1 /\ ~Replaced(q[i], t)
        BY <1>18 DEF QueueOK, Replaced, Claims
  <2>2. PICK n \in 1..Len(k) : h[n] = 1
        BY <1>4, <2>1
  <2>3. n \in DOMAIN p /\ p[n].state \in Claims
        BY <1>3, <1>8, <1>15, <1>18, <2>1, <2>2
  <2> QED BY <1>16, <2>3
<1> QED BY <1>3, <1>7, <1>8, <1>13, <1>16, <1>17, <1>18

LEMMA ClaimOK ==
    ASSUME NEW s \in [Turns -> Statuses], NEW q, QueueOK(q, s), ready(q), NEW r \in Runs
    PROVE  /\ 1 \in DOMAIN q /\ q[1].turn \in Turns /\ s[q[1].turn] = "queued"
           /\ QueueOK(claim(q, r), Said(s, q[1].turn, "active"))
           /\ Len(claim(q, r)) = Len(q)
           /\ claim(q, r)[1] = [turn |-> q[1].turn, state |-> "active", run |-> r]
           /\ \A i \in DOMAIN q : /\ q[i].run = NoRun /\ q[i].state = "queued"
                                  /\ i /= 1 => claim(q, r)[i] = q[i]
<1>1. q \in Seq(Entry) /\ DOMAIN q = 1..Len(q) /\ Len(q) \in Nat /\ q /= <<>>
      BY DEF QueueOK, ready
<1>2. 1 \in DOMAIN q
      BY <1>1
<1>3. q[1] \in Entry /\ q[1].turn \in Turns /\ s[q[1].turn] = "queued" /\ q[1].state = "queued"
      BY <1>1, <1>2, EntryFields DEF QueueOK, ready
<1>4. PICK e : e = [turn |-> q[1].turn, state |-> "active", run |-> r]
      OBVIOUS
<1>5. e \in Entry /\ e.turn = q[1].turn /\ e.state = "active" /\ e.run = r
      BY <1>3, <1>4 DEF Entry, Claims
<1>6. claim(q, r) = [q EXCEPT ![1] = e]
  <2>1. PICK x \in Entry : x = q[1]
        BY <1>3
  <2>2. [x EXCEPT !.state = "active", !.run = r] = [turn |-> x.turn, state |-> "active", run |-> r]
    <3>1. PICK y : y = [turn |-> x.turn, state |-> "active", run |-> x.run]
          OBVIOUS
    <3>2. [x EXCEPT !.state = "active"] = y
          BY <3>1 DEF Entry
    <3>3. [y EXCEPT !.run = r] = [turn |-> x.turn, state |-> "active", run |-> r]
          BY <3>1
    <3> QED BY <3>2, <3>3
  <2> QED BY <1>1, <1>2, <1>4, <2>1, <2>2 DEF claim, claimed
<1>7. PICK c : c = claim(q, r)
      OBVIOUS
<1>8. /\ c \in Seq(Entry) /\ Len(c) = Len(q) /\ DOMAIN c = DOMAIN q /\ c[1] = e
      /\ \A i \in DOMAIN q : i /= 1 => c[i] = q[i]
      BY <1>1, <1>2, <1>5, <1>6, <1>7
<1>9. PICK after : after = Said(s, q[1].turn, "active")
      OBVIOUS
<1>10. after[q[1].turn] = "active" /\ \A u \in Turns : u /= q[1].turn => after[u] = s[u]
       BY <1>3, <1>9 DEF Said
<1>11. \A i \in DOMAIN q : q[i].run = NoRun /\ q[i].state = "queued" /\ q[i].turn \in Turns
       BY <1>1, EntryFields DEF QueueOK, ready
<1>12. \A i \in DOMAIN c : c[i].turn = q[i].turn
       BY <1>5, <1>8
<1>13. QueueOK(c, after)
  <2>1. \A i, j \in DOMAIN c : c[i].turn = c[j].turn => i = j
        BY <1>8, <1>12 DEF QueueOK
  <2>2. ASSUME NEW i \in DOMAIN c
        PROVE  /\ after[c[i].turn] = c[i].state
               /\ c[i].state = "queued" => c[i].run = NoRun
               /\ c[i].state \in Claims => i = 1 /\ c[i].run \in Runs
    <3>1. CASE i = 1
          BY <1>5, <1>8, <1>10, <3>1
    <3>2. CASE i /= 1
      <4>1. c[i] = q[i] /\ c[i].state = "queued" /\ c[i].run = NoRun /\ c[i].turn /= q[1].turn
            BY <1>2, <1>8, <1>11, <3>2 DEF QueueOK
      <4>2. after[c[i].turn] = s[q[i].turn]
            BY <1>8, <1>10, <1>11, <4>1
      <4> QED BY <1>8, <4>1, <4>2 DEF QueueOK, Claims
    <3> QED BY <3>1, <3>2
  <2>3. \A u \in Turns : after[u] \in {"queued"} \union Claims => \E i \in DOMAIN c : c[i].turn = u
        BY <1>2, <1>8, <1>10, <1>12 DEF QueueOK
  <2> QED BY <1>8, <2>1, <2>2, <2>3 DEF QueueOK
<1> QED BY <1>2, <1>3, <1>4, <1>7, <1>8, <1>9, <1>11, <1>13

(* The entries of a Run: its claim at the front, or none.                  *)
LEMMA OwnedIsFirst ==
    ASSUME NEW s \in [Turns -> Statuses], NEW q, QueueOK(q, s), NEW r \in Runs
    PROVE  /\ \A i \in Owned(q, r) : i = 1 /\ i \in DOMAIN q /\ q[i].state \in Claims
           /\ Owned(q, r) /= {} => Owned(q, r) = {1} /\ Min(Owned(q, r)) = 1
<1>1. \A i \in Owned(q, r) : i = 1 /\ i \in DOMAIN q /\ q[i].state \in Claims
  <2> SUFFICES ASSUME NEW i \in Owned(q, r)
               PROVE  i = 1 /\ i \in DOMAIN q /\ q[i].state \in Claims
      OBVIOUS
  <2>1. i \in DOMAIN q /\ q[i].run = r /\ r /= NoRun
        BY QueueAssumption DEF Owned
  <2>2. q[i].state \in {"queued"} \union Claims
        BY <2>1, EntryFields DEF QueueOK
  <2> QED BY <2>1, <2>2 DEF QueueOK
<1>2. ASSUME Owned(q, r) /= {}
      PROVE  Owned(q, r) = {1} /\ Min(Owned(q, r)) = 1
  <2>1. Owned(q, r) = {1}
        BY <1>1, <1>2
  <2>2. Min({1}) = 1
        BY DEF Min
  <2> QED BY <2>1, <2>2
<1> QED BY <1>1, <1>2

LEMMA SettleOK ==
    ASSUME NEW s \in [Turns -> Statuses], NEW q, QueueOK(q, s),
           1 \in DOMAIN q, q[1].state \in Claims,
           NEW state \in {"completed", "failed", "canceled", "outcome_unknown"}
    PROVE  /\ q[1].turn \in Turns
           /\ QueueOK(settle(q, 1, state), Said(s, q[1].turn, state))
           /\ state /= "outcome_unknown" =>
                /\ Len(settle(q, 1, state)) = Len(q) - 1
                /\ \A i \in DOMAIN settle(q, 1, state) :
                      /\ i + 1 \in DOMAIN q /\ settle(q, 1, state)[i] = q[i + 1]
                      /\ settle(q, 1, state)[i].state = "queued"
           /\ state = "outcome_unknown" =>
                /\ Len(settle(q, 1, state)) = Len(q)
                /\ settle(q, 1, state)[1].turn = q[1].turn /\ settle(q, 1, state)[1].state = state
                /\ settle(q, 1, state)[1].run = q[1].run
                /\ \A i \in DOMAIN q : i /= 1 => settle(q, 1, state)[i] = q[i]
<1>1. q \in Seq(Entry) /\ DOMAIN q = 1..Len(q) /\ Len(q) \in Nat
      BY DEF QueueOK
<1>2. \A i \in DOMAIN q : q[i] \in Entry /\ q[i].turn \in Turns /\ q[i].state \in {"queued"} \union Claims
      BY <1>1, EntryFields
<1>3. PICK after : after = Said(s, q[1].turn, state)
      OBVIOUS
<1>4. after[q[1].turn] = state /\ \A u \in Turns : u /= q[1].turn => after[u] = s[u]
      BY <1>2, <1>3 DEF Said
<1>5. PICK p : p = settle(q, 1, state)
      OBVIOUS
<1>6. \A i \in DOMAIN q : i /= 1 => q[i].state = "queued" /\ q[i].turn /= q[1].turn
      BY <1>2 DEF QueueOK
<1>7. CASE state /= "outcome_unknown"
  <2>1. p = RemoveAt(q, 1)
        BY <1>5, <1>7 DEF settle
  <2>2. /\ p \in Seq(Entry) /\ Len(p) = Len(q) - 1
        /\ \A n \in 1..(Len(q) - 1) : p[n] = IF n < 1 THEN q[n] ELSE q[n + 1]
        BY <1>1, <2>1, RemoveAtProperties
  <2>3. DOMAIN p = 1..(Len(q) - 1)
        BY <1>1, <2>2
  <2>4. \A n \in DOMAIN p : n \in Nat /\ n + 1 \in DOMAIN q /\ n + 1 /= 1 /\ p[n] = q[n + 1]
        BY <1>1, <2>2, <2>3
  <2>5. ASSUME NEW i \in DOMAIN q, i /= 1
        PROVE  \E n \in DOMAIN p : n + 1 = i /\ p[n] = q[i]
    <3>1. i - 1 \in DOMAIN p /\ (i - 1) + 1 = i
          BY <1>1, <2>3, <2>5
    <3> QED BY <2>4, <3>1
  <2>6. QueueOK(p, after)
    <3>1. ASSUME NEW i \in DOMAIN p, NEW j \in DOMAIN p, p[i].turn = p[j].turn
          PROVE  i = j
      <4>1. i + 1 = j + 1 /\ i \in Nat /\ j \in Nat
            BY <2>4, <3>1 DEF QueueOK
      <4> QED BY <4>1
    <3>2. \A i \in DOMAIN p : /\ after[p[i].turn] = p[i].state
                              /\ p[i].state = "queued" /\ p[i].run = NoRun
                              /\ "queued" \notin Claims
          BY <1>2, <1>4, <1>6, <2>4 DEF QueueOK, Claims
    <3>3. ASSUME NEW u \in Turns, after[u] \in {"queued"} \union Claims
          PROVE  \E i \in DOMAIN p : p[i].turn = u
      <4>1. u /= q[1].turn
            BY <1>4, <1>7, <3>3 DEF Claims
      <4>2. PICK i \in DOMAIN q : q[i].turn = u
            BY <1>4, <3>3, <4>1 DEF QueueOK
      <4> QED BY <2>5, <4>1, <4>2
    <3> QED BY <2>2, <3>1, <3>2, <3>3 DEF QueueOK
  <2> QED BY <1>2, <1>3, <1>5, <1>6, <1>7, <2>2, <2>4, <2>6
<1>8. CASE state = "outcome_unknown"
  <2>1. PICK x \in Entry : x = q[1]
        BY <1>2
  <2>2. PICK e : e = [turn |-> x.turn, state |-> state, run |-> x.run]
        OBVIOUS
  <2>3. [x EXCEPT !.state = state] = e /\ e \in Entry
        BY <1>8, <2>2 DEF Entry, Claims
  <2>4. p = [q EXCEPT ![1] = e]
        BY <1>1, <1>5, <1>8, <2>1, <2>3 DEF settle
  <2>5. /\ p \in Seq(Entry) /\ Len(p) = Len(q) /\ DOMAIN p = DOMAIN q /\ p[1] = e
        /\ \A i \in DOMAIN q : i /= 1 => p[i] = q[i]
        BY <1>1, <2>3, <2>4
  <2>6. e.turn = q[1].turn /\ e.state = state /\ e.run = q[1].run
        BY <2>1, <2>2
  <2>7. \A i \in DOMAIN p : p[i].turn = q[i].turn
        BY <2>5, <2>6
  <2>8. QueueOK(p, after)
    <3>1. \A i, j \in DOMAIN p : p[i].turn = p[j].turn => i = j
          BY <2>5, <2>7 DEF QueueOK
    <3>2. ASSUME NEW i \in DOMAIN p
          PROVE  /\ after[p[i].turn] = p[i].state
                 /\ p[i].state = "queued" => p[i].run = NoRun
                 /\ p[i].state \in Claims => i = 1 /\ p[i].run \in Runs
      <4>1. CASE i = 1
            BY <1>4, <1>8, <2>5, <2>6, <4>1 DEF QueueOK
      <4>2. CASE i /= 1
            BY <1>2, <1>4, <1>6, <2>5, <4>2 DEF QueueOK
      <4> QED BY <4>1, <4>2
    <3>3. \A u \in Turns : after[u] \in {"queued"} \union Claims => \E i \in DOMAIN p : p[i].turn = u
          BY <1>4, <2>5, <2>7 DEF QueueOK
    <3> QED BY <2>5, <3>1, <3>2, <3>3 DEF QueueOK
  <2> QED BY <1>2, <1>3, <1>5, <1>8, <2>5, <2>6, <2>8
<1> QED BY <1>7, <1>8

LEMMA WithdrawOK ==
    ASSUME NEW s \in [Turns -> Statuses], NEW q, QueueOK(q, s), NEW t \in Turns,
           NEW i \in position(q, t), q[i].state = "queued"
    PROVE  /\ i \in DOMAIN q /\ q[i].turn = t /\ s[t] = "queued"
           /\ withdraw(q, t) = RemoveAt(q, i)
           /\ QueueOK(withdraw(q, t), Said(s, t, "withdrawn"))
           /\ Len(withdraw(q, t)) = Len(q) - 1
           /\ \A n \in 1..(Len(q) - 1) : withdraw(q, t)[n] = IF n < i THEN q[n] ELSE q[n + 1]
<1>1. q \in Seq(Entry) /\ DOMAIN q = 1..Len(q) /\ Len(q) \in Nat
      BY DEF QueueOK
<1>2. i \in DOMAIN q /\ q[i].turn = t /\ i \in 1..Len(q) /\ i \in Nat
      BY <1>1 DEF position
<1>3. \A j \in DOMAIN q : q[j].turn = t => j = i
      BY <1>2 DEF QueueOK
<1>4. Min(position(q, t)) = i
  <2>1. position(q, t) = {i}
        BY <1>2, <1>3 DEF position
  <2>2. Min({i}) = i
        BY <1>2 DEF Min
  <2> QED BY <2>1, <2>2
<1>5. PICK p : p = withdraw(q, t)
      OBVIOUS
<1>6. /\ p \in Seq(Entry) /\ Len(p) = Len(q) - 1
      /\ \A n \in 1..(Len(q) - 1) : p[n] = IF n < i THEN q[n] ELSE q[n + 1]
  <2>1. p = RemoveAt(q, i)
        BY <1>4, <1>5 DEF withdraw
  <2> QED BY <1>1, <1>2, <2>1, RemoveAtProperties
<1>7. DOMAIN p = 1..(Len(q) - 1)
      BY <1>1, <1>6
<1>8. ASSUME NEW n \in DOMAIN p
      PROVE  /\ n \in Nat
             /\ \/ n < i /\ n \in DOMAIN q /\ p[n] = q[n]
                \/ n >= i /\ n + 1 \in DOMAIN q /\ p[n] = q[n + 1]
      BY <1>1, <1>2, <1>6, <1>7
<1>9. ASSUME NEW n \in DOMAIN p
      PROVE  \E m \in DOMAIN q : m /= i /\ m >= n /\ p[n] = q[m] /\ (m = 1 => n = 1)
  <2>1. CASE n < i /\ n \in DOMAIN q /\ p[n] = q[n]
        BY <1>1, <1>2, <1>8, <2>1
  <2>2. CASE n >= i /\ n + 1 \in DOMAIN q /\ p[n] = q[n + 1]
    <3>1. n + 1 /= i /\ n + 1 >= n /\ (n + 1 = 1 => n = 1)
          BY <1>1, <1>2, <1>7, <2>2
    <3> QED BY <2>2, <3>1
  <2> QED BY <1>8, <2>1, <2>2
<1>10. ASSUME NEW m \in DOMAIN q, m /= i
       PROVE  \E n \in DOMAIN p : p[n] = q[m]
  <2>1. CASE m < i
    <3>1. m \in 1..(Len(q) - 1)
          BY <1>1, <1>2, <2>1
    <3> QED BY <1>6, <1>7, <2>1, <3>1
  <2>2. CASE m > i
    <3>1. m - 1 \in 1..(Len(q) - 1) /\ ~(m - 1 < i) /\ (m - 1) + 1 = m
          BY <1>1, <1>2, <2>2
    <3> QED BY <1>6, <1>7, <3>1
  <2> QED BY <1>1, <1>2, <1>10, <2>1, <2>2
<1>11. PICK after : after = Said(s, t, "withdrawn")
       OBVIOUS
<1>12. after[t] = "withdrawn" /\ \A u \in Turns : u /= t => after[u] = s[u]
       BY <1>11 DEF Said
<1>13. QueueOK(p, after)
  <2>1. ASSUME NEW j \in DOMAIN p, NEW k \in DOMAIN p, p[j].turn = p[k].turn
        PROVE  j = k
    <3>1. \/ j < i /\ j \in DOMAIN q /\ p[j] = q[j]
          \/ j >= i /\ j + 1 \in DOMAIN q /\ p[j] = q[j + 1]
          BY <1>8
    <3>2. \/ k < i /\ k \in DOMAIN q /\ p[k] = q[k]
          \/ k >= i /\ k + 1 \in DOMAIN q /\ p[k] = q[k + 1]
          BY <1>8
    <3>3. j \in Nat /\ k \in Nat
          BY <1>8
    <3>4. CASE j < i /\ k < i
          BY <2>1, <3>1, <3>2, <3>4, <3>3, <1>2 DEF QueueOK
    <3>5. CASE j < i /\ k >= i
      <4>1. j = k + 1
            BY <1>2, <2>1, <3>1, <3>2, <3>3, <3>5 DEF QueueOK
      <4> QED BY <1>2, <3>3, <3>5, <4>1
    <3>6. CASE j >= i /\ k < i
      <4>1. k = j + 1
            BY <1>2, <2>1, <3>1, <3>2, <3>3, <3>6 DEF QueueOK
      <4> QED BY <1>2, <3>3, <3>6, <4>1
    <3>7. CASE j >= i /\ k >= i
      <4>1. j + 1 = k + 1
            BY <1>2, <2>1, <3>1, <3>2, <3>3, <3>7 DEF QueueOK
      <4> QED BY <3>3, <4>1
    <3> QED BY <1>2, <3>3, <3>4, <3>5, <3>6, <3>7
  <2>2. ASSUME NEW n \in DOMAIN p
        PROVE  /\ after[p[n].turn] = p[n].state
               /\ p[n].state = "queued" => p[n].run = NoRun
               /\ p[n].state \in Claims => n = 1 /\ p[n].run \in Runs
    <3>1. PICK m \in DOMAIN q : m /= i /\ m >= n /\ p[n] = q[m] /\ (m = 1 => n = 1)
          BY <1>9
    <3>2. q[m].turn /= t /\ q[m].turn \in Turns
          BY <1>1, <1>3, <3>1, EntryFields
    <3> QED BY <1>12, <3>1, <3>2 DEF QueueOK
  <2>3. ASSUME NEW u \in Turns, after[u] \in {"queued"} \union Claims
        PROVE  \E n \in DOMAIN p : p[n].turn = u
    <3>1. u /= t
          BY <1>12, <2>3 DEF Claims
    <3>2. PICK m \in DOMAIN q : q[m].turn = u
          BY <1>12, <2>3, <3>1 DEF QueueOK
    <3> QED BY <1>2, <1>10, <3>1, <3>2
  <2> QED BY <1>6, <2>1, <2>2, <2>3 DEF QueueOK
<1> QED BY <1>2, <1>4, <1>5, <1>6, <1>11, <1>13 DEF QueueOK, withdraw

-----------------------------------------------------------------------------
(* The claim of a Run, and what each operation does to it.                 *)

(* Run r has the claim of Turn t.                                          *)
Holds(q, r, t) == \E i \in Owned(q, r) : q[i].turn = t

(* Execution of t may have begun.                                          *)
Begun(s, t) == s[t] \notin {"absent", "queued", "withdrawn", "superseded"}

LEMMA HoldsFirst ==
    ASSUME NEW s \in [Turns -> Statuses], NEW q, QueueOK(q, s), NEW r \in Runs, NEW u
    PROVE  /\ Holds(q, r, u) <=> 1 \in DOMAIN q /\ q[1].run = r /\ q[1].turn = u
           /\ Holds(q, r, u) => u \in Turns /\ s[u] \in Claims /\ q[1].state \in Claims /\ Begun(s, u)
<1>1. Holds(q, r, u) <=> 1 \in DOMAIN q /\ q[1].run = r /\ q[1].turn = u
  <2>1. \A i \in Owned(q, r) : i = 1
        BY OwnedIsFirst
  <2> QED BY <2>1 DEF Holds, Owned
<1>2. ASSUME Holds(q, r, u)
      PROVE  u \in Turns /\ s[u] \in Claims /\ q[1].state \in Claims
  <2>1. 1 \in DOMAIN q /\ q[1].turn = u /\ 1 \in Owned(q, r)
        BY <1>1, <1>2 DEF Owned
  <2>2. q[1].state \in Claims
        BY <2>1, OwnedIsFirst
  <2>3. q[1].turn \in Turns
        BY <2>1, EntryFields DEF QueueOK
  <2> QED BY <2>1, <2>2, <2>3 DEF QueueOK
<1> QED BY <1>1, <1>2 DEF Begun, Claims

(* One claim at most.                                                      *)
LEMMA HoldsOne ==
    ASSUME NEW s \in [Turns -> Statuses], NEW q, QueueOK(q, s),
           NEW r \in Runs, NEW p \in Runs, NEW t, NEW u, Holds(q, r, t), Holds(q, p, u)
    PROVE  r = p /\ t = u
<1>1. q[1].run = r /\ q[1].turn = t
      BY HoldsFirst
<1>2. q[1].run = p /\ q[1].turn = u
      BY HoldsFirst
<1> QED BY <1>1, <1>2

(* A claim of the queue belongs to a Run.                                  *)
LEMMA ClaimIsHeld ==
    ASSUME NEW s \in [Turns -> Statuses], NEW q, QueueOK(q, s),
           NEW i \in DOMAIN q, q[i].state \in Claims
    PROVE  i = 1 /\ q[i].run \in Runs /\ Holds(q, q[i].run, q[i].turn)
<1>1. i = 1 /\ q[i].run \in Runs
      BY DEF QueueOK
<1>2. i \in Owned(q, q[i].run)
      BY DEF Owned
<1> QED BY <1>1, <1>2 DEF Holds

LEMMA ReadyIsFree ==
    ASSUME NEW s \in [Turns -> Statuses], NEW q, QueueOK(q, s), ready(q), NEW r \in Runs, NEW u
    PROVE  ~Holds(q, r, u)
<1>1. Holds(q, r, u) => 1 \in DOMAIN q /\ q[1].state \in Claims
      BY HoldsFirst
<1> QED BY <1>1 DEF ready, Claims

LEMMA PrepareHolds ==
    ASSUME NEW s \in [Turns -> Statuses], NEW q, QueueOK(q, s), NEW t \in Turns, s[t] = "absent"
    PROVE  /\ \A r \in Runs : \A u : Holds(prepare(q, t), r, u) <=> Holds(q, r, u)
           /\ \A u \in Turns : Begun(s, u) => Begun(AfterAdmission(q, s, t), u)
<1>1. PICK p : p = prepare(q, t)
      OBVIOUS
<1>2. PICK after \in [Turns -> Statuses] :
          after = AfterAdmission(q, s, t)
      BY DEF AfterAdmission, DisplacedState, Statuses
<1>3. /\ QueueOK(p, after)
      /\ \A i \in DOMAIN p : p[i].state \in Claims => i = 1 /\ 1 \in DOMAIN q /\ p[i] = q[1]
      /\ \A i \in DOMAIN q : q[i].state \in Claims => p[1] = q[1]
      /\ Len(p) \in Nat \ {0}
      BY <1>1, <1>2, PrepareOK
<1>4. 1 \in DOMAIN p
      BY <1>3 DEF QueueOK
<1>5. ASSUME NEW r \in Runs, NEW u
      PROVE  Holds(p, r, u) <=> Holds(q, r, u)
  <2>1. ASSUME Holds(p, r, u)
        PROVE  Holds(q, r, u)
    <3>1. 1 \in DOMAIN p /\ p[1].run = r /\ p[1].turn = u /\ p[1].state \in Claims
          BY <1>3, <2>1, HoldsFirst
    <3>2. 1 \in DOMAIN q /\ p[1] = q[1]
          BY <1>3, <3>1
    <3> QED BY <3>1, <3>2, HoldsFirst
  <2>2. ASSUME Holds(q, r, u)
        PROVE  Holds(p, r, u)
    <3>1. 1 \in DOMAIN q /\ q[1].run = r /\ q[1].turn = u /\ q[1].state \in Claims
          BY <2>2, HoldsFirst
    <3>2. p[1] = q[1]
          BY <1>3, <3>1
    <3> QED BY <1>3, <1>4, <3>1, <3>2, HoldsFirst
  <2> QED BY <2>1, <2>2
<1>6. ASSUME NEW u \in Turns, Begun(s, u)
      PROVE  Begun(after, u)
  <2>1. s[u] /= "absent" /\ s[u] /= "queued"
        BY <1>6 DEF Begun
  <2>2. u \notin Displaced(q, t)
        BY <2>1 DEF QueueOK, Displaced, Replaced
  <2>3. after[u] = s[u]
        BY <1>2, <2>1, <2>2 DEF AfterAdmission
  <2> QED BY <1>6, <2>3 DEF Begun
<1> QED BY <1>1, <1>2, <1>5, <1>6

LEMMA WithdrawHolds ==
    ASSUME NEW s \in [Turns -> Statuses], NEW q, QueueOK(q, s), NEW t \in Turns,
           NEW i \in position(q, t), q[i].state = "queued"
    PROVE  /\ \A r \in Runs : \A u : Holds(withdraw(q, t), r, u) <=> Holds(q, r, u)
           /\ \A u \in Turns : Begun(s, u) => Begun(Said(s, t, "withdrawn"), u)
<1>1. PICK p : p = withdraw(q, t)
      OBVIOUS
<1>2. PICK after \in [Turns -> Statuses] : after = Said(s, t, "withdrawn")
      BY DEF Statuses, Said
<1>3. /\ QueueOK(p, after) /\ s[t] = "queued" /\ i \in DOMAIN q
      /\ Len(p) = Len(q) - 1 /\ \A n \in 1..(Len(q) - 1) : p[n] = IF n < i THEN q[n] ELSE q[n + 1]
  <2>1. /\ QueueOK(withdraw(q, t), Said(s, t, "withdrawn"))
        /\ s[t] = "queued" /\ i \in DOMAIN q
        /\ Len(withdraw(q, t)) = Len(q) - 1
        /\ \A n \in 1..(Len(q) - 1) : withdraw(q, t)[n] = IF n < i THEN q[n] ELSE q[n + 1]
        BY WithdrawOK
  <2> QED BY <1>1, <1>2, <2>1
<1>4. /\ q \in Seq(Entry) /\ Len(q) \in Nat /\ DOMAIN q = 1..Len(q)
      /\ p \in Seq(Entry) /\ Len(p) \in Nat /\ DOMAIN p = 1..Len(p)
      BY <1>3 DEF QueueOK
<1>5. ASSUME NEW r \in Runs, NEW u
      PROVE  Holds(p, r, u) <=> Holds(q, r, u)
  <2>1. ASSUME Holds(p, r, u)
        PROVE  Holds(q, r, u)
    <3>1. 1 \in DOMAIN p /\ p[1].run = r /\ p[1].turn = u /\ p[1].state \in Claims
          BY <1>3, <2>1, HoldsFirst
    <3>2. 1 \in 1..(Len(q) - 1) /\ (1 < i => p[1] = q[1]) /\ (~(1 < i) => p[1] = q[2] /\ 2 \in DOMAIN q)
          BY <1>3, <1>4, <3>1
    <3>3. 1 < i /\ 1 \in DOMAIN q
          BY <1>4, <3>1, <3>2 DEF QueueOK
    <3> QED BY <3>1, <3>2, <3>3, HoldsFirst
  <2>2. ASSUME Holds(q, r, u)
        PROVE  Holds(p, r, u)
    <3>1. 1 \in DOMAIN q /\ q[1].run = r /\ q[1].turn = u /\ q[1].state \in Claims
          BY <2>2, HoldsFirst
    <3>2. i /= 1
          BY <3>1 DEF Claims
    <3>3. 1 \in 1..(Len(q) - 1) /\ 1 < i /\ 1 \in DOMAIN p
          BY <1>3, <1>4, <3>2
    <3>4. p[1] = q[1]
          BY <1>3, <3>3
    <3> QED BY <1>3, <3>1, <3>3, <3>4, HoldsFirst
  <2> QED BY <2>1, <2>2
<1>6. ASSUME NEW u \in Turns, Begun(s, u)
      PROVE  Begun(after, u)
      BY <1>2, <1>3, <1>6 DEF Begun, Said
<1> QED BY <1>1, <1>2, <1>5, <1>6

LEMMA ClaimHolds ==
    ASSUME NEW s \in [Turns -> Statuses], NEW q, QueueOK(q, s), ready(q), NEW r \in Runs
    PROVE  /\ \A p \in Runs : \A u : Holds(claim(q, r), p, u) <=> p = r /\ u = q[1].turn
           /\ \A u \in Turns : Begun(s, u) => Begun(Said(s, q[1].turn, "active"), u)
           /\ ~Begun(s, q[1].turn) /\ Begun(Said(s, q[1].turn, "active"), q[1].turn)
<1>1. PICK c : c = claim(q, r)
      OBVIOUS
<1>2. PICK after \in [Turns -> Statuses] : after = Said(s, q[1].turn, "active")
      BY DEF Statuses, Said
<1>3. /\ QueueOK(c, after) /\ 1 \in DOMAIN q /\ q[1].turn \in Turns /\ s[q[1].turn] = "queued"
      /\ Len(c) = Len(q) /\ c[1] = [turn |-> q[1].turn, state |-> "active", run |-> r]
  <2>1. /\ QueueOK(claim(q, r), Said(s, q[1].turn, "active"))
        /\ 1 \in DOMAIN q /\ q[1].turn \in Turns /\ s[q[1].turn] = "queued"
        /\ Len(claim(q, r)) = Len(q)
        /\ claim(q, r)[1] = [turn |-> q[1].turn, state |-> "active", run |-> r]
        BY ClaimOK
  <2> QED BY <1>1, <1>2, <2>1
<1>4. 1 \in DOMAIN c /\ c[1].run = r /\ c[1].turn = q[1].turn
      BY <1>3 DEF QueueOK
<1>5. ASSUME NEW p \in Runs, NEW u
      PROVE  Holds(c, p, u) <=> p = r /\ u = q[1].turn
      BY <1>3, <1>4, HoldsFirst
<1>6. after[q[1].turn] = "active" /\ \A u \in Turns : u /= q[1].turn => after[u] = s[u]
      BY <1>2, <1>3 DEF Said
<1>7. (\A u \in Turns : Begun(s, u) => Begun(after, u)) /\ ~Begun(s, q[1].turn) /\ Begun(after, q[1].turn)
      BY <1>3, <1>6 DEF Begun
<1> QED BY <1>1, <1>2, <1>5, <1>7

LEMMA SettleHolds ==
    ASSUME NEW s \in [Turns -> Statuses], NEW q, QueueOK(q, s), NEW r \in Runs,
           Owned(q, r) /= {}, NEW state \in {"completed", "failed", "canceled", "outcome_unknown"}
    PROVE  /\ Min(Owned(q, r)) = 1 /\ q[1].turn \in Turns /\ Holds(q, r, q[1].turn)
           /\ QueueOK(settle(q, 1, state), Said(s, q[1].turn, state))
           /\ \A p \in Runs : \A u : Holds(settle(q, 1, state), p, u)
                <=> Holds(q, p, u) /\ state = "outcome_unknown"
           /\ \A u \in Turns : Begun(s, u) => Begun(Said(s, q[1].turn, state), u)
<1>1. Min(Owned(q, r)) = 1 /\ 1 \in Owned(q, r) /\ 1 \in DOMAIN q /\ q[1].state \in Claims
      BY OwnedIsFirst
<1>2. Holds(q, r, q[1].turn)
      BY <1>1 DEF Holds
<1>3. PICK p : p = settle(q, 1, state)
      OBVIOUS
<1>4. PICK after \in [Turns -> Statuses] : after = Said(s, q[1].turn, state)
      BY DEF Statuses, Said
<1>5. /\ q[1].turn \in Turns /\ QueueOK(p, after)
      /\ state /= "outcome_unknown" => \A i \in DOMAIN p : p[i].state = "queued"
      /\ state = "outcome_unknown" =>
            /\ Len(p) = Len(q)
            /\ p[1].turn = q[1].turn /\ p[1].run = q[1].run
  <2>1. /\ q[1].turn \in Turns
        /\ QueueOK(settle(q, 1, state), Said(s, q[1].turn, state))
        /\ state /= "outcome_unknown" =>
              \A i \in DOMAIN settle(q, 1, state) : settle(q, 1, state)[i].state = "queued"
        /\ state = "outcome_unknown" =>
              /\ Len(settle(q, 1, state)) = Len(q)
              /\ settle(q, 1, state)[1].turn = q[1].turn
              /\ settle(q, 1, state)[1].run = q[1].run
        BY <1>1, SettleOK
  <2> QED BY <1>3, <1>4, <2>1
<1>6. ASSUME NEW w \in Runs, NEW u
      PROVE  Holds(p, w, u) <=> Holds(q, w, u) /\ state = "outcome_unknown"
  <2>1. CASE state /= "outcome_unknown"
    <3>1. Holds(p, w, u) => 1 \in DOMAIN p /\ p[1].state \in Claims
          BY <1>5, HoldsFirst
    <3> QED BY <1>5, <2>1, <3>1 DEF Claims
  <2>2. CASE state = "outcome_unknown"
    <3>1. 1 \in DOMAIN p /\ p[1].run = q[1].run /\ p[1].turn = q[1].turn
          BY <1>1, <1>5, <2>2 DEF QueueOK
    <3>2. Holds(p, w, u) <=> 1 \in DOMAIN p /\ p[1].run = w /\ p[1].turn = u
          BY <1>5, HoldsFirst
    <3>3. Holds(q, w, u) <=> 1 \in DOMAIN q /\ q[1].run = w /\ q[1].turn = u
          BY HoldsFirst
    <3> QED BY <1>1, <2>2, <3>1, <3>2, <3>3
  <2> QED BY <2>1, <2>2
<1>7. after[q[1].turn] = state /\ \A u \in Turns : u /= q[1].turn => after[u] = s[u]
      BY <1>4, <1>5 DEF Said
<1>8. \A u \in Turns : Begun(s, u) => Begun(after, u)
      BY <1>7 DEF Begun
<1> QED BY <1>1, <1>2, <1>3, <1>4, <1>5, <1>6, <1>8

(* The Turn an interruption may name is the one the Run holds.             *)
LEMMA ActiveTurn ==
    ASSUME NEW s \in [Turns -> Statuses], NEW q, QueueOK(q, s), NEW r \in Runs
    PROVE  /\ active_turn(q, r) \in Turns \union {NoTurn}
           /\ active_turn(q, r) /= NoTurn => Holds(q, r, active_turn(q, r))
<1>1. CASE \E i \in Owned(q, r) : q[i].state = "active"
  <2>1. PICK i \in Owned(q, r) : i = CHOOSE j \in Owned(q, r) : q[j].state = "active"
        BY <1>1
  <2>2. active_turn(q, r) = q[i].turn
        BY <1>1, <2>1 DEF active_turn
  <2>3. Holds(q, r, q[i].turn)
        BY DEF Holds
  <2> QED BY <2>2, <2>3, HoldsFirst
<1>2. CASE ~\E i \in Owned(q, r) : q[i].state = "active"
      BY <1>2 DEF active_turn
<1> QED BY <1>1, <1>2
=============================================================================
