------------------------- MODULE SourceReplay_proofs -------------------------
(***************************************************************************)
(* Proofs about SourceReplay, for any number of records and translations,  *)
(* any batch lengths, group and spool sizes, and any number of faults.     *)
(***************************************************************************)
EXTENDS SourceReplay, SequenceTheorems, TLAPS

-----------------------------------------------------------------------------
(* The inductive invariant.                                                *)

(* The messages of the front record that the monitor has taken.            *)
Taken == emitted - Len(toCore)

(* What is on its way to the monitor is the next part of what the Craft    *)
(* makes of the front record.                                              *)
WireOK ==
    /\ emitted <= BatchLen[version] + 1
    /\ emitted > 0 => Waiting > 0
    /\ Len(toCore) <= emitted
    /\ \A i \in 1..Len(toCore) :
          toCore[i] = IF Taken + i <= BatchLen[version]
                      THEN Observation(FrontRecord, Taken + i, version)
                      ELSE Progress(FrontRecord)

(* Who is connected to whom, and what the end of the source means.         *)
PeersOK ==
    /\ outcome = "ended" <=> source.offset = Total
    /\ outcome = "lost" => helper = "dead"
    /\ helper = "done" => acknowledged = Total
    /\ monitor.phase = "none" => monitor = NoMonitor /\ toCore = <<>>
    /\ monitor.phase # "none" => stream = "open" /\ helper = "alive" /\ outcome # "lost"
    /\ monitor.phase = "read" => outcome = "running"
    /\ stream = "open" /\ monitor.phase = "none" => source.offset = Total

(* Part i of record n as translation v makes it; s holds such parts, from  *)
(* the one after part k.                                                   *)
IsPart(m, i, n, v) == i <= BatchLen[v] /\ m = Observation(n, i, v)
AreParts(s, k, n, v) == \A i \in 1..Len(s) : IsPart(s[i], k + i, n, v)

(* While the front record is not complete in the journal: the monitor has  *)
(* taken no boundary of it; it has repeated a part of the prefix, or holds *)
(* what follows the prefix.                                                *)
FrontOpen ==
    /\ toHelper = <<>> /\ monitor.phase # "ack"
    /\ monitor.phase = "read" =>
          /\ Taken <= BatchLen[version]
          /\ Len(monitor.replayed) <= Len(monitor.expected)
          /\ AreParts(monitor.replayed, 0, FrontRecord, version)
          /\ IF Len(monitor.replayed) < Len(monitor.expected)
             THEN /\ monitor.expected = source.partial /\ monitor.pending = <<>>
                  /\ Taken = Len(monitor.replayed)
             ELSE /\ Taken = Len(source.partial) + Len(monitor.pending)
                  /\ AreParts(source.partial, 0, FrontRecord, version)
                  /\ AreParts(monitor.pending, Len(source.partial), FrontRecord, version)

(* Once it is complete: the Craft has nothing more to say of it, and the   *)
(* only acknowledgement under way is its own.                              *)
FrontCommitted ==
    /\ acknowledged < produced
    /\ emitted = BatchLen[version] + 1 /\ toCore = <<>> /\ source.partial = <<>>
    /\ monitor.expected = <<>> /\ monitor.replayed = <<>> /\ monitor.pending = <<>>
    /\ toHelper \in {<<>>, <<FrontRecord>>}
    /\ monitor.phase = "ack" => toHelper = <<>>

CursorOK ==
    \/ source.offset = acknowledged /\ FrontOpen
    \/ source.offset = FrontRecord /\ FrontCommitted

(* The prefix is the beginning of one batch of the record after the        *)
(* cursor, and the end of the journal.                                     *)
PrefixOK ==
    outcome # "lost" =>
        /\ PrefixIsHeld
        /\ \E v \in Versions : BegunBatch(v, Len(journal) - Len(source.partial))


JournalOK == PrefixOK /\ ExactlyOnce
IInv == SourceTypeOK /\ WireOK /\ PeersOK /\ CursorOK /\ JournalOK

-----------------------------------------------------------------------------
(* Facts about messages.                                                   *)

(* A boundary is told from an observation by its fields.                   *)
LEMMA MessageKinds ==
    /\ \A n, i, v : ~IsProgress(Observation(n, i, v))
    /\ \A n : IsProgress(Progress(n))
    /\ \A n : Progress(n).progress = n
<1>1. ASSUME NEW n, NEW i, NEW v
      PROVE  ~IsProgress(Observation(n, i, v))
  <2>1. DOMAIN Observation(n, i, v) = {"record", "part", "version"}
    BY DEF Observation
  <2>2. "record" \in DOMAIN Observation(n, i, v) /\ "record" \notin {"progress"}
    BY <2>1
  <2> QED
    BY <2>2 DEF IsProgress
<1>2. \A n : IsProgress(Progress(n)) /\ Progress(n).progress = n
  BY DEF IsProgress, Progress
<1> QED
  BY <1>1, <1>2

LEMMA ObservationFields ==
    \A n, i, v : /\ Observation(n, i, v).record = n
                /\ Observation(n, i, v).part = i
                /\ Observation(n, i, v).version = v
BY DEF Observation

(* A Craft makes of record n the parts of its batch, then one boundary.    *)
LEMMA MessagesAre ==
    ASSUME NEW n \in 1..Total, NEW v \in Versions
    PROVE  /\ Len(Messages(n, v)) = BatchLen[v] + 1
           /\ \A i \in 1..(BatchLen[v] + 1) :
                 Messages(n, v)[i] = IF i <= BatchLen[v] THEN Observation(n, i, v)
                                                         ELSE Progress(n)
           /\ \A i \in Nat : Observation(n, i, v) \in Observations
           /\ Progress(n) \in Boundaries
<1>1. BatchLen[v] \in Nat
  BY SourceAssumption
<1>2. /\ \A i \in Nat : Observation(n, i, v) \in Observations
      /\ Progress(n) \in Boundaries
  BY DEF Observation, Observations, Progress, Boundaries
<1> DEFINE All == Observations \union Boundaries
<1>3. Batch(n, v) \in Seq(All) /\ Len(Batch(n, v)) = BatchLen[v]
  <2>1. Batch(n, v) \in [1..BatchLen[v] -> All]
    BY <1>1, <1>2 DEF Batch
  <2> QED
    BY <2>1, <1>1, SeqDef, LenProperties
<1>4. \A i \in 1..BatchLen[v] : Batch(n, v)[i] = Observation(n, i, v)
  BY DEF Batch
<1> HIDE DEF All
<1>5. Progress(n) \in All
  BY <1>2 DEF All
<1> QED
  BY <1>1, <1>2, <1>3, <1>4, <1>5, AppendProperties DEF Messages

-----------------------------------------------------------------------------
(* Facts about commits.                                                    *)

(* The group a monitor commits next: it continues the prefix, as parts of  *)
(* one translation of the record after the cursor.                         *)
Continues(g, v) ==
    /\ Len(source.partial) + Len(g) <= BatchLen[v]
    /\ \A i \in 1..Len(source.partial) : source.partial[i] = Observation(source.offset + 1, i, v)
    /\ \A i \in 1..Len(g) : g[i] = Observation(source.offset + 1, Len(source.partial) + i, v)

(* The journal after such a commit: what was before the prefix is as it    *)
(* was, and the rest is the record after the cursor.                       *)
LEMMA CommitShape ==
    ASSUME SourceTypeOK, PrefixIsHeld, NEW v \in Versions,
           NEW g \in Seq(Observations), Continues(g, v), journal' = journal \o g
    PROVE  /\ journal' \in Seq(Observations)
           /\ Len(journal') = Len(journal) + Len(g)
           /\ \A i \in 1..Len(journal) : journal'[i] = journal[i]
           /\ \A i \in 1..Len(journal') :
                 IF i > Len(journal) - Len(source.partial)
                 THEN journal'[i] = Observation(source.offset + 1,
                                        i - (Len(journal) - Len(source.partial)), v)
                 ELSE journal'[i] = journal[i] /\ journal[i].record <= source.offset
<1> DEFINE a == Len(journal) - Len(source.partial)
<1>1. /\ journal \in Seq(Observations) /\ source.partial \in Seq(Observations)
      /\ Len(journal) \in Nat /\ Len(source.partial) \in Nat /\ Len(g) \in Nat
  BY LenProperties DEF SourceTypeOK
<1>2. /\ journal' \in Seq(Observations) /\ Len(journal') = Len(journal) + Len(g)
      /\ \A i \in 1..(Len(journal) + Len(g)) :
            journal'[i] = IF i <= Len(journal) THEN journal[i] ELSE g[i - Len(journal)]
  BY <1>1, ConcatProperties
<1>3. ASSUME NEW i \in 1..Len(journal'), i > a
      PROVE  journal'[i] = Observation(source.offset + 1, i - a, v)
  <2>1. CASE i <= Len(journal)
    <3>1. journal[i] = source.partial[i - a] /\ i - a \in 1..Len(source.partial)
      BY <1>1, <1>2, <1>3, <2>1 DEF PrefixIsHeld
    <3> QED
      BY <1>2, <2>1, <3>1, <1>1 DEF Continues
  <2>2. CASE i > Len(journal)
    <3>1. i - Len(journal) \in 1..Len(g) /\ i - a = Len(source.partial) + (i - Len(journal))
      BY <1>1, <1>2, <2>2
    <3> QED
      BY <1>1, <1>2, <2>2, <3>1 DEF Continues
  <2> QED
    BY <2>1, <2>2, <1>1, <1>2
<1>4. ASSUME NEW i \in 1..Len(journal'), ~(i > a)
      PROVE  journal'[i] = journal[i] /\ journal[i].record <= source.offset
  <2>1. i \in 1..Len(journal)
    BY <1>1, <1>2, <1>4
  <2> QED
    BY <1>1, <1>2, <1>4, <2>1 DEF PrefixIsHeld
<1> QED
  BY <1>1, <1>2, <1>3, <1>4

(* A commit of the record after the cursor leaves the order of the journal *)
(* and every whole batch before it.                                        *)
LEMMA CommitKeepsOrder ==
    ASSUME SourceTypeOK, PrefixIsHeld, ExactlyOnce, NEW v \in Versions,
           NEW g \in Seq(Observations), Continues(g, v), journal' = journal \o g
    PROVE  /\ \A i, j \in 1..Len(journal') : i <= j => journal'[i].record <= journal'[j].record
           /\ \A n \in 1..source.offset :
                 \E w \in Versions, a \in 0..Len(journal') : WholeBatch(n, w, a)'
<1>0. /\ source.offset \in Nat /\ Len(journal) \in Nat /\ Len(g) \in Nat
      /\ Len(source.partial) \in Nat /\ journal \in Seq(Observations)
  BY LenProperties, SourceAssumption DEF SourceTypeOK
<1>1. /\ Len(journal') = Len(journal) + Len(g)
      /\ \A i \in 1..Len(journal) : journal'[i] = journal[i]
      /\ \A i \in 1..Len(journal') :
            IF i > Len(journal) - Len(source.partial)
            THEN journal'[i].record = source.offset + 1
            ELSE journal'[i] = journal[i] /\ journal[i].record <= source.offset
  <2>1. /\ Len(journal') = Len(journal) + Len(g)
        /\ \A i \in 1..Len(journal) : journal'[i] = journal[i]
        /\ \A i \in 1..Len(journal') :
              IF i > Len(journal) - Len(source.partial)
              THEN journal'[i] = Observation(source.offset + 1,
                                     i - (Len(journal) - Len(source.partial)), v)
              ELSE journal'[i] = journal[i] /\ journal[i].record <= source.offset
    BY CommitShape
  <2>2. ASSUME NEW i \in 1..Len(journal'), i > Len(journal) - Len(source.partial)
        PROVE  journal'[i].record = source.offset + 1
    <3>1. journal'[i] = Observation(source.offset + 1,
                            i - (Len(journal) - Len(source.partial)), v)
      BY <2>1, <2>2
    <3> QED BY <3>1, ObservationFields
  <2> QED BY <2>1, <2>2
<1>2. \A i \in 1..Len(journal') : Len(journal) < i => journal'[i].record = source.offset + 1
  BY <1>0, <1>1
<1>3. ASSUME NEW i \in 1..Len(journal'), NEW j \in 1..Len(journal'), i <= j
      PROVE  journal'[i].record <= journal'[j].record
  <2>1. CASE j > Len(journal) - Len(source.partial)
    <3>1. journal'[j].record = source.offset + 1
      BY <2>1, <1>1
    <3>2. journal'[i].record = source.offset + 1 \/ journal'[i].record <= source.offset
      BY <1>1
    <3>3. journal'[i].record \in Int
      <4>1. CASE i <= Len(journal)
        <5>1. journal[i] \in Observations /\ journal'[i] = journal[i]
          BY <4>1, <1>0, <1>1, ElementOfSeq
        <5> QED BY <5>1 DEF Observations
      <4>2. CASE i > Len(journal)
        BY <4>2, <1>0, <1>2
      <4> QED BY <4>1, <4>2, <1>0, <1>1
    <3> QED BY <3>1, <3>2, <3>3, <1>0
  <2>2. CASE ~(j > Len(journal) - Len(source.partial))
    <3>1. i \in 1..Len(journal) /\ j \in 1..Len(journal)
      BY <2>2, <1>3, <1>0, <1>1
    <3> QED BY <3>1, <1>1, <1>3 DEF ExactlyOnce
  <2> QED BY <2>1, <2>2
<1>4. ASSUME NEW n \in 1..source.offset
      PROVE  \E w \in Versions, a \in 0..Len(journal') : WholeBatch(n, w, a)'
  <2>1. PICK w \in Versions, a \in 0..Len(journal) : WholeBatch(n, w, a)
    BY <1>4 DEF ExactlyOnce
  <2>2. BatchLen[w] \in Nat
    BY SourceAssumption
  <2>3. ASSUME NEW i \in 1..Len(journal')
        PROVE  IF i \in (a + 1)..(a + BatchLen[w])
               THEN journal'[i] = Observation(n, i - a, w)
               ELSE journal'[i].record # n
    <3>1. CASE i <= Len(journal)
      BY <3>1, <2>1, <1>0, <1>1 DEF WholeBatch
    <3>2. CASE i > Len(journal)
      <4>1. a + BatchLen[w] <= Len(journal)
        BY <2>1 DEF WholeBatch
      <4>2. i \notin (a + 1)..(a + BatchLen[w])
        BY <3>2, <4>1, <2>2, <1>0
      <4>3. journal'[i].record = source.offset + 1
        BY <3>2, <1>2
      <4>4. source.offset + 1 # n
        BY <1>0, <1>4
      <4> QED BY <4>2, <4>3, <4>4
    <3> QED BY <3>1, <3>2, <1>0, <1>1
  <2>4. a + BatchLen[w] <= Len(journal') /\ a \in 0..Len(journal')
    BY <2>1, <2>2, <1>0, <1>1 DEF WholeBatch
  <2>5. WholeBatch(n, w, a)'
    BY <2>3, <2>4 DEF WholeBatch
  <2> QED BY <2>4, <2>5
<1> QED
  BY <1>3, <1>4

(* A group that continues the prefix keeps the journal in order.           *)
LEMMA GroupKeepsJournal ==
    ASSUME SourceTypeOK, JournalOK, outcome # "lost", NEW v \in Versions,
           NEW g \in Seq(Observations), Continues(g, v), CommitGroup(g), outcome' = outcome
    PROVE  /\ journal' \in Seq(Observations)
           /\ source' \in [offset : 0..Total, partial : Seq(Observations)]
           /\ source'.offset = source.offset /\ source'.partial = source.partial \o g
           /\ JournalOK'
<1>0. /\ source.offset \in Nat /\ Len(journal) \in Nat /\ Len(g) \in Nat
      /\ Len(source.partial) \in Nat /\ source.partial \in Seq(Observations)
      /\ BatchLen[v] \in Nat
  BY LenProperties, SourceAssumption DEF SourceTypeOK
<1>1. PrefixIsHeld /\ ExactlyOnce
  BY DEF JournalOK, PrefixOK
<1>a. PICK a \in Nat : a = Len(journal) - Len(source.partial)
  <2>1. Len(journal) - Len(source.partial) >= 0
    BY <1>1 DEF PrefixIsHeld
  <2>2. Len(journal) - Len(source.partial) \in Nat
    BY <2>1, <1>0
  <2> QED BY <2>2
<1>2. journal' = journal \o g
  BY DEF CommitGroup
<1>3. /\ source'.offset = source.offset /\ source'.partial = source.partial \o g
      /\ source' \in [offset : 0..Total, partial : Seq(Observations)]
  BY ConcatProperties DEF CommitGroup, SourceTypeOK
<1>4. /\ source'.partial \in Seq(Observations)
      /\ Len(source'.partial) = Len(source.partial) + Len(g)
      /\ \A i \in 1..(Len(source.partial) + Len(g)) :
            source'.partial[i] = Observation(source.offset + 1, i, v)
  <2>1. /\ Len(source'.partial) = Len(source.partial) + Len(g)
        /\ \A i \in 1..(Len(source.partial) + Len(g)) : source'.partial[i] =
              IF i <= Len(source.partial) THEN source.partial[i] ELSE g[i - Len(source.partial)]
    BY <1>0, <1>3, ConcatProperties
  <2>2. ASSUME NEW i \in 1..(Len(source.partial) + Len(g))
        PROVE  source'.partial[i] = Observation(source.offset + 1, i, v)
    <3>1. CASE i <= Len(source.partial)
      BY <3>1, <2>1, <1>0 DEF Continues
    <3>2. CASE i > Len(source.partial)
      <4>1. /\ i - Len(source.partial) \in 1..Len(g)
            /\ Len(source.partial) + (i - Len(source.partial)) = i
        BY <3>2, <1>0
      <4>2. source'.partial[i] = g[i - Len(source.partial)]
        BY <3>2, <2>1, <1>0
      <4> QED BY <4>1, <4>2 DEF Continues
    <3> QED BY <3>1, <3>2, <1>0
  <2> QED BY <2>1, <2>2, <1>3
<1>5. /\ journal' \in Seq(Observations) /\ Len(journal') = Len(journal) + Len(g)
      /\ \A i \in 1..Len(journal') :
            IF i > a THEN journal'[i] = Observation(source.offset + 1, i - a, v)
                     ELSE journal'[i] = journal[i] /\ journal[i].record <= source.offset
  BY CommitShape, <1>1, <1>2, <1>a
<1>6. Len(journal') - Len(source'.partial) = a
  BY <1>0, <1>4, <1>5, <1>a
<1>7. PrefixIsHeld'
  <2>1. ASSUME NEW i \in 1..Len(journal'), i > a
        PROVE  journal'[i] = source'.partial[i - a]
    <3>1. i - a \in 1..(Len(source.partial) + Len(g))
      BY <2>1, <1>0, <1>5, <1>a
    <3>2. journal'[i] = Observation(source.offset + 1, i - a, v)
      BY <2>1, <1>5
    <3>3. source'.partial[i - a] = Observation(source.offset + 1, i - a, v)
      BY <3>1, <1>4
    <3> QED BY <3>2, <3>3
  <2>2. \A i \in 1..Len(journal') : ~(i > a) => journal'[i].record <= source'.offset
    BY <1>3, <1>5
  <2>3. Len(source'.partial) <= Len(journal')
    BY <1>0, <1>4, <1>5, <1>a
  <2> QED BY <2>1, <2>2, <2>3, <1>6 DEF PrefixIsHeld
<1>8. BegunBatch(v, a)'
  <2>0. Len(source.partial) + Len(g) <= BatchLen[v]
    BY DEF Continues
  <2>1. Len(journal') - a = Len(source.partial) + Len(g)
    <3>1. Len(journal') \in Nat /\ Len(journal') = Len(journal) + Len(g)
      BY <1>0, <1>5
    <3>2. Len(source.partial) = Len(journal) - a
      BY <1>0, <1>a
    <3> QED BY <3>1, <3>2, <1>0
  <2> QED BY <2>0, <2>1, <1>3, <1>5 DEF BegunBatch
<1>9. a \in 0..Len(journal')
  BY <1>0, <1>5, <1>a
<1>10. ExactlyOnce'
  <2>1. \A i, j \in 1..Len(journal') : i <= j => journal'[i].record <= journal'[j].record
    BY CommitKeepsOrder, <1>1, <1>2
  <2>2. \A n \in 1..source'.offset :
            \E w \in Versions, b \in 0..Len(journal') : WholeBatch(n, w, b)'
    BY CommitKeepsOrder, <1>1, <1>2, <1>3
  <2>3. \E w \in Versions, b \in 0..Len(journal') : BegunBatch(w, b)'
    BY <1>8, <1>9
  <2> QED BY <2>1, <2>2, <2>3 DEF ExactlyOnce
<1>11. PrefixOK'
  BY <1>6, <1>7, <1>8 DEF PrefixOK
<1> QED
  BY <1>3, <1>5, <1>10, <1>11 DEF JournalOK

(* A group that ends the batch makes it whole and moves the cursor past it.*)
LEMMA CompleteKeepsJournal ==
    ASSUME SourceTypeOK, JournalOK, outcome # "lost", NEW v \in Versions,
           NEW g \in Seq(Observations), Continues(g, v),
           Len(source.partial) + Len(g) = BatchLen[v], source.offset < Total,
           CommitComplete(g, source.offset + 1)
    PROVE  /\ journal' \in Seq(Observations)
           /\ source' \in [offset : 0..Total, partial : Seq(Observations)]
           /\ source'.offset = source.offset + 1 /\ source'.partial = <<>>
           /\ JournalOK'
<1>0. /\ source.offset \in Nat /\ Len(journal) \in Nat /\ Len(g) \in Nat
      /\ Len(source.partial) \in Nat /\ source.partial \in Seq(Observations)
      /\ BatchLen[v] \in Nat
  BY LenProperties, SourceAssumption DEF SourceTypeOK
<1>1. PrefixIsHeld /\ ExactlyOnce
  BY DEF JournalOK, PrefixOK
<1>a. PICK a \in Nat : a = Len(journal) - Len(source.partial)
  <2>1. Len(journal) - Len(source.partial) >= 0
    BY <1>1 DEF PrefixIsHeld
  <2>2. Len(journal) - Len(source.partial) \in Nat
    BY <2>1, <1>0
  <2> QED BY <2>2
<1>n. PICK n \in Nat : n = source.offset + 1
  BY <1>0
<1>2. journal' = journal \o g
  BY DEF CommitComplete
<1>3. source'.offset = n /\ source'.partial = <<>> /\ Len(source'.partial) = 0
  BY EmptySeq, <1>n DEF CommitComplete
<1>4. source' \in [offset : 0..Total, partial : Seq(Observations)]
  <2>1. source' = [offset |-> source.offset + 1, partial |-> <<>>]
    BY DEF CommitComplete
  <2>2. source.offset + 1 \in 0..Total
    BY <1>0, SourceAssumption
  <2>3. <<>> \in Seq(Observations)
    BY EmptySeq
  <2> QED BY <2>1, <2>2, <2>3
<1>5. /\ journal' \in Seq(Observations) /\ Len(journal') = Len(journal) + Len(g)
      /\ \A i \in 1..Len(journal') :
            IF i > a THEN journal'[i] = Observation(n, i - a, v)
                     ELSE journal'[i] = journal[i] /\ journal[i].record <= source.offset
  BY CommitShape, <1>1, <1>2, <1>a, <1>n
<1>6. Len(journal') = a + BatchLen[v] /\ a \in 0..Len(journal')
  BY <1>0, <1>5, <1>a
<1>7. \A i \in 1..Len(journal') : journal'[i] \in Observations /\ journal'[i].record \in Int
  <2>1. \A i \in 1..Len(journal') : journal'[i] \in Observations
    BY <1>5, ElementOfSeq
  <2> QED BY <2>1 DEF Observations
<1>8. WholeBatch(n, v, a)'
  <2>1. ASSUME NEW i \in 1..Len(journal')
        PROVE  IF i \in (a + 1)..(a + BatchLen[v])
               THEN journal'[i] = Observation(n, i - a, v)
               ELSE journal'[i].record # n
    <3>1. CASE i > a
      BY <3>1, <1>0, <1>1, <1>5, <1>6
    <3>2. CASE ~(i > a)
      <4>1. journal'[i].record <= source.offset
        BY <3>2, <1>5
      <4> QED BY <4>1, <3>2, <1>0, <1>n, <1>7
    <3> QED BY <3>1, <3>2
  <2> QED BY <2>1, <1>6, <1>0, <1>1 DEF WholeBatch
<1>9. \A i \in 1..Len(journal') : journal'[i].record <= n
  <2>1. ASSUME NEW i \in 1..Len(journal')
        PROVE  journal'[i].record = n \/ journal'[i].record <= source.offset
    BY <1>5, ObservationFields
  <2> QED BY <2>1, <1>0, <1>7, <1>n
<1>b. PICK b \in Nat : b = Len(journal')
  BY <1>0, <1>5
<1>10. BegunBatch(v, b)'
  BY <1>0, <1>3, <1>5, <1>9, <1>b DEF BegunBatch
<1>11. PrefixIsHeld'
  BY <1>0, <1>b, <1>3, <1>5, <1>9 DEF PrefixIsHeld
<1>12. ExactlyOnce'
  <2>1. \A i, j \in 1..Len(journal') : i <= j => journal'[i].record <= journal'[j].record
    BY CommitKeepsOrder, <1>1, <1>2
  <2>2. \A k \in 1..source.offset :
            \E w \in Versions, j \in 0..Len(journal') : WholeBatch(k, w, j)'
    BY CommitKeepsOrder, <1>1, <1>2
  <2>3. \A k \in 1..source'.offset : k \in 1..source.offset \/ k = n
    BY <1>0, <1>n, <1>3
  <2>4. \A k \in 1..source'.offset :
            \E w \in Versions, j \in 0..Len(journal') : WholeBatch(k, w, j)'
    BY <2>2, <2>3, <1>6, <1>8
  <2>5. \E w \in Versions, j \in 0..Len(journal') : BegunBatch(w, j)'
    BY <1>b, <1>10
  <2> QED BY <2>1, <2>4, <2>5 DEF ExactlyOnce
<1>13. PrefixOK'
  BY <1>b, <1>3, <1>10, <1>11 DEF PrefixOK
<1> QED
  BY <1>3, <1>4, <1>5, <1>12, <1>13, <1>n DEF JournalOK

-----------------------------------------------------------------------------
(* Facts about one state.                                                  *)

LEMMA Types ==
    ASSUME SourceTypeOK
    PROVE  /\ Total \in Nat \ {0} /\ produced \in Nat /\ acknowledged \in Nat /\ emitted \in Nat
           /\ acknowledged <= produced /\ produced <= Total
           /\ BatchLen[version] \in Nat \ {0}
           /\ Len(toCore) \in Nat /\ Len(journal) \in Nat
           /\ source.offset \in 0..Total
           /\ source.partial \in Seq(Observations) /\ Len(source.partial) \in Nat
           /\ monitor.expected \in Seq(Observations) /\ Len(monitor.expected) \in Nat
           /\ monitor.replayed \in Seq(Observations) /\ Len(monitor.replayed) \in Nat
           /\ monitor.pending \in Seq(Observations) /\ Len(monitor.pending) \in Nat
<1>1. /\ Total \in Nat \ {0} /\ produced \in Nat /\ acknowledged \in Nat /\ emitted \in Nat
      /\ acknowledged <= produced /\ produced <= Total
      /\ BatchLen[version] \in Nat \ {0}
  BY SourceAssumption DEF SourceTypeOK
<1>2. /\ source.offset \in 0..Total
      /\ source.partial \in Seq(Observations) /\ journal \in Seq(Observations)
      /\ toCore \in Seq(Observations \union Boundaries)
      /\ monitor.expected \in Seq(Observations)
      /\ monitor.replayed \in Seq(Observations)
      /\ monitor.pending \in Seq(Observations)
  BY DEF SourceTypeOK
<1> QED
  BY <1>1, <1>2, LenProperties

(* A monitor with something to read works on a record that is not yet      *)
(* complete, and reads its next part or its boundary.                      *)
LEMMA NextMessage ==
    ASSUME IInv, monitor.phase = "read", toCore # <<>>
    PROVE  /\ source.offset = acknowledged /\ FrontOpen
           /\ FrontRecord \in 1..Total
           /\ Head(toCore) = IF Taken + 1 <= BatchLen[version]
                             THEN Observation(FrontRecord, Taken + 1, version)
                             ELSE Progress(FrontRecord)
           /\ Head(toCore) \in Observations \union Boundaries
           /\ Taken \in Nat
<1>0. SourceTypeOK /\ WireOK /\ PeersOK /\ CursorOK
  BY DEF IInv
<1>1. /\ toCore \in Seq(Observations \union Boundaries)
      /\ Len(toCore) \in Nat \ {0} /\ Len(toCore) <= emitted
  BY <1>0, EmptySeq DEF SourceTypeOK, WireOK
<1>2. Taken \in Nat /\ emitted > 0
  BY <1>0, <1>1, Types DEF Taken
<1>3. source.offset = acknowledged /\ FrontOpen
  BY <1>0 DEF CursorOK, FrontCommitted
<1>4. FrontRecord \in 1..Total
  <2>1. Waiting > 0
    BY <1>0, <1>2 DEF WireOK
  <2>2. acknowledged \in Nat /\ produced \in Nat /\ produced <= Total
    BY <1>0, Types
  <2> QED BY <2>1, <2>2, SourceAssumption DEF Waiting, FrontRecord
<1>5. Head(toCore) = toCore[1] /\ Head(toCore) \in Observations \union Boundaries
  BY <1>1, HeadTailProperties
<1>6. toCore[1] = IF Taken + 1 <= BatchLen[version]
                  THEN Observation(FrontRecord, Taken + 1, version)
                  ELSE Progress(FrontRecord)
  BY <1>0, <1>1 DEF WireOK
<1> QED
  BY <1>2, <1>3, <1>4, <1>5, <1>6

(* Taking the first message leaves the rest in place.                      *)
LEMMA TakeOne ==
    ASSUME SourceTypeOK, WireOK, toCore # <<>>, toCore' = Tail(toCore),
           UNCHANGED <<produced, acknowledged, version, emitted>>
    PROVE  /\ WireOK' /\ Taken' = Taken + 1
           /\ toCore' \in Seq(Observations \union Boundaries)
<1>1. /\ toCore \in Seq(Observations \union Boundaries)
      /\ Len(toCore) \in Nat \ {0} /\ Len(toCore) <= emitted
      /\ emitted \in Nat
  BY EmptySeq DEF SourceTypeOK, WireOK
<1>2. /\ toCore' \in Seq(Observations \union Boundaries)
      /\ Len(toCore') = Len(toCore) - 1
      /\ \A i \in 1..Len(toCore') : toCore'[i] = toCore[i + 1]
  BY <1>1, HeadTailProperties
<1>3. Taken' = Taken + 1 /\ Taken \in Nat
  BY <1>1, <1>2 DEF Taken
<1>4. ASSUME NEW i \in 1..Len(toCore')
      PROVE  toCore'[i] = IF Taken' + i <= BatchLen[version']
                          THEN Observation(FrontRecord', Taken' + i, version')
                          ELSE Progress(FrontRecord')
  <2>1. i + 1 \in 1..Len(toCore) /\ Taken' + i = Taken + (i + 1)
    BY <1>1, <1>2, <1>3
  <2>2. toCore[i + 1] = IF Taken + (i + 1) <= BatchLen[version]
                        THEN Observation(FrontRecord, Taken + (i + 1), version)
                        ELSE Progress(FrontRecord)
    BY <2>1 DEF WireOK
  <2> QED
    BY <2>1, <2>2, <1>2 DEF FrontRecord
<1> QED
  BY <1>1, <1>2, <1>3, <1>4 DEF WireOK, Waiting

(* A connection that is dropped holds nothing.                             *)
LEMMA DropAll ==
    ASSUME SourceTypeOK, WireOK, toCore' = <<>>,
           UNCHANGED <<produced, acknowledged, version, emitted>>
    PROVE  WireOK' /\ toCore' \in Seq(Observations \union Boundaries)
<1>1. Len(toCore') = 0 /\ toCore' \in Seq(Observations \union Boundaries) /\ emitted \in Nat
  BY EmptySeq DEF SourceTypeOK
<1> QED
  BY <1>1 DEF WireOK, Waiting

(* A monitor past the repeated prefix holds what continues it.             *)
LEMMA HeldContinues ==
    ASSUME SourceTypeOK, source.offset = acknowledged, FrontOpen, monitor.phase = "read",
           ~(Len(monitor.replayed) < Len(monitor.expected))
    PROVE  Continues(monitor.pending, version)
<1>1. /\ Taken <= BatchLen[version]
      /\ Taken = Len(source.partial) + Len(monitor.pending)
      /\ AreParts(source.partial, 0, FrontRecord, version)
      /\ AreParts(monitor.pending, Len(source.partial), FrontRecord, version)
  BY DEF FrontOpen
<1>2. FrontRecord = source.offset + 1
  BY DEF FrontRecord
<1>3. \A i \in 1..Len(source.partial) : source.partial[i] = Observation(source.offset + 1, i, version)
  BY <1>1, <1>2, Types DEF AreParts, IsPart
<1> QED
  BY <1>1, <1>2, <1>3 DEF Continues, AreParts, IsPart

LEMMA NoMonitorFields ==
    /\ NoMonitor \in [phase : {"none", "read", "ack"}, expected : Seq(Observations),
                      replayed : Seq(Observations), pending : Seq(Observations)]
    /\ NoMonitor.phase = "none" /\ NoMonitor.expected = <<>>
    /\ NoMonitor.replayed = <<>> /\ NoMonitor.pending = <<>>
BY EmptySeq DEF NoMonitor

LEMMA JournalUnchanged ==
    ASSUME JournalOK, UNCHANGED <<source, journal, outcome>>
    PROVE  JournalOK'
BY DEF JournalOK, PrefixOK, ExactlyOnce, PrefixIsHeld, WholeBatch, BegunBatch, Observation

(* A state that loses its monitor, with what was on the way to it, still   *)
(* has a cursor to resume from.                                            *)
LEMMA DropKeepsCursor ==
    ASSUME SourceTypeOK, CursorOK, monitor' = NoMonitor, toCore' = <<>>, toHelper' \in {toHelper, <<>>},
           UNCHANGED <<produced, acknowledged, version, emitted, source>>
    PROVE  CursorOK'
<1>1. CASE source.offset = acknowledged /\ FrontOpen
  BY <1>1, NoMonitorFields DEF CursorOK, FrontOpen
<1>2. CASE source.offset = FrontRecord /\ FrontCommitted
  BY <1>2, NoMonitorFields DEF CursorOK, FrontCommitted, FrontRecord
<1> QED
  BY <1>1, <1>2 DEF CursorOK

-----------------------------------------------------------------------------
(* Every step keeps the invariant: the helper and the Craft.               *)

LEMMA InitIInv == Init => IInv
<1> SUFFICES ASSUME Init PROVE IInv
  OBVIOUS
<1>0. source.offset = 0 /\ source.partial = <<>> /\ Len(journal) = 0 /\ Len(source.partial) = 0
      /\ Len(toCore) = 0 /\ Len(journal) - Len(source.partial) = 0
  BY EmptySeq DEF Init
<1>1. SourceTypeOK
  BY SourceAssumption, EmptySeq, NoMonitorFields DEF Init, SourceTypeOK
<1>2. WireOK
  BY <1>0, <1>1, Types DEF Init, WireOK
<1>3. PeersOK
  BY <1>0, SourceAssumption, NoMonitorFields DEF Init, PeersOK
<1>4. CursorOK
  BY <1>0, NoMonitorFields DEF Init, CursorOK, FrontOpen
<1>5. PICK v \in Versions : BegunBatch(v, 0)
  BY <1>0, SourceAssumption DEF BegunBatch
<1>6. JournalOK
  <2>1. PrefixIsHeld
    BY <1>0 DEF PrefixIsHeld
  <2>2. ExactlyOnce
    BY <1>0 DEF ExactlyOnce
  <2> QED BY <2>1, <2>2, <1>0, <1>5 DEF JournalOK, PrefixOK
<1> QED
  BY <1>1, <1>2, <1>3, <1>4, <1>6 DEF IInv

LEMMA TryAppendKeeps == IInv /\ try_append => IInv'
<1> SUFFICES ASSUME IInv, try_append PROVE IInv'
  OBVIOUS
<1> USE DEF helperVars, wireVars, coreVars
<1>0. SourceTypeOK /\ WireOK /\ PeersOK /\ CursorOK /\ JournalOK
  BY DEF IInv
<1>1. SourceTypeOK'
  BY <1>0, Types DEF SourceTypeOK, try_append
<1>2. WireOK'
  BY <1>0, Types DEF WireOK, try_append, Taken, FrontRecord, Waiting
<1>3. PeersOK'
  BY <1>0 DEF PeersOK, try_append
<1>4. CursorOK'
  <2>1. CASE source.offset = acknowledged /\ FrontOpen
    BY <2>1 DEF CursorOK, FrontOpen, Taken, FrontRecord, try_append
  <2>2. CASE source.offset = FrontRecord /\ FrontCommitted
    BY <2>2, <1>0, Types DEF CursorOK, FrontCommitted, FrontRecord, try_append
  <2> QED BY <2>1, <2>2, <1>0 DEF CursorOK
<1>5. JournalOK'
  BY <1>0, JournalUnchanged DEF try_append
<1> QED
  BY <1>1, <1>2, <1>3, <1>4, <1>5 DEF IInv

LEMMA CraftSendsKeeps == IInv /\ CraftSends => IInv'
<1> SUFFICES ASSUME IInv, CraftSends PROVE IInv'
  OBVIOUS
<1> USE DEF helperVars, wireVars, coreVars
<1>0. SourceTypeOK /\ WireOK /\ PeersOK /\ CursorOK /\ JournalOK
  BY DEF IInv
<1> DEFINE m == Messages(FrontRecord, version)[emitted + 1]
<1>1. /\ Waiting > 0 /\ FrontRecord \in 1..Total /\ version \in Versions
      /\ stream = "open" /\ emitted \in Nat
  <2>1. stream = "open" /\ Waiting > 0
    BY DEF CraftSends
  <2>2. /\ version \in Versions /\ emitted \in Nat /\ Total \in Nat
        /\ acknowledged \in Nat /\ produced \in Nat /\ produced <= Total
    BY <1>0, Types DEF SourceTypeOK
  <2> QED BY <2>1, <2>2 DEF Waiting, FrontRecord
<1>2. /\ emitted < BatchLen[version] + 1 /\ emitted' = emitted + 1
      /\ toCore' = Append(toCore, m)
      /\ m = IF emitted + 1 <= BatchLen[version] THEN Observation(FrontRecord, emitted + 1, version)
                                                 ELSE Progress(FrontRecord)
      /\ m \in Observations \union Boundaries
  <2>1. emitted < BatchLen[version] + 1 /\ emitted' = emitted + 1 /\ toCore' = Append(toCore, m)
    BY <1>1, MessagesAre DEF CraftSends
  <2>2. emitted + 1 \in 1..(BatchLen[version] + 1)
    <3>1. BatchLen[version] \in Nat
      BY <1>0, Types
    <3> QED BY <3>1, <2>1, <1>1
  <2>3. /\ m = IF emitted + 1 <= BatchLen[version]
               THEN Observation(FrontRecord, emitted + 1, version)
               ELSE Progress(FrontRecord)
        /\ m \in Observations \union Boundaries
    BY <2>2, <1>1, MessagesAre
  <2> QED
    BY <2>1, <2>3
<1>3. source.offset = acknowledged /\ FrontOpen
  BY <1>0, <1>2, Types DEF CursorOK, FrontCommitted
<1>4. monitor.phase # "none"
  BY <1>0, <1>1, <1>3, Types DEF PeersOK, Waiting
<1> HIDE DEF m
<1>5. /\ toCore' \in Seq(Observations \union Boundaries)
      /\ Len(toCore') = Len(toCore) + 1
      /\ \A i \in 1..Len(toCore) : toCore'[i] = toCore[i]
      /\ toCore'[Len(toCore) + 1] = m
  BY <1>0, <1>2, AppendProperties DEF SourceTypeOK
<1>6. Taken' = Taken /\ Taken \in Nat
  <2>1. Len(toCore) <= emitted /\ Len(toCore) \in Nat /\ emitted \in Nat
    BY <1>0, Types DEF WireOK
  <2>2. Len(toCore') = Len(toCore) + 1 /\ emitted' = emitted + 1
    BY <1>2, <1>5
  <2> QED BY <2>1, <2>2 DEF Taken
<1>7. SourceTypeOK'
  BY <1>0, <1>2, <1>5 DEF SourceTypeOK, CraftSends
<1>8. WireOK'
  <2>1. ASSUME NEW i \in 1..Len(toCore')
        PROVE  toCore'[i] = IF Taken + i <= BatchLen[version]
                            THEN Observation(FrontRecord, Taken + i, version)
                            ELSE Progress(FrontRecord)
    <3>1. CASE i <= Len(toCore)
      <4>1. i \in 1..Len(toCore)
        BY <3>1, <1>0, <1>5, Types
      <4> QED BY <4>1, <1>0, <1>5 DEF WireOK
    <3>2. CASE i = Len(toCore) + 1
      <4>1. Taken + i = emitted + 1
        BY <3>2, <1>0, Types DEF Taken
      <4> QED BY <4>1, <3>2, <1>2, <1>5
    <3> QED BY <3>1, <3>2, <1>0, <1>5, Types
  <2>2. UNCHANGED <<version, FrontRecord, Waiting>>
    BY DEF CraftSends, FrontRecord, Waiting
  <2>3. emitted' <= BatchLen[version] + 1
    <3>1. BatchLen[version] \in Nat
      BY <1>0, Types
    <3> QED BY <3>1, <1>1, <1>2
  <2>4. Len(toCore) <= emitted
    BY <1>0 DEF WireOK
  <2>5. Len(toCore') <= emitted'
    BY <2>4, <1>0, <1>2, <1>5, Types
  <2> QED
    BY <2>1, <2>2, <2>3, <2>5, <1>1, <1>6 DEF WireOK
<1>9. PeersOK'
  BY <1>0, <1>4 DEF PeersOK, CraftSends
<1>10. CursorOK'
  BY <1>3, <1>6 DEF CursorOK, FrontOpen, FrontRecord, CraftSends
<1>11. JournalOK'
  BY <1>0, JournalUnchanged DEF CraftSends
<1> QED
  BY <1>7, <1>8, <1>9, <1>10, <1>11 DEF IInv

LEMMA acknowledgeKeeps == IInv /\ acknowledge => IInv'
<1> SUFFICES ASSUME IInv, acknowledge PROVE IInv'
  OBVIOUS
<1> USE DEF helperVars, wireVars, coreVars
<1>0. SourceTypeOK /\ WireOK /\ PeersOK /\ CursorOK /\ JournalOK
  BY DEF IInv
<1>1. source.offset = FrontRecord /\ FrontCommitted /\ toHelper = <<FrontRecord>>
  BY <1>0 DEF CursorOK, FrontOpen, FrontCommitted, acknowledge
<1>2. /\ Head(toHelper) = FrontRecord /\ Tail(toHelper) = <<>>
      /\ emitted > 0 /\ Waiting > 0 /\ FrontRecord \in 1..produced
  BY <1>0, <1>1, Types DEF FrontCommitted, Waiting, FrontRecord
<1>3. /\ toHelper' = <<>> /\ acknowledged' = FrontRecord /\ emitted' = 0
      /\ helper' = IF FrontRecord = Total THEN "done" ELSE helper
      /\ UNCHANGED <<stream, produced, version, toCore, source, journal, outcome, monitor, faults>>
  BY <1>2 DEF acknowledge
<1>4. /\ toCore = <<>> /\ Len(toCore) = 0 /\ Len(source.partial) = 0
      /\ Len(monitor.expected) = 0 /\ Len(monitor.replayed) = 0 /\ Len(monitor.pending) = 0
      /\ monitor.phase # "ack"
  BY <1>1, EmptySeq DEF FrontCommitted
<1>5. SourceTypeOK'
  BY <1>0, <1>2, <1>3, EmptySeq, Types DEF SourceTypeOK
<1>6. Taken' = 0 /\ Len(toCore') = 0
  <2>1. toCore' = <<>>
    BY <1>3, <1>4
  <2>2. Len(toCore') = 0
    BY <2>1, EmptySeq
  <2>3. emitted' = 0
    BY <1>3
  <2> QED BY <2>2, <2>3 DEF Taken
<1>a. WireOK'
  BY <1>0, <1>3, <1>6, Types DEF WireOK
<1>7. PeersOK'
  <2>1. FrontRecord = Total => monitor.phase = "none"
    BY <1>0, <1>1, <1>4 DEF PeersOK, SourceTypeOK
  <2>2. helper = "alive"
    BY DEF acknowledge
  <2> QED BY <2>1, <2>2, <1>0, <1>3 DEF PeersOK
<1>8. CursorOK'
  BY <1>0, <1>1, <1>3, <1>4, <1>6, Types DEF CursorOK, FrontOpen, AreParts
<1>9. JournalOK'
  BY <1>0, <1>3, JournalUnchanged
<1> QED
  BY <1>5, <1>a, <1>7, <1>8, <1>9 DEF IInv

-----------------------------------------------------------------------------
(* Every step keeps the invariant: the monitor.                            *)

(* The connection goes, with or without a monitor.                         *)
LEMMA DroppedKeeps ==
    ASSUME IInv, Dropped,
           UNCHANGED <<helperVars, version, emitted, toHelper, coreVars>>,
           faults' \in 0..MaxFaults
    PROVE  IInv'
<1> USE DEF helperVars, wireVars, coreVars
<1>0. SourceTypeOK /\ WireOK /\ PeersOK /\ CursorOK /\ JournalOK
  BY DEF IInv
<1>1. monitor' = NoMonitor /\ toCore' = <<>> /\ stream' \in {"stale", "closed"}
  BY <1>0 DEF Dropped, SourceTypeOK
<1>2. WireOK' /\ toCore' \in Seq(Observations \union Boundaries)
  BY <1>0, <1>1, DropAll
<1>3. SourceTypeOK'
  BY <1>0, <1>1, <1>2, NoMonitorFields DEF SourceTypeOK
<1>4. PeersOK'
  BY <1>0, <1>1, NoMonitorFields DEF PeersOK
<1>5. CursorOK'
  BY <1>0, <1>1, DropKeepsCursor
<1>6. JournalOK'
  BY <1>0, JournalUnchanged
<1> QED
  BY <1>2, <1>3, <1>4, <1>5, <1>6 DEF IInv

(* Parts that follow parts are the parts of a longer prefix.               *)
LEMMA PartsConcat ==
    ASSUME NEW n, NEW v, NEW s \in Seq(Observations), NEW g \in Seq(Observations),
           AreParts(s, 0, n, v), AreParts(g, Len(s), n, v)
    PROVE  Len(s \o g) = Len(s) + Len(g) /\ AreParts(s \o g, 0, n, v)
<1>1. Len(s) \in Nat /\ Len(g) \in Nat
  BY LenProperties
<1>2. /\ Len(s \o g) = Len(s) + Len(g)
      /\ \A i \in 1..(Len(s) + Len(g)) :
            (s \o g)[i] = IF i <= Len(s) THEN s[i] ELSE g[i - Len(s)]
  BY ConcatProperties
<1>3. ASSUME NEW i \in 1..(Len(s) + Len(g))
      PROVE  IsPart((s \o g)[i], 0 + i, n, v)
  <2>1. CASE i <= Len(s)
    BY <2>1, <1>1, <1>2 DEF AreParts
  <2>2. CASE i > Len(s)
    <3>1. i - Len(s) \in 1..Len(g) /\ Len(s) + (i - Len(s)) = 0 + i
      BY <2>2, <1>1
    <3>2. IsPart(g[i - Len(s)], Len(s) + (i - Len(s)), n, v)
      BY <3>1 DEF AreParts
    <3> QED BY <3>1, <3>2, <2>2, <1>1, <1>2
  <2> QED BY <2>1, <2>2, <1>1
<1> QED
  BY <1>2, <1>3 DEF AreParts

(* One more part after the others.                                         *)
LEMMA PartsAppend ==
    ASSUME NEW n, NEW v, NEW k \in Nat, NEW s \in Seq(Observations), NEW m \in Observations,
           AreParts(s, k, n, v), IsPart(m, k + Len(s) + 1, n, v)
    PROVE  /\ Append(s, m) \in Seq(Observations) /\ Len(Append(s, m)) = Len(s) + 1
           /\ AreParts(Append(s, m), k, n, v)
<1>1. /\ Append(s, m) \in Seq(Observations) /\ Len(Append(s, m)) = Len(s) + 1
      /\ \A i \in 1..Len(s) : Append(s, m)[i] = s[i]
      /\ Append(s, m)[Len(s) + 1] = m /\ Len(s) \in Nat
  BY AppendProperties, LenProperties
<1>2. ASSUME NEW i \in 1..(Len(s) + 1)
      PROVE  IsPart(Append(s, m)[i], k + i, n, v)
  <2>1. CASE i <= Len(s)
    BY <2>1, <1>1 DEF AreParts
  <2>2. CASE i = Len(s) + 1
    BY <2>2, <1>1
  <2> QED BY <2>1, <2>2, <1>1
<1> QED
  BY <1>1, <1>2 DEF AreParts

(* The monitor commits the group it holds, as the next parts of the record.*)
LEMMA CommitKeepsFront ==
    ASSUME IInv, monitor.phase = "read", source.offset = acknowledged, FrontOpen,
           ~(Len(monitor.replayed) < Len(monitor.expected)),
           CommitGroup(monitor.pending), outcome' = outcome
    PROVE  /\ journal' \in Seq(Observations)
           /\ source' \in [offset : 0..Total, partial : Seq(Observations)]
           /\ source'.offset = source.offset
           /\ Len(source'.partial) = Taken
           /\ AreParts(source'.partial, 0, FrontRecord, version)
           /\ JournalOK'
<1>0. SourceTypeOK /\ PeersOK /\ JournalOK /\ version \in Versions
  BY DEF IInv, SourceTypeOK
<1>1. Continues(monitor.pending, version)
  BY <1>0, HeldContinues
<1>2. /\ outcome # "lost" /\ monitor.pending \in Seq(Observations)
      /\ source.partial \in Seq(Observations)
  BY <1>0, Types DEF PeersOK
<1>3. /\ journal' \in Seq(Observations)
      /\ source' \in [offset : 0..Total, partial : Seq(Observations)]
      /\ source'.offset = source.offset
      /\ source'.partial = source.partial \o monitor.pending
      /\ JournalOK'
  BY <1>0, <1>1, <1>2, GroupKeepsJournal
<1>4. /\ AreParts(source.partial, 0, FrontRecord, version)
      /\ AreParts(monitor.pending, Len(source.partial), FrontRecord, version)
      /\ Taken = Len(source.partial) + Len(monitor.pending)
  BY DEF FrontOpen
<1>5. /\ Len(source.partial \o monitor.pending) = Taken
      /\ AreParts(source.partial \o monitor.pending, 0, FrontRecord, version)
  BY <1>2, <1>4, PartsConcat
<1> QED
  BY <1>3, <1>5

LEMMA DeadlineKeeps == IInv /\ Deadline => IInv'
<1> SUFFICES ASSUME IInv, Deadline PROVE IInv'
  OBVIOUS
<1> USE DEF helperVars, wireVars, coreVars
<1>0. SourceTypeOK /\ WireOK /\ PeersOK /\ CursorOK /\ JournalOK
  BY DEF IInv
<1>1. source.offset = acknowledged /\ FrontOpen /\ monitor.phase = "read"
  BY <1>0 DEF CursorOK, FrontCommitted, Deadline
<1>2. ~(Len(monitor.replayed) < Len(monitor.expected))
  BY <1>1 DEF FrontOpen, Deadline
<1>3. /\ journal' \in Seq(Observations)
      /\ source' \in [offset : 0..Total, partial : Seq(Observations)]
      /\ source'.offset = source.offset /\ Len(source'.partial) = Taken
      /\ AreParts(source'.partial, 0, FrontRecord, version)
      /\ JournalOK'
  BY <1>1, <1>2, CommitKeepsFront DEF Deadline
<1>4. /\ monitor' = [monitor EXCEPT !.pending = <<>>]
      /\ UNCHANGED <<helper, produced, acknowledged, stream, version, emitted, toCore,
                     toHelper, outcome, faults>>
  BY DEF Deadline
<1>5. /\ monitor' \in [phase : {"none", "read", "ack"}, expected : Seq(Observations),
                       replayed : Seq(Observations), pending : Seq(Observations)]
      /\ monitor'.phase = "read" /\ monitor'.pending = <<>> /\ Len(monitor'.pending) = 0
      /\ monitor'.expected = monitor.expected /\ monitor'.replayed = monitor.replayed
  BY <1>0, <1>1, <1>4, EmptySeq DEF SourceTypeOK
<1>6. SourceTypeOK'
  BY <1>0, <1>3, <1>4, <1>5 DEF SourceTypeOK
<1>7. WireOK' /\ Taken' = Taken /\ FrontRecord' = FrontRecord
  BY <1>0, <1>4 DEF WireOK, Taken, FrontRecord, Waiting
<1>8. PeersOK'
  BY <1>0, <1>1, <1>3, <1>4, <1>5 DEF PeersOK
<1>9. FrontOpen'
  <2>1. Taken' = Len(source'.partial) + Len(monitor'.pending)
    <3>1. Taken \in Int
      BY <1>0, Types DEF Taken
    <3> QED BY <3>1, <1>3, <1>5, <1>7
  <2>2. AreParts(monitor'.pending, Len(source'.partial), FrontRecord, version)
    BY <1>5 DEF AreParts
  <2>3. /\ Taken <= BatchLen[version] /\ toHelper = <<>>
        /\ AreParts(monitor.replayed, 0, FrontRecord, version)
        /\ Len(monitor.replayed) <= Len(monitor.expected)
    BY <1>1 DEF FrontOpen
  <2> QED
    BY <2>1, <2>2, <2>3, <1>2, <1>3, <1>4, <1>5, <1>7 DEF FrontOpen
<1>10. CursorOK'
  BY <1>1, <1>3, <1>4, <1>9 DEF CursorOK
<1> QED
  BY <1>3, <1>6, <1>7, <1>8, <1>10 DEF IInv

LEMMA ReceiveObservationKeeps == IInv /\ ReceiveObservation => IInv'
<1> SUFFICES ASSUME IInv, ReceiveObservation PROVE IInv'
  OBVIOUS
<1> USE DEF helperVars, wireVars, coreVars
<1> DEFINE m == Head(toCore)
           replaying == Len(monitor.replayed) < Len(monitor.expected)
           replayed == Append(monitor.replayed, m)
           full == Len(monitor.pending) >= Group
           mismatch == Len(replayed) = Len(monitor.expected) /\ replayed # monitor.expected
<1>0. SourceTypeOK /\ WireOK /\ PeersOK /\ CursorOK /\ JournalOK
  BY DEF IInv
<1>1. /\ monitor.phase = "read" /\ toCore # <<>> /\ ~IsProgress(m)
      /\ UNCHANGED <<helper, produced, acknowledged, version, emitted, toHelper, outcome, faults>>
  BY DEF ReceiveObservation
<1>2. /\ source.offset = acknowledged /\ FrontOpen /\ Taken \in Nat
      /\ m = IF Taken + 1 <= BatchLen[version] THEN Observation(FrontRecord, Taken + 1, version)
                                               ELSE Progress(FrontRecord)
      /\ FrontRecord \in 1..Total
  BY <1>1, NextMessage
<1>3. IsPart(m, Taken + 1, FrontRecord, version) /\ m \in Observations
  <2>1. Taken + 1 <= BatchLen[version] /\ m = Observation(FrontRecord, Taken + 1, version)
    BY <1>1, <1>2, MessageKinds
  <2>2. Observation(FrontRecord, Taken + 1, version) \in Observations
    BY <1>0, <1>2, MessagesAre DEF SourceTypeOK
  <2> QED BY <2>1, <2>2 DEF IsPart
<1>4. /\ Len(monitor.replayed) <= Len(monitor.expected)
      /\ AreParts(monitor.replayed, 0, FrontRecord, version)
      /\ toHelper = <<>>
  BY <1>1, <1>2 DEF FrontOpen
<1>t. /\ Len(monitor.replayed) \in Nat /\ Len(monitor.expected) \in Nat
      /\ Len(monitor.pending) \in Nat /\ Len(source.partial) \in Nat
      /\ monitor.replayed \in Seq(Observations) /\ monitor.pending \in Seq(Observations)
      /\ monitor \in [phase : {"none", "read", "ack"}, expected : Seq(Observations),
                      replayed : Seq(Observations), pending : Seq(Observations)]
      /\ Taken + 1 <= BatchLen[version]
  BY <1>0, <1>3, Types DEF SourceTypeOK, IsPart
<1> HIDE DEF m
<1>5. CASE replaying /\ mismatch
  <2>1. Disconnected /\ UNCHANGED <<source, journal>>
    BY <1>5 DEF ReceiveObservation, m
  <2>2. faults' \in 0..MaxFaults
    BY <1>0, <1>1 DEF SourceTypeOK
  <2> QED
    BY <2>1, <2>2, <1>1, DroppedKeeps DEF Disconnected
<1>6. CASE ~(replaying /\ mismatch)
  <2>1. toCore' = Tail(toCore) /\ UNCHANGED stream
    BY <1>6 DEF ReceiveObservation, m
  <2>2. /\ WireOK' /\ Taken' = Taken + 1 /\ toCore' \in Seq(Observations \union Boundaries)
        /\ FrontRecord' = FrontRecord
    BY <2>1, <1>0, <1>1, TakeOne DEF FrontRecord
  <2>3. CASE replaying
    <3>1. /\ monitor' = [monitor EXCEPT !.replayed = replayed]
          /\ UNCHANGED <<source, journal>>
      BY <2>3, <1>6 DEF ReceiveObservation, m
    <3>2. /\ monitor.expected = source.partial /\ monitor.pending = <<>>
          /\ Taken = Len(monitor.replayed)
      BY <2>3, <1>1, <1>2 DEF FrontOpen
    <3>3. /\ replayed \in Seq(Observations) /\ Len(replayed) = Len(monitor.replayed) + 1
          /\ AreParts(replayed, 0, FrontRecord, version)
      <4>1. IsPart(m, 0 + Len(monitor.replayed) + 1, FrontRecord, version)
        BY <3>2, <1>3, <1>t
      <4> QED BY <4>1, <1>3, <1>4, <1>t, PartsAppend
    <3> HIDE DEF replayed
    <3>4. /\ monitor' \in [phase : {"none", "read", "ack"}, expected : Seq(Observations),
                           replayed : Seq(Observations), pending : Seq(Observations)]
          /\ monitor'.phase = "read" /\ monitor'.pending = <<>>
          /\ monitor'.expected = monitor.expected /\ monitor'.replayed = replayed
      BY <3>1, <3>2, <3>3, <1>1, <1>t
    <3>5. SourceTypeOK'
      BY <3>1, <3>4, <2>1, <2>2, <1>0, <1>1 DEF SourceTypeOK
    <3>6. PeersOK'
      BY <3>1, <3>4, <2>1, <1>0, <1>1 DEF PeersOK
    <3>7. Len(replayed) <= Len(monitor.expected) /\ Taken' = Len(replayed) /\ Taken' <= BatchLen[version]
      BY <3>2, <3>3, <2>2, <2>3, <1>t
    <3>8. CASE Len(replayed) < Len(monitor.expected)
      <4>1. FrontOpen'
        BY <3>1, <3>2, <3>3, <3>4, <3>7, <3>8, <2>2, <1>1, <1>4 DEF FrontOpen
      <4>2. CursorOK'
        BY <4>1, <3>1, <1>1, <1>2 DEF CursorOK
      <4>3. JournalOK'
        BY <3>1, <1>0, <1>1, JournalUnchanged
      <4> QED
        BY <4>2, <4>3, <3>5, <3>6, <2>2 DEF IInv
    <3>9. CASE Len(replayed) = Len(monitor.expected)
      <4>1. replayed = monitor.expected
        BY <3>9, <2>3, <1>6
      <4>2. AreParts(source.partial, 0, FrontRecord, version) /\ Taken' = Len(source.partial)
        BY <4>1, <3>2, <3>3, <3>7
      <4>3. Len(monitor'.pending) = 0
        BY <3>4, EmptySeq
      <4>4. AreParts(monitor'.pending, Len(source.partial), FrontRecord, version)
        BY <4>3 DEF AreParts
      <4>5. Taken' = Len(source.partial) + Len(monitor'.pending)
        BY <4>2, <4>3, <1>t
      <4>6. ~(Len(monitor'.replayed) < Len(monitor'.expected))
        BY <3>4, <3>9, <1>t
      <4>7. FrontOpen'
        BY <4>2, <4>4, <4>5, <4>6, <3>1, <3>3, <3>4, <3>7, <2>2, <1>1, <1>4 DEF FrontOpen
      <4>8. CursorOK'
        BY <4>7, <3>1, <1>1, <1>2 DEF CursorOK
      <4>9. JournalOK'
        BY <3>1, <1>0, <1>1, JournalUnchanged
      <4> QED
        BY <4>8, <4>9, <3>5, <3>6, <2>2 DEF IInv
    <3> QED
      BY <3>3, <3>7, <3>8, <3>9, <1>t
  <2>4. CASE ~replaying
    <3>1. /\ monitor' = [monitor EXCEPT !.pending =
                           IF full THEN <<m>> ELSE Append(monitor.pending, m)]
          /\ IF full THEN CommitGroup(monitor.pending) ELSE UNCHANGED <<source, journal>>
      BY <2>4 DEF ReceiveObservation, m
    <3>2. /\ Taken = Len(source.partial) + Len(monitor.pending)
          /\ AreParts(source.partial, 0, FrontRecord, version)
          /\ AreParts(monitor.pending, Len(source.partial), FrontRecord, version)
      BY <2>4, <1>1, <1>2 DEF FrontOpen
    (* Whether or not a group is committed, the part that was read follows *)
    (* the prefix and what is still held.                                  *)
    <3>3. /\ journal' \in Seq(Observations)
          /\ source' \in [offset : 0..Total, partial : Seq(Observations)]
          /\ source'.offset = source.offset
          /\ AreParts(source'.partial, 0, FrontRecord, version)
          /\ JournalOK'
          /\ monitor'.pending \in Seq(Observations)
          /\ AreParts(monitor'.pending, Len(source'.partial), FrontRecord, version)
          /\ Taken' = Len(source'.partial) + Len(monitor'.pending)
      <4>1. CASE full
        <5>1. /\ journal' \in Seq(Observations)
              /\ source' \in [offset : 0..Total, partial : Seq(Observations)]
              /\ source'.offset = source.offset /\ Len(source'.partial) = Taken
              /\ AreParts(source'.partial, 0, FrontRecord, version)
              /\ JournalOK'
          BY <4>1, <3>1, <2>4, <1>1, <1>2, CommitKeepsFront
        <5>2. monitor'.pending = <<m>>
          BY <4>1, <3>1, <1>t
        <5>3. <<m>> \in Seq(Observations) /\ Len(<<m>>) = 1 /\ <<m>>[1] = m
          BY <1>3
        <5>4. \A i \in 1..1 : i = 1
          OBVIOUS
        <5>5. AreParts(<<m>>, Taken, FrontRecord, version)
          BY <5>3, <5>4, <1>3 DEF AreParts
        <5> QED
          BY <5>1, <5>2, <5>3, <5>5, <2>2
      <4>2. CASE ~full
        <5>1. UNCHANGED <<source, journal>> /\ monitor'.pending = Append(monitor.pending, m)
          BY <4>2, <3>1, <1>t
        <5>2. JournalOK'
          BY <5>1, <1>0, <1>1, JournalUnchanged
        <5>3. /\ Append(monitor.pending, m) \in Seq(Observations)
              /\ Len(Append(monitor.pending, m)) = Len(monitor.pending) + 1
              /\ AreParts(Append(monitor.pending, m), Len(source.partial), FrontRecord, version)
          <6>1. IsPart(m, Len(source.partial) + Len(monitor.pending) + 1, FrontRecord, version)
            BY <3>2, <1>3
          <6> QED BY <6>1, <3>2, <1>3, <1>t, PartsAppend
        <5>4. Taken' = Len(source.partial) + (Len(monitor.pending) + 1)
          <6>1. Taken' = (Len(source.partial) + Len(monitor.pending)) + 1
            BY <3>2, <2>2
          <6>2. \A a, b \in Nat : (a + b) + 1 = a + (b + 1)
            OBVIOUS
          <6> QED BY <6>1, <6>2, <1>t, Zenon
        <5> QED
          BY <5>1, <5>2, <5>3, <5>4, <3>2, <1>0 DEF SourceTypeOK
      <4> QED BY <4>1, <4>2
    <3>4. /\ monitor' \in [phase : {"none", "read", "ack"}, expected : Seq(Observations),
                           replayed : Seq(Observations), pending : Seq(Observations)]
          /\ monitor'.phase = "read"
          /\ monitor'.expected = monitor.expected /\ monitor'.replayed = monitor.replayed
      <4>1. \E q : monitor' = [monitor EXCEPT !.pending = q]
        BY <3>1
      <4>2. PICK q : monitor' = [monitor EXCEPT !.pending = q]
        BY <4>1
      <4>3. q \in Seq(Observations)
        BY <4>2, <3>3, <1>t
      <4> QED BY <4>2, <4>3, <1>1, <1>t
    <3>5. SourceTypeOK'
      BY <3>3, <3>4, <2>1, <2>2, <1>0, <1>1 DEF SourceTypeOK
    <3>6. PeersOK'
      BY <3>3, <3>4, <2>1, <1>0, <1>1 DEF PeersOK
    <3>7. FrontOpen'
      <4>1. Taken' <= BatchLen[version']
        BY <2>2, <1>1, <1>t
      <4>2. ~(Len(monitor'.replayed) < Len(monitor'.expected))
        BY <3>4, <2>4
      <4> QED
        BY <4>1, <4>2, <3>3, <3>4, <2>2, <1>1, <1>4 DEF FrontOpen
    <3>8. CursorOK'
      BY <3>3, <3>7, <1>1, <1>2 DEF CursorOK
    <3> QED
      BY <3>3, <3>5, <3>6, <3>8, <2>2 DEF IInv
  <2> QED BY <2>3, <2>4
<1> QED
  BY <1>5, <1>6

LEMMA ReceiveProgressKeeps == IInv /\ ReceiveProgress => IInv'
<1> SUFFICES ASSUME IInv, ReceiveProgress PROVE IInv'
  OBVIOUS
<1> USE DEF helperVars, wireVars, coreVars
<1>0. SourceTypeOK /\ WireOK /\ PeersOK /\ CursorOK /\ JournalOK /\ version \in Versions
  BY DEF IInv, SourceTypeOK
<1>1. /\ monitor.phase = "read" /\ toCore # <<>> /\ IsProgress(Head(toCore))
      /\ UNCHANGED <<helper, produced, acknowledged, version, emitted, toHelper, faults>>
  BY DEF ReceiveProgress
<1>2. /\ source.offset = acknowledged /\ FrontOpen /\ Taken \in Nat
      /\ Head(toCore) = IF Taken + 1 <= BatchLen[version]
                        THEN Observation(FrontRecord, Taken + 1, version)
                        ELSE Progress(FrontRecord)
      /\ FrontRecord \in 1..Total
  BY <1>1, NextMessage
<1>3. Head(toCore).progress = FrontRecord /\ ~(Taken + 1 <= BatchLen[version])
  BY <1>1, <1>2, MessageKinds
<1>4. CASE Len(monitor.replayed) < Len(monitor.expected)
  <2>1. Disconnected /\ UNCHANGED <<source, journal, outcome>>
    BY <1>4 DEF ReceiveProgress
  <2>2. faults' \in 0..MaxFaults
    BY <1>0, <1>1 DEF SourceTypeOK
  <2> QED
    BY <2>1, <2>2, <1>1, DroppedKeeps DEF Disconnected
<1>5. CASE ~(Len(monitor.replayed) < Len(monitor.expected))
  <2>1. /\ CommitComplete(monitor.pending, FrontRecord)
        /\ outcome' = IF FrontRecord = Total THEN "ended" ELSE outcome
        /\ monitor' = [NoMonitor EXCEPT !.phase = "ack"]
        /\ toCore' = Tail(toCore) /\ UNCHANGED stream
    BY <1>3, <1>5 DEF ReceiveProgress
  <2>2. /\ Taken = Len(source.partial) + Len(monitor.pending) /\ Taken <= BatchLen[version]
        /\ toHelper = <<>>
    BY <1>1, <1>2, <1>5 DEF FrontOpen
  <2>3. /\ Taken = BatchLen[version] /\ FrontRecord = source.offset + 1
        /\ source.offset < Total /\ outcome = "running"
    <3>1. Taken \in Nat /\ BatchLen[version] \in Nat /\ Total \in Nat /\ source.offset \in Nat
      BY <1>0, <1>2, Types
    <3>a. Taken <= BatchLen[version]
      BY <2>2
    <3>b. ~(Taken + 1 <= BatchLen[version])
      BY <1>3
    <3>2. Taken = BatchLen[version]
      BY <3>1, <3>a, <3>b
    <3>3. FrontRecord = source.offset + 1
      BY <1>2 DEF FrontRecord
    <3>4. source.offset < Total
      BY <3>1, <3>3, <1>2
    <3> QED BY <3>2, <3>3, <3>4, <1>0, <1>1 DEF PeersOK
  <2>4. Continues(monitor.pending, version)
    BY <1>0, <1>1, <1>2, <1>5, HeldContinues
  <2>5. /\ journal' \in Seq(Observations)
        /\ source' \in [offset : 0..Total, partial : Seq(Observations)]
        /\ source'.offset = FrontRecord /\ source'.partial = <<>>
        /\ JournalOK'
    <3>1. monitor.pending \in Seq(Observations) /\ CommitComplete(monitor.pending, source.offset + 1)
      BY <2>1, <2>3, <1>0, Types
    <3>2. outcome # "lost" /\ Len(source.partial) + Len(monitor.pending) = BatchLen[version]
      BY <2>2, <2>3
    <3> QED
      BY <3>1, <3>2, <2>3, <2>4, <1>0, CompleteKeepsJournal
  <2>6. /\ WireOK' /\ Taken' = Taken + 1 /\ toCore' \in Seq(Observations \union Boundaries)
        /\ FrontRecord' = FrontRecord
    BY <2>1, <1>0, <1>1, TakeOne DEF FrontRecord
  <2>7. emitted = BatchLen[version] + 1 /\ toCore' = <<>>
    <3>1. /\ toCore \in Seq(Observations \union Boundaries) /\ Len(toCore) \in Nat \ {0}
          /\ emitted \in Nat /\ emitted <= BatchLen[version] + 1
      BY <1>0, <1>1, EmptySeq DEF SourceTypeOK, WireOK
    <3>2. emitted - Len(toCore) = BatchLen[version] /\ BatchLen[version] \in Nat
      BY <2>3, <1>0, Types DEF Taken
    <3>a. \A a \in Nat \ {0}, b, c \in Nat : b - a = c /\ b <= c + 1 => a = 1 /\ b = c + 1
      OBVIOUS
    <3>3. Len(toCore) = 1 /\ emitted = BatchLen[version] + 1
      BY <3>1, <3>2, <3>a, Zenon
    <3>4. Len(toCore') = 0
      BY <3>3, <2>1, <1>0, <1>1, HeadTailProperties DEF SourceTypeOK
    <3> QED
      BY <3>3, <3>4, <2>6, EmptySeq
  <2>8. /\ monitor' \in [phase : {"none", "read", "ack"}, expected : Seq(Observations),
                         replayed : Seq(Observations), pending : Seq(Observations)]
        /\ monitor'.phase = "ack" /\ monitor'.expected = <<>>
        /\ monitor'.replayed = <<>> /\ monitor'.pending = <<>>
    BY <2>1, NoMonitorFields DEF NoMonitor
  <2>9. SourceTypeOK'
    BY <2>1, <2>5, <2>6, <2>8, <1>0, <1>1 DEF SourceTypeOK
  <2>10. PeersOK'
    BY <2>1, <2>3, <2>5, <2>8, <1>0, <1>1 DEF PeersOK
  <2>11. acknowledged < produced
    BY <2>7, <1>0, Types DEF WireOK, Waiting
  <2>12. CursorOK'
    BY <2>2, <2>5, <2>6, <2>7, <2>8, <2>11, <1>1 DEF CursorOK, FrontCommitted
  <2> QED
    BY <2>5, <2>6, <2>9, <2>10, <2>12 DEF IInv
<1> QED
  BY <1>4, <1>5

LEMMA AcknowledgeKeeps == IInv /\ Acknowledge => IInv'
<1> SUFFICES ASSUME IInv, Acknowledge PROVE IInv'
  OBVIOUS
<1> USE DEF helperVars, wireVars, coreVars
<1>0. SourceTypeOK /\ WireOK /\ PeersOK /\ CursorOK /\ JournalOK
  BY DEF IInv
<1>1. /\ monitor.phase = "ack" /\ source.offset = FrontRecord /\ FrontCommitted
      /\ toHelper = <<>>
  BY <1>0 DEF CursorOK, FrontOpen, FrontCommitted, Acknowledge
<1>2. /\ toHelper' = <<FrontRecord>> /\ FrontRecord \in 1..Total
      /\ UNCHANGED <<helper, produced, acknowledged, stream, version, emitted, toCore,
                     source, journal, outcome, faults>>
  <2>1. FrontRecord \in 1..Total
    BY <1>0, <1>1, Types DEF FrontRecord, FrontCommitted
  <2>2. toHelper' = Append(<<>>, FrontRecord)
    BY <1>1 DEF Acknowledge
  <2> QED BY <2>1, <2>2 DEF Acknowledge
<1>3. /\ monitor' \in [phase : {"none", "read", "ack"}, expected : Seq(Observations),
                       replayed : Seq(Observations), pending : Seq(Observations)]
      /\ monitor'.phase = (IF outcome = "ended" THEN "none" ELSE "read")
      /\ outcome = "ended" => monitor' = NoMonitor
      /\ monitor'.expected = <<>> /\ monitor'.replayed = <<>> /\ monitor'.pending = <<>>
  <2>1. CASE outcome = "ended"
    BY <2>1, NoMonitorFields DEF Acknowledge
  <2>2. CASE outcome # "ended"
    BY <2>2, <1>0, <1>1 DEF Acknowledge, SourceTypeOK, FrontCommitted
  <2> QED BY <2>1, <2>2
<1>4. SourceTypeOK'
  <2>1. <<FrontRecord>> \in Seq(1..Total)
    BY <1>2
  <2> QED BY <2>1, <1>0, <1>2, <1>3 DEF SourceTypeOK
<1>5. WireOK'
  BY <1>0, <1>2 DEF WireOK, Taken, FrontRecord, Waiting
<1>6. PeersOK'
  BY <1>0, <1>1, <1>2, <1>3 DEF PeersOK, FrontCommitted, SourceTypeOK
<1>7. CursorOK'
  BY <1>1, <1>2, <1>3 DEF CursorOK, FrontCommitted, FrontRecord
<1>8. JournalOK'
  BY <1>0, <1>2, JournalUnchanged
<1> QED
  BY <1>4, <1>5, <1>6, <1>7, <1>8 DEF IInv

-----------------------------------------------------------------------------
(* Every step keeps the invariant: recovery and faults.                    *)

LEMMA ConnectKeeps ==
    ASSUME IInv, NEW v \in Versions, reconnect_run(v)
    PROVE  IInv'
<1> USE DEF helperVars, wireVars, coreVars
<1>0. SourceTypeOK /\ WireOK /\ PeersOK /\ CursorOK /\ JournalOK
  BY DEF IInv
<1>1. /\ acknowledged' = source.offset /\ version' = v
      /\ helper' = (IF source.offset = Total THEN "done" ELSE helper) /\ helper = "alive"
      /\ stream' = IF source.offset = Total THEN "closed" ELSE "open"
      /\ emitted' = 0 /\ toCore' = <<>> /\ toHelper' = <<>> /\ outcome # "lost"
      /\ UNCHANGED <<produced, source, journal, outcome, faults>>
  BY DEF reconnect_run, Released
<1>2. source.offset \in 0..produced
  <2>1. CASE source.offset = acknowledged
    BY <2>1, <1>0, Types
  <2>2. CASE source.offset = FrontRecord /\ FrontCommitted
    BY <2>2, <1>0, Types DEF FrontCommitted, FrontRecord
  <2> QED BY <2>1, <2>2, <1>0 DEF CursorOK
<1>3. /\ monitor' \in [phase : {"none", "read", "ack"}, expected : Seq(Observations),
                       replayed : Seq(Observations), pending : Seq(Observations)]
      /\ IF outcome = "ended" THEN monitor' = NoMonitor
         ELSE /\ monitor'.phase = "read" /\ monitor'.expected = source.partial
              /\ monitor'.replayed = <<>> /\ monitor'.pending = <<>>
  <2>1. CASE outcome = "ended"
    BY <2>1, NoMonitorFields DEF reconnect_run
  <2>2. CASE outcome # "ended"
    <3>1. monitor' = [phase |-> "read", expected |-> source.partial,
                      replayed |-> <<>>, pending |-> <<>>]
      BY <2>2 DEF reconnect_run
    <3>2. source.partial \in Seq(Observations) /\ <<>> \in Seq(Observations)
      BY <1>0, Types, EmptySeq
    <3> QED BY <3>1, <3>2, <2>2
  <2> QED BY <2>1, <2>2
<1>4. SourceTypeOK'
  BY <1>0, <1>1, <1>2, <1>3, EmptySeq DEF SourceTypeOK
<1>5. Len(toCore') = 0 /\ Taken' = 0
  <2>1. Len(toCore') = 0
    BY <1>1, EmptySeq
  <2>2. emitted' = 0
    BY <1>1
  <2> QED BY <2>1, <2>2 DEF Taken
<1>6. WireOK'
  <2>1. emitted' = 0 /\ version' \in Versions
    BY <1>1
  <2>2. BatchLen[version'] \in Nat
    BY <2>1, SourceAssumption
  <2> QED BY <2>1, <2>2, <1>5 DEF WireOK
<1>7. PeersOK'
  BY <1>0, <1>1, <1>3, NoMonitorFields DEF PeersOK, SourceTypeOK
<1>8. FrontOpen'
  <2>1. CASE outcome = "ended"
    BY <2>1, <1>1, <1>3, NoMonitorFields DEF FrontOpen
  <2>2. CASE outcome # "ended"
    <3>1. /\ monitor'.phase = "read" /\ monitor'.expected = source.partial
          /\ Len(monitor'.replayed) = 0 /\ Len(monitor'.pending) = 0 /\ monitor'.pending = <<>>
      BY <2>2, <1>3, EmptySeq
    <3>2. /\ BatchLen[version'] \in Nat /\ source'.partial = source.partial
          /\ source.partial \in Seq(Observations) /\ Len(source.partial) \in Nat
      BY <1>0, <1>1, SourceAssumption, Types
    <3>3. AreParts(monitor'.replayed, 0, FrontRecord', version')
      BY <3>1 DEF AreParts
    <3>4. CASE Len(source.partial) = 0
      <4>1. AreParts(source'.partial, 0, FrontRecord', version')
        BY <3>2, <3>4 DEF AreParts
      <4>2. AreParts(monitor'.pending, Len(source'.partial), FrontRecord', version')
        BY <3>1 DEF AreParts
      <4> QED BY <4>1, <4>2, <3>1, <3>2, <3>3, <3>4, <1>1, <1>5 DEF FrontOpen
    <3>5. CASE Len(source.partial) # 0
      <4>1. 0 < Len(source.partial)
        BY <3>2, <3>5
      <4> QED BY <4>1, <3>1, <3>2, <3>3, <1>1, <1>5 DEF FrontOpen
    <3> QED BY <3>4, <3>5
  <2> QED BY <2>1, <2>2
<1>9. CursorOK'
  BY <1>1, <1>8 DEF CursorOK
<1>10. JournalOK'
  BY <1>0, <1>1, JournalUnchanged
<1> QED
  BY <1>4, <1>6, <1>7, <1>9, <1>10 DEF IInv

LEMMA ObserveLostKeeps == IInv /\ ObserveLost => IInv'
<1> SUFFICES ASSUME IInv, ObserveLost PROVE IInv'
  OBVIOUS
<1> USE DEF helperVars, wireVars, coreVars
<1>0. SourceTypeOK /\ WireOK /\ PeersOK /\ CursorOK /\ JournalOK
  BY DEF IInv
<1>1. /\ monitor.phase = "none" /\ helper = "dead" /\ outcome = "running" /\ outcome' = "lost"
      /\ UNCHANGED <<helper, produced, acknowledged, stream, version, emitted, toCore,
                     toHelper, journal, monitor, faults>>
  BY DEF ObserveLost
<1>2. /\ source' \in [offset : 0..Total, partial : Seq(Observations)]
      /\ source'.offset = source.offset /\ source'.partial = <<>>
  BY <1>0, EmptySeq DEF ObserveLost, SourceTypeOK
<1>3. SourceTypeOK'
  BY <1>0, <1>1, <1>2 DEF SourceTypeOK
<1>4. WireOK'
  BY <1>0, <1>1 DEF WireOK, Taken, FrontRecord, Waiting
<1>5. PeersOK'
  BY <1>0, <1>1, <1>2 DEF PeersOK
<1>6. CursorOK'
  BY <1>0, <1>1, <1>2 DEF CursorOK, FrontOpen, FrontCommitted, FrontRecord
<1>7. ExactlyOnce'
  BY <1>0, <1>1, <1>2 DEF JournalOK, ExactlyOnce, WholeBatch, BegunBatch
<1>8. JournalOK'
  BY <1>1, <1>7 DEF JournalOK, PrefixOK
<1> QED
  BY <1>3, <1>4, <1>5, <1>6, <1>8 DEF IInv

LEMMA FaultsKeep == IInv /\ (ConnectionLost \/ JetdEnds \/ CraftDies \/ HelperDies) => IInv'
<1> SUFFICES ASSUME IInv, ConnectionLost \/ JetdEnds \/ CraftDies \/ HelperDies PROVE IInv'
  OBVIOUS
<1> USE DEF helperVars, wireVars, coreVars
<1>0. SourceTypeOK /\ WireOK /\ PeersOK /\ CursorOK /\ JournalOK
  BY DEF IInv
<1>1. faults' \in 0..MaxFaults
  <2>1. faults < MaxFaults /\ faults' = faults + 1
    BY DEF ConnectionLost, JetdEnds, CraftDies, HelperDies
  <2>2. faults \in 0..MaxFaults /\ MaxFaults \in Nat
    BY <1>0, SourceAssumption DEF SourceTypeOK
  <2> QED BY <2>1, <2>2
<1>2. CASE ConnectionLost \/ JetdEnds
  BY <1>1, <1>2, DroppedKeeps DEF ConnectionLost, JetdEnds, Disconnected
<1>3. CASE CraftDies \/ HelperDies
  <2>1. /\ monitor' = NoMonitor /\ toCore' = <<>> /\ toHelper' = <<>> /\ stream' = "closed"
        /\ helper' \in {helper, "dead"} /\ (helper' # helper => helper = "alive")
        /\ UNCHANGED <<produced, acknowledged, version, emitted, source, journal, outcome>>
    BY <1>3 DEF CraftDies, HelperDies, LosesMonitor
  <2>2. WireOK' /\ toCore' \in Seq(Observations \union Boundaries)
    BY <2>1, <1>0, DropAll
  <2>3. SourceTypeOK'
    BY <2>1, <2>2, <1>0, <1>1, NoMonitorFields, EmptySeq DEF SourceTypeOK
  <2>4. PeersOK'
    BY <2>1, <1>0, NoMonitorFields DEF PeersOK
  <2>5. CursorOK'
    BY <2>1, <1>0, DropKeepsCursor
  <2>6. JournalOK'
    BY <2>1, <1>0, JournalUnchanged
  <2> QED
    BY <2>2, <2>3, <2>4, <2>5, <2>6 DEF IInv
<1> QED
  BY <1>2, <1>3

(* The count of failures and the mark of an orphan are not part of it.     *)
LEMMA StutterKeeps ==
    IInv /\ UNCHANGED <<helperVars, wireVars, coreVars, monitor, faults>> => IInv'
<1> SUFFICES ASSUME IInv, UNCHANGED <<helperVars, wireVars, coreVars, monitor, faults>>
             PROVE  IInv'
  OBVIOUS
<1> USE DEF helperVars, wireVars, coreVars
<1>1. JournalOK'
  BY JournalUnchanged DEF IInv
<1> QED
  BY <1>1 DEF IInv, SourceTypeOK, WireOK, PeersOK, CursorOK, FrontOpen, FrontCommitted,
              Taken, FrontRecord, Waiting

-----------------------------------------------------------------------------
(* The theorems.                                                           *)

LEMMA NextKeeps == IInv /\ [Next]_vars => IInv'
<1> SUFFICES ASSUME IInv, [Next]_vars PROVE IInv'
  OBVIOUS
<1>1. CASE try_append
  BY <1>1, TryAppendKeeps
<1>2. CASE CraftSends
  BY <1>2, CraftSendsKeeps
<1>3. CASE acknowledge
  BY <1>3, acknowledgeKeeps
<1>4. CASE Supervise
  BY <1>4, ReceiveObservationKeeps, DeadlineKeeps, ReceiveProgressKeeps, AcknowledgeKeeps,
     ObserveLostKeeps DEF Supervise
<1>5. CASE \E v \in Versions : Connect(v) \/ Adopt(v)
  BY <1>5, ConnectKeeps DEF Connect, Adopt
<1>6. CASE ConnectionLost \/ JetdEnds \/ CraftDies \/ HelperDies
  BY <1>6, FaultsKeep
<1>7. CASE Unavailable \/ UNCHANGED vars
  BY <1>7, StutterKeeps DEF Unavailable, vars, helperVars, wireVars, coreVars
<1> QED
  BY <1>1, <1>2, <1>3, <1>4, <1>5, <1>6, <1>7 DEF Next

LEMMA Invariance == Spec => []IInv
<1>1. Init => IInv
  BY InitIInv
<1>2. IInv /\ [Next]_vars => IInv'
  BY NextKeeps
<1> QED
  BY <1>1, <1>2, PTL DEF Spec

(* The count of failures stays within its limit.                           *)
LEMMA RetriesKeep ==
    ASSUME orphan \in BOOLEAN, failures \in 0..MaxFailures, [Next]_vars
    PROVE  orphan' \in BOOLEAN /\ failures' \in 0..MaxFailures
<1> USE SourceAssumption DEF retryVars
<1>1. ASSUME failed
      PROVE  orphan' \in BOOLEAN /\ failures' \in 0..MaxFailures
  BY <1>1 DEF failed
<1>2. failed \/ (orphan' \in {orphan, FALSE} /\ failures' \in {failures, 0})
  BY DEF Next, Supervise, vars, try_append, CraftSends, acknowledge, ReceiveObservation, Deadline,
         ReceiveProgress, Acknowledge, ObserveLost, Connect, Unavailable, Adopt, Disconnected,
         ConnectionLost, JetdEnds, CraftDies, HelperDies, LosesMonitor
<1>3. 0 \in 0..MaxFailures /\ FALSE \in BOOLEAN
  OBVIOUS
<1> QED
  BY <1>1, <1>2, <1>3, Zenon

(* Every variable of the helper, the wire and the monitor keeps its type.  *)
THEOREM TypeCorrect == Spec => []TypeOK
<1> DEFINE Retries == orphan \in BOOLEAN /\ failures \in 0..MaxFailures
<1>1. IInv /\ Retries => TypeOK
  BY DEF IInv, TypeOK
<1>2. Init => Retries
  <2>1. 0 \in 0..MaxFailures /\ FALSE \in BOOLEAN
    BY SourceAssumption
  <2> QED
    BY <2>1, Zenon DEF Init
<1>3. Retries /\ [Next]_vars => Retries'
  BY RetriesKeep
<1> QED
  BY <1>1, <1>2, <1>3, Invariance, PTL DEF Spec

(* The journal is whole batches of one translation each, in order, and the *)
(* beginning of one more, after any crashes of jetd, Craft and helper and  *)
(* whatever a replacement Craft makes of a repeated record.                *)
THEOREM JournalExactlyOnce == Spec => []ExactlyOnce
<1>1. IInv => ExactlyOnce
  BY DEF IInv, JournalOK
<1> QED
  BY <1>1, Invariance, PTL

(* The helper's spool releases no record whose observations are not yet    *)
(* durable.                                                                *)
THEOREM ReleasedAfterCommit == Spec => []AcknowledgedAfterCommit
<1>1. IInv => AcknowledgedAfterCommit
  BY Types DEF IInv, CursorOK, AcknowledgedAfterCommit, FrontRecord
<1> QED
  BY <1>1, Invariance, PTL

(* Recovery can always resume: a living helper still has the boundary the  *)
(* durable cursor names, and the prefix to be skipped is the end of the    *)
(* journal.                                                                *)
THEOREM CursorAlwaysRecoverable == Spec => []CursorRecoverable
<1>1. ASSUME IInv
      PROVE  CursorRecoverable
  <2>0. SourceTypeOK /\ CursorOK /\ JournalOK
    BY <1>1 DEF IInv
  <2>1. Validates
    BY <2>0, Types DEF CursorOK, FrontCommitted, Validates, Waiting, FrontRecord
  <2>2. outcome # "lost" => PrefixIsHeld
    BY <2>0 DEF JournalOK, PrefixOK
  <2> QED BY <2>1, <2>2 DEF CursorRecoverable
<1> QED
  BY <1>1, Invariance, PTL

(* A sequence is a prefix of what is appended to it.                       *)
LEMMA PrefixOfConcat ==
    ASSUME NEW S, NEW s \in Seq(S), NEW t \in Seq(S)
    PROVE  IsPrefix(s, s \o t)
<1>1. /\ Len(s) \in Nat /\ Len(t) \in Nat /\ Len(s \o t) = Len(s) + Len(t)
      /\ \A i \in 1..Len(s) : (s \o t)[i] = s[i] /\ s[i] \in S
  BY LenProperties, ConcatProperties, ElementOfSeq
<1>2. Len(s) <= Len(s \o t)
  BY <1>1
<1>3. SubSeq(s, 1, Len(s)) = SubSeq(s \o t, 1, Len(s))
  <2> DEFINE n == Len(s)
             u == s \o t
  <2>1. n \in Nat /\ \A i \in 1..n : s[i] \in S /\ u[i] \in S /\ u[i] = s[i]
    BY <1>1
  <2> HIDE DEF n, u
  <2>a. 1 \in Int /\ n \in Int
    BY <2>1
  <2>2. /\ SubSeq(s, 1, n) \in Seq(S) /\ Len(SubSeq(s, 1, n)) = IF 1 <= n THEN n - 1 + 1 ELSE 0
        /\ \A i \in 1..(n - 1 + 1) : SubSeq(s, 1, n)[i] = s[1 + i - 1]
    BY <2>1, <2>a, SubSeqProperties
  <2>3. /\ SubSeq(u, 1, n) \in Seq(S) /\ Len(SubSeq(u, 1, n)) = IF 1 <= n THEN n - 1 + 1 ELSE 0
        /\ \A i \in 1..(n - 1 + 1) : SubSeq(u, 1, n)[i] = u[1 + i - 1]
    BY <2>1, <2>a, SubSeqProperties
  <2>4. Len(SubSeq(s, 1, n)) = n /\ Len(SubSeq(u, 1, n)) = n
    BY <2>1, <2>2, <2>3
  <2>5. \A i \in 1..n : SubSeq(s, 1, n)[i] = s[i] /\ SubSeq(u, 1, n)[i] = u[i]
    <3>1. \A i \in 1..n : i \in 1..(n - 1 + 1) /\ 1 + i - 1 = i
      BY <2>1
    <3> QED BY <3>1, <2>2, <2>3
  <2>6. SubSeq(s, 1, n) = SubSeq(u, 1, n)
    BY <2>1, <2>2, <2>3, <2>4, <2>5, SeqEqual
  <2> QED BY <2>6 DEF n, u
<1> QED
  BY <1>2, <1>3 DEF IsPrefix

(* The step of every action on the journal and the cursor.                 *)
LEMMA StepGrows ==
    IInv /\ Next => /\ IsPrefix(journal, journal')
                    /\ source'.offset \in {source.offset, source.offset + 1}
<1> SUFFICES ASSUME IInv, Next
             PROVE  /\ IsPrefix(journal, journal')
                    /\ source'.offset \in {source.offset, source.offset + 1}
  OBVIOUS
<1> USE DEF helperVars, wireVars, coreVars
<1>0. SourceTypeOK /\ CursorOK /\ journal \in Seq(Observations) /\ monitor.pending \in Seq(Observations)
  BY Types DEF IInv, SourceTypeOK
<1>1. IsPrefix(journal, journal)
  <2>1. IsPrefix(journal, journal \o <<>>)
    BY <1>0, EmptySeq, PrefixOfConcat
  <2> QED BY <2>1, <1>0, ConcatEmptySeq
<1>2. IsPrefix(journal, journal \o monitor.pending)
  BY <1>0, PrefixOfConcat
<1>3. CASE UNCHANGED <<source, journal>>
  BY <1>1, <1>3
<1>4. CASE CommitGroup(monitor.pending)
  <2>1. journal' = journal \o monitor.pending /\ source'.offset = source.offset
    BY <1>0, <1>4 DEF CommitGroup, SourceTypeOK
  <2> QED BY <2>1, <1>2
<1>5. CASE ReceiveProgress /\ ~UNCHANGED <<source, journal>>
  <2>1. monitor.phase = "read" /\ toCore # <<>> /\ IsProgress(Head(toCore))
    BY <1>5 DEF ReceiveProgress
  <2>2. /\ source.offset = acknowledged
        /\ Head(toCore) = IF Taken + 1 <= BatchLen[version]
                          THEN Observation(FrontRecord, Taken + 1, version)
                          ELSE Progress(FrontRecord)
    BY <2>1, NextMessage
  <2>3. Head(toCore).progress = source.offset + 1
    BY <2>1, <2>2, MessageKinds DEF FrontRecord
  <2>4. CommitComplete(monitor.pending, Head(toCore).progress)
    BY <1>5 DEF ReceiveProgress, Disconnected
  <2>5. journal' = journal \o monitor.pending /\ source'.offset = source.offset + 1
    BY <2>3, <2>4 DEF CommitComplete
  <2> QED BY <2>5, <1>2
<1>6. CASE ObserveLost
  <2>1. journal' = journal /\ source'.offset = source.offset
    BY <1>0, <1>6 DEF ObserveLost, SourceTypeOK
  <2> QED BY <2>1, <1>1
<1>7. CASE ReceiveObservation
  <2>1. UNCHANGED <<source, journal>> \/ CommitGroup(monitor.pending)
    BY <1>7 DEF ReceiveObservation
  <2> QED BY <2>1, <1>3, <1>4
<1>8. CASE Deadline
  BY <1>4, <1>8 DEF Deadline
<1>9. CASE \/ try_append \/ CraftSends \/ acknowledge \/ Acknowledge
           \/ (\E v \in Versions : Connect(v) \/ Adopt(v)) \/ Unavailable
           \/ ConnectionLost \/ JetdEnds \/ CraftDies \/ HelperDies
  <2>1. UNCHANGED <<source, journal>>
    BY <1>9 DEF try_append, CraftSends, acknowledge, Acknowledge, Connect, Adopt, Unavailable,
                reconnect_run, ConnectionLost, JetdEnds, CraftDies, HelperDies, coreVars
  <2> QED BY <2>1, <1>3
<1> QED
  BY <1>3, <1>5, <1>6, <1>7, <1>8, <1>9 DEF Next, Supervise

(* No step of any component rewrites what the journal holds, or moves the  *)
(* durable cursor back or past more than one record.                       *)
THEOREM JournalOnlyGrows == Spec => JournalGrows
<1>1. IInv /\ [Next]_vars =>
         [/\ IsPrefix(journal, journal')
          /\ source'.offset \in {source.offset, source.offset + 1}]_vars
  BY StepGrows
<1> QED
  BY <1>1, Invariance, PTL DEF Spec, JournalGrows
=============================================================================
