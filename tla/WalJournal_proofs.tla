--------------------------- MODULE WalJournal_proofs ---------------------------
(***************************************************************************)
(* What the journal promises, for any batches, directories and number of   *)
(* crashes, as long as the commit markers can be listed: a load replays    *)
(* exactly what was accepted and not settled, but for what was accepted    *)
(* under a tombstone, the queue agrees with the disk, and records sort as  *)
(* they were made.  The three need each other    *)
(* (a load that lost a record would unbalance the queue, a queue that      *)
(* missed one would not raise the sequence), and need to know how far the  *)
(* batch in hand has got (WriterOK).                                       *)
(***************************************************************************)
EXTENDS WalJournal, TLAPS, WellFoundedInduction

\* Listing the commit markers always succeeds.
Faultless == ReadOutcomes = {TRUE}

\* ReplaysExactly and QueueMatchesJournal, edit by edit.
Replays ==
  \A o \in Ops :
    Replayable(o) <=> BatchOf[o] \in accepted /\ o \notin settled /\ o \notin entombed
QueueOK ==
  up => \A o \in Ops :
          IF o \in entombed
          THEN o \in queue => rec[o] = "json" /\ o \notin settled
                               /\ ScopeOf[o] \in {Local, active}
          ELSE o \in queue <=> Replayable(o) /\ ScopeOf[o] \in {Local, active}

\* Records that are, or are about to be, replayable.
Live(o) == Replayable(o) \/ o \in staged

\* A batch is accepted by its marker alone, and only batches made so far are.
MarkersOK ==
  /\ \A b \in Batches : marker[b] = "commit" => b \in accepted
  /\ \A b \in accepted : b < next
  /\ \A o \in settled \cup entombed : BatchOf[o] \in accepted

\* Where the batch in hand has got to.
WriterOK ==
  /\ ~up => phase = "idle" /\ active = NoViewer
  /\ phase = "idle" => staged = {}
  /\ phase # "idle" => next \in Batches
  /\ \A o \in Ops : BatchOf[o] > next \/ (BatchOf[o] = next /\ phase = "idle")
                      => seq[o] = 0
  /\ \A o \in staged : BatchOf[o] = next /\ rec[o] = "json" /\ seq[o] # 0
  /\ phase = "records" => \A o \in Members(next) : seq[o] # 0 => o \in staged
  /\ phase # "idle" => \A o \in Members(next) : ScopeOf[o] \in {Local, active}
  /\ \A o, p \in Members(next) : seq[o] # 0 /\ seq[p] = 0 => o < p

\* A record still to be retired for a deleted map is suppressed already and its
\* edit settled, and a record that was never written is no file.
FilesOK ==
  /\ \A o \in cleanup : Suppressed(o) /\ o \in settled
  /\ \A o \in Ops : seq[o] = 0 => rec[o] = "none"

SequenceOK ==
  /\ \A o, p \in Ops :
       o < p /\ ScopeOf[o] = ScopeOf[p] /\ Live(o) /\ Live(p) => seq[o] < seq[p]
  /\ up => \A o \in Ops :
       Live(o) /\ ScopeOf[o] \in {Local, active} => seq[o] < nextSeq
  /\ \E n \in Nat : \A o \in Ops : seq[o] =< n

Inv ==
  TypeOK /\ Replays /\ QueueOK /\ MarkersOK /\ WriterOK /\ FilesOK /\ SequenceOK

USE DEF memoryVars, fileVars, writerVars, retireVars, historyVars, Places, MarkerPlaces

-----------------------------------------------------------------------------
\* Lemmas.

\* A bounded set of numbers has a greatest one.
LEMMA Greatest ==
  ASSUME NEW S \in SUBSET Nat, S # {}, NEW k \in Nat, \A n \in S : n =< k
  PROVE  \E n \in S : \A m \in S : m =< n
<1> DEFINE B == { n \in Nat : \A m \in S : m =< n }
<1> DEFINE R == OpToRel(<, Nat)
<1>1. IsWellFoundedOn(R, Nat)
  BY NatLessThanWellFounded
<1>2. B \subseteq Nat /\ k \in B
  OBVIOUS
<1> HIDE DEF R
<1>3. PICK n \in B : \A m \in B : ~ (<< m, n >> \in R)
  <2> HIDE DEF B
  <2> QED
    BY <1>1, <1>2, WFMin
<1>4. \A m \in B : ~ (m < n)
  BY <1>2, <1>3 DEF R, OpToRel
<1>5. n \in S
  <2>1. SUFFICES ASSUME n \notin S PROVE FALSE
    OBVIOUS
  <2>2. PICK m \in S : TRUE
    OBVIOUS
  <2>3. \A j \in S : j < n
    BY <2>1, <1>3
  <2>4. n - 1 \in B
    BY <2>2, <2>3, <1>3
  <2> QED
    BY <2>4, <1>4, <1>3
<1> QED
  BY <1>5, <1>3

\* RaisedSequence is no less than it was, and above every number that is loaded.
LEMMA RaisedAbove ==
  ASSUME TypeOK, NEW loaded \in SUBSET Ops,
         \E n \in Nat : \A o \in Ops : seq[o] =< n,
         NEW from \in Nat
  PROVE  /\ RaisedSequence(from, loaded) \in Nat
         /\ from =< RaisedSequence(from, loaded)
         /\ \A o \in loaded : seq[o] < RaisedSequence(from, loaded)
<1> DEFINE bounds == {from} \cup { seq[o] + 1 : o \in loaded }
<1>1. bounds \in SUBSET Nat /\ bounds # {}
  BY DEF TypeOK
<1>2. PICK n \in Nat : \A o \in Ops : seq[o] =< n
  OBVIOUS
<1>3. \A m \in bounds : m =< from + n + 1
  BY <1>2 DEF TypeOK
<1>4. \E m \in bounds : \A l \in bounds : l =< m
  <2> HIDE DEF bounds
  <2>1. from + n + 1 \in Nat
    OBVIOUS
  <2> QED
    BY <1>1, <1>3, <2>1, Greatest
<1>5. RaisedSequence(from, loaded) = CHOOSE m \in bounds : \A l \in bounds : l =< m
  BY Zenon DEF RaisedSequence
<1>6. /\ RaisedSequence(from, loaded) \in bounds
      /\ \A l \in bounds : l =< RaisedSequence(from, loaded)
  <2> HIDE DEF bounds
  <2> QED
    BY <1>4, <1>5
<1>7. \A o \in loaded : seq[o] + 1 \in bounds
  <2>1. SUFFICES ASSUME NEW o \in loaded PROVE seq[o] + 1 \in bounds
    OBVIOUS
  <2>2. seq[o] + 1 \in { seq[p] + 1 : p \in loaded }
    OBVIOUS
  <2> QED
    BY <2>2
<1>8. from \in bounds /\ \A o \in loaded : seq[o] \in Nat
  BY DEF TypeOK
<1> HIDE DEF bounds
<1> DEFINE raised == RaisedSequence(from, loaded)
<1>9. raised \in Nat /\ \A l \in bounds : l =< raised
  BY <1>1, <1>6
<1> HIDE DEF raised
<1>10. from =< raised /\ \A o \in loaded : seq[o] < raised
  BY <1>1, <1>7, <1>8, <1>9
<1> QED
  BY <1>9, <1>10 DEF raised

\* A load that can list the markers changes neither what is replayable nor what
\* is not a record into one.
LEMMA LoadKeeps ==
  ASSUME TypeOK, FilesOK,
         NEW s, NEW recs \in [Ops -> Places], NEW marks \in [Batches -> MarkerPlaces],
         \A o \in Ops : recs[o] = rec[o] \/ (rec[o] = "retired" /\ recs[o] = "none"),
         \A b \in Batches :
           marks[b] = marker[b] \/ (marker[b] = "retired" /\ marks[b] = "none"),
         Load(s, recs, marks, TRUE)
  PROVE  /\ rec' \in [Ops -> Places] /\ marker' \in [Batches -> MarkerPlaces]
         /\ \A o \in Ops : /\ rec'[o] = "json" => rec[o] = "json"
                           /\ seq[o] = 0 => rec'[o] = "none"
                           /\ rec[o] = "json" /\ ScopeOf[o] # s => rec'[o] = "json"
         /\ \A b \in Batches : marker'[b] = "commit" => marker[b] = "commit"
         /\ \A o \in Ops :
              Replayable(o) <=> /\ rec'[o] = "json" /\ marker'[BatchOf[o]] = "commit"
                                /\ ~Suppressed(o)
<1> DEFINE committed == Committed(TRUE)
<1>1. \A o \in Ops : BatchOf[o] \in Batches
  BY JournalAssumption
<1>2. CASE rec' = recs /\ marker' = marks
  BY <1>1, <1>2 DEF Replayable, FilesOK
<1>3. CASE ~ (rec' = recs /\ marker' = marks)
  <2>1. PICK records \in SUBSET { o \in Ops : ScopeOf[o] = s },
             markers \in SUBSET Batches :
          /\ rec' = [o \in Ops |-> IF o \in records
                                   THEN RecordAfterLoad(o, recs[o], committed)
                                   ELSE recs[o]]
          /\ marker' = [b \in Batches |-> IF b \in markers
                                          THEN MarkerAfterLoad(b, marks[b])
                                          ELSE marks[b]]
    <3> DEFINE records ==
          { o \in Ops : ScopeOf[o] = s /\ RecordAfterLoad(o, recs[o], committed) # recs[o] }
        markers ==
          { b \in Batches : TRUE /\ MarkerAfterLoad(b, marks[b]) # marks[b] }
    <3>1. /\ \E moved \in SUBSET records :
               rec' = [o \in Ops |-> IF o \in moved
                                     THEN RecordAfterLoad(o, recs[o], committed)
                                     ELSE recs[o]]
          /\ \E moved \in SUBSET markers :
               marker' = [b \in Batches |-> IF b \in moved
                                            THEN MarkerAfterLoad(b, marks[b])
                                            ELSE marks[b]]
      BY <1>3, Zenon DEF Load
    <3>2. PICK r \in SUBSET records :
            rec' = [o \in Ops |-> IF o \in r
                                  THEN RecordAfterLoad(o, recs[o], committed)
                                  ELSE recs[o]]
      BY <3>1, Zenon
    <3>3. PICK m \in SUBSET markers :
            marker' = [b \in Batches |-> IF b \in m
                                         THEN MarkerAfterLoad(b, marks[b])
                                         ELSE marks[b]]
      BY <3>1, Zenon
    <3>4. r \in SUBSET { o \in Ops : ScopeOf[o] = s } /\ m \in SUBSET Batches
      OBVIOUS
    <3> HIDE DEF committed, records, markers
    <3> QED
      BY <3>2, <3>3, <3>4, Zenon
  <2>2. \A o \in Ops : /\ \/ rec'[o] = recs[o]
                          \/ rec'[o] = RecordAfterLoad(o, recs[o], committed)
                       /\ ScopeOf[o] # s => rec'[o] = recs[o]
    <3> HIDE DEF committed
    <3> QED
      BY <2>1
  <2>3. \A b \in Batches : marker'[b] = marks[b] \/ marker'[b] = MarkerAfterLoad(b, marks[b])
    BY <2>1
  <2>4. \A o \in Ops : /\ RecordAfterLoad(o, recs[o], committed) \in Places
                       /\ RecordAfterLoad(o, recs[o], committed) = "json" => recs[o] = "json"
                       /\ recs[o] = "none" => RecordAfterLoad(o, recs[o], committed) = "none"
    BY DEF RecordAfterLoad
  <2>5. \A b \in Batches : /\ MarkerAfterLoad(b, marks[b]) \in MarkerPlaces
                           /\ MarkerAfterLoad(b, marks[b]) = "commit" => marks[b] = "commit"
    BY DEF MarkerAfterLoad
  <2>6. rec' \in [Ops -> Places] /\ marker' \in [Batches -> MarkerPlaces]
    <3> HIDE DEF committed
    <3> QED
      BY <2>1, <2>4, <2>5
  <2>7. \A o \in Ops : Replayable(o) =>
          /\ RecordAfterLoad(o, recs[o], committed) = "json"
          /\ MarkerAfterLoad(BatchOf[o], marks[BatchOf[o]]) = "commit"
    <3>1. SUFFICES ASSUME NEW o \in Ops, Replayable(o)
                   PROVE  /\ RecordAfterLoad(o, recs[o], committed) = "json"
                          /\ MarkerAfterLoad(BatchOf[o], marks[BatchOf[o]]) = "commit"
      OBVIOUS
    <3>2. recs[o] = "json" /\ marks[BatchOf[o]] = "commit" /\ ~Suppressed(o)
      BY <1>1, <3>1 DEF Replayable
    <3>3. BatchOf[o] \in committed
      BY <1>1, <3>1 DEF Replayable, Committed
    <3>4. ~ Settled(BatchOf[o])
      BY <3>1 DEF Replayable, Settled, Members
    <3> QED
      BY <3>2, <3>3, <3>4 DEF RecordAfterLoad, MarkerAfterLoad
  <2> HIDE DEF committed
  <2>8. \A o \in Ops : /\ rec'[o] = "json" => rec[o] = "json"
                       /\ seq[o] = 0 => rec'[o] = "none"
                       /\ rec[o] = "json" /\ ScopeOf[o] # s => rec'[o] = "json"
    BY <2>2, <2>4 DEF FilesOK
  <2>9. \A b \in Batches : marker'[b] = "commit" => marker[b] = "commit"
    BY <2>3, <2>5
  <2>10. \A o \in Ops :
           Replayable(o) <=> /\ rec'[o] = "json" /\ marker'[BatchOf[o]] = "commit"
                             /\ ~Suppressed(o)
    BY <1>1, <2>2, <2>3, <2>7, <2>8, <2>9 DEF Replayable
  <2> QED
    BY <2>6, <2>8, <2>9, <2>10
<1> QED
  BY <1>2, <1>3

-----------------------------------------------------------------------------
\* The invariant.

LEMMA InitInv == Init => Inv
<1> SUFFICES ASSUME Init PROVE Inv
  OBVIOUS
<1>1. \A o \in Ops : ~ Replayable(o) /\ BatchOf[o] \in Batches
  BY JournalAssumption DEF Init, Replayable
<1>2. TypeOK
  BY DEF Init, TypeOK
<1>3. Replays /\ QueueOK
  BY <1>1 DEF Init, Replays, QueueOK
<1>4. MarkersOK /\ FilesOK
  BY DEF Init, MarkersOK, FilesOK
<1>6. WriterOK
  BY DEF Init, WriterOK, Members
<1>5. SequenceOK
  <2>1. \E n \in Nat : \A o \in Ops : seq[o] =< n
    <3>1. 0 \in Nat /\ \A o \in Ops : seq[o] =< 0
      BY DEF Init
    <3> QED
      BY <3>1
  <2>2. \A o \in Ops : ~ Live(o)
    BY <1>1 DEF Init, Live
  <2> QED
    BY <2>1, <2>2, Zenon DEF SequenceOK
<1> QED
  BY <1>2, <1>3, <1>4, <1>5, <1>6 DEF Inv

LEMMA StageBatchInv ==
  ASSUME Inv, StageBatch PROVE Inv'
<1> USE DEF StageBatch, Inv
<1>1. TypeOK' /\ MarkersOK'
  BY DEF TypeOK, MarkersOK
<1>2. Replays' /\ QueueOK' /\ FilesOK'
  BY DEF Replays, QueueOK, FilesOK, Replayable, Suppressed
<1>3. WriterOK'
  <2>1. staged = {} /\ \A o \in Members(next) : seq[o] = 0
    BY DEF WriterOK, Members
  <2> QED
    BY <2>1 DEF WriterOK, Suppressed, Members, TypeOK
<1>4. SequenceOK'
  BY DEF SequenceOK, Live, Replayable, Suppressed
<1> QED
  BY <1>1, <1>2, <1>3, <1>4

LEMMA WriteRecordInv ==
  ASSUME Inv, WriteRecord PROVE Inv'
<1> USE DEF Inv
<1>1. PICK o \in Unwritten :
        /\ \A p \in Unwritten : o =< p
        /\ seq' = [seq EXCEPT ![o] = nextSeq]
        /\ \/ /\ rec' = [rec EXCEPT ![o] = "json"]
              /\ staged' = staged \cup {o} /\ phase' = phase
           \/ /\ \E left \in {"none", "tmp"} : rec' = [rec EXCEPT ![o] = left]
              /\ staged' = staged /\ phase' = "rollback"
  BY DEF WriteRecord
<1>2. /\ up /\ phase = "records" /\ nextSeq' = nextSeq + 1
      /\ UNCHANGED << up, active, queue, marker, tombs, next, retireVars, crashes,
                      historyVars >>
  BY DEF WriteRecord
<1>3. /\ o \in Ops /\ BatchOf[o] = next /\ seq[o] = 0 /\ o \notin staged
      /\ next \in Batches /\ next \notin accepted /\ marker[next] # "commit"
  <2>1. o \in Ops /\ BatchOf[o] = next /\ seq[o] = 0
    BY DEF Unwritten, Members
  <2>2. next \in Batches /\ o \notin staged
    BY <1>2, <2>1 DEF WriterOK
  <2>3. next \notin accepted
    BY <2>2 DEF MarkersOK, Batches
  <2> QED
    BY <2>1, <2>2, <2>3 DEF MarkersOK
<1>4. \A p, q \in Ops :
         BatchOf[p] = next /\ BatchOf[q] = next /\ seq[p] # 0 /\ seq[q] = 0 => p < q
  BY DEF WriterOK, Members
<1>5. /\ rec' \in [Ops -> Places] /\ seq' \in [Ops -> Nat]
      /\ seq'[o] = nextSeq /\ nextSeq # 0 /\ nextSeq \in Nat
      /\ \A p \in Ops : p # o => rec'[p] = rec[p] /\ seq'[p] = seq[p]
  BY <1>1, <1>3 DEF TypeOK
<1>6. TypeOK'
  BY <1>1, <1>2, <1>3, <1>5 DEF TypeOK
<1>7. \A p \in Ops : Replayable(p)' <=> Replayable(p)
  BY <1>2, <1>3, <1>5 DEF Replayable, Suppressed
<1>8. Replays' /\ QueueOK' /\ MarkersOK'
  <2>1. o \notin entombed
    BY <1>3 DEF MarkersOK
  <2> QED
    BY <1>2, <1>5, <1>7, <2>1 DEF Replays, QueueOK, MarkersOK
<1>9. FilesOK'
  BY <1>2, <1>3, <1>5 DEF FilesOK, Suppressed
<1>10. WriterOK'
  <2>1. \A p \in Members(next) : seq[p] = 0 => o =< p
    BY <1>1 DEF Unwritten
  <2>2. /\ up'
        /\ phase' = "idle" => staged' = {}
        /\ phase' # "idle" => next' \in Batches
        /\ \A p \in Ops : BatchOf[p] > next' \/ (BatchOf[p] = next' /\ phase' = "idle")
                            => seq'[p] = 0
    <3>1. phase' # "idle"
      BY <1>1, <1>2
    <3>2. \A p \in Ops : BatchOf[p] > next => p # o
      BY <1>3 DEF Batches
    <3> QED
      BY <1>2, <1>3, <1>5, <3>1, <3>2 DEF WriterOK
  <2>3. \A p \in staged' : BatchOf[p] = next' /\ rec'[p] = "json" /\ seq'[p] # 0
    BY <1>1, <1>2, <1>3, <1>5 DEF WriterOK, TypeOK
  <2>4. phase' = "records" => \A p \in Members(next') : seq'[p] # 0 => p \in staged'
    BY <1>1, <1>2, <1>3, <1>5 DEF WriterOK, Members
  <2>5. phase' # "idle" =>
          \A p \in Members(next') : ScopeOf[p] \in {Local, active'}
    BY <1>2 DEF WriterOK, Members
  <2>6. \A p, q \in Members(next') : seq'[p] # 0 /\ seq'[q] = 0 => p < q
    <3>1. SUFFICES ASSUME NEW p \in Ops, NEW q \in Ops, BatchOf[p] = next,
                          BatchOf[q] = next, seq'[p] # 0, seq'[q] = 0
                   PROVE  p < q
      BY <1>2 DEF Members
    <3>2. q # o /\ seq[q] = 0
      BY <3>1, <1>5
    <3>3. CASE p = o
      BY <2>1, <3>1, <3>2, <3>3 DEF Members, Ops
    <3>4. CASE p # o
      BY <3>1, <3>2, <3>4, <1>5, <1>4
    <3> QED
      BY <3>3, <3>4
  <2> QED
    BY <2>2, <2>3, <2>4, <2>5, <2>6, <1>2 DEF WriterOK, Members
<1>11. SequenceOK'
  <2>1. \A p \in Ops : Live(p)' => p = o \/ Live(p)
    BY <1>1, <1>7 DEF Live
  <2>2. ~ Live(o)
    BY <1>3 DEF Live, Replayable
  <2>3. \A p \in Ops : Live(p) /\ ScopeOf[p] = ScopeOf[o] => p < o /\ seq[p] < nextSeq
    <3>1. SUFFICES ASSUME NEW p \in Ops, Live(p), ScopeOf[p] = ScopeOf[o]
                   PROVE  p < o /\ seq[p] < nextSeq
      OBVIOUS
    <3>2. ScopeOf[o] \in {Local, active}
      BY <1>2, <1>3 DEF WriterOK, Members
    <3>3. seq[p] < nextSeq
      BY <1>2, <3>1, <3>2 DEF SequenceOK
    <3>4. CASE p \in staged
      <4>1. BatchOf[p] = next /\ seq[p] # 0
        BY <3>4 DEF WriterOK
      <4> QED
        BY <4>1, <3>3, <1>3, <1>4
    <3>5. CASE Replayable(p)
      <4>1. BatchOf[p] < BatchOf[o]
        BY <1>3, <3>5, JournalAssumption DEF Replays, MarkersOK
      <4> QED
        BY <4>1, <3>3, <1>3, JournalAssumption DEF Ops, Batches
    <3> QED
      BY <3>1, <3>3, <3>4, <3>5 DEF Live
  <2>4. \A p, q \in Ops :
          p < q /\ ScopeOf[p] = ScopeOf[q] /\ Live(p)' /\ Live(q)' => seq'[p] < seq'[q]
    <3>1. SUFFICES ASSUME NEW p \in Ops, NEW q \in Ops, p < q,
                          ScopeOf[p] = ScopeOf[q], Live(p)', Live(q)'
                   PROVE  seq'[p] < seq'[q]
      OBVIOUS
    <3>2. CASE p = o
      BY <2>1, <2>3, <3>1, <3>2 DEF Ops
    <3>3. CASE q = o
      BY <2>1, <2>3, <3>1, <3>3, <1>5 DEF Ops
    <3>4. CASE p # o /\ q # o
      BY <2>1, <3>1, <3>4, <1>5 DEF SequenceOK
    <3> QED
      BY <3>2, <3>3, <3>4
  <2>5. up' => \A p \in Ops :
          Live(p)' /\ ScopeOf[p] \in {Local, active'} => seq'[p] < nextSeq'
    BY <2>1, <1>2, <1>5 DEF SequenceOK, TypeOK
  <2>6. \E n \in Nat : \A p \in Ops : seq'[p] =< n
    <3>1. PICK n \in Nat : \A p \in Ops : seq[p] =< n
      BY DEF SequenceOK
    <3>2. \A p \in Ops : seq'[p] =< n + nextSeq
      BY <3>1, <1>5 DEF TypeOK
    <3>3. n + nextSeq \in Nat
      BY <1>5
    <3> QED
      BY <3>2, <3>3
  <2> QED
    BY <2>4, <2>5, <2>6 DEF SequenceOK
<1> QED
  BY <1>6, <1>8, <1>9, <1>10, <1>11

LEMMA CommitBatchInv ==
  ASSUME Inv, CommitBatch PROVE Inv'
<1> USE DEF Inv
<1>1. /\ up /\ phase = "records" /\ Unwritten = {}
      /\ UNCHANGED << up, active, nextSeq, rec, seq, tombs, retireVars, crashes, settled >>
  BY DEF CommitBatch
<1>2. next \in Batches /\ next \notin accepted /\ marker[next] # "commit"
  BY <1>1 DEF WriterOK, MarkersOK, Batches
<1>3. \A o \in Ops : o \in staged <=> BatchOf[o] = next
  BY <1>1 DEF WriterOK, Members, Unwritten, TypeOK
<1>4. \A o \in Ops : BatchOf[o] = next =>
        /\ rec[o] = "json" /\ ScopeOf[o] \in {Local, active} /\ seq[o] # 0
        /\ o \notin settled /\ o \notin entombed /\ ~ Replayable(o)
  BY <1>1, <1>2, <1>3 DEF WriterOK, Members, MarkersOK, Replayable
<1>5. FilesOK'
  BY <1>1 DEF FilesOK, Suppressed
<1>6. CASE /\ marker' = [marker EXCEPT ![next] = "commit"]
           /\ queue' = queue \cup staged /\ accepted' = accepted \cup {next}
           /\ entombed' = entombed \cup { o \in staged : Suppressed(o) }
           /\ phase' = "idle" /\ next' = next + 1 /\ staged' = {}
  <2>1. \A b \in Batches : marker'[b] = IF b = next THEN "commit" ELSE marker[b]
    BY <1>6 DEF TypeOK
  <2>2. \A o \in Ops :
          Replayable(o)' <=> Replayable(o) \/ (BatchOf[o] = next /\ ~ Suppressed(o))
    BY <1>1, <1>4, <2>1, JournalAssumption DEF Replayable, Suppressed
  <2>3. TypeOK'
    BY <1>1, <1>2, <1>6 DEF TypeOK, Batches
  <2>9. \A o \in Ops :
          o \in entombed' <=> o \in entombed \/ (BatchOf[o] = next /\ Suppressed(o))
    BY <1>3, <1>6
  <2>4. Replays'
    BY <1>1, <1>4, <1>6, <2>2, <2>9 DEF Replays
  <2>5. QueueOK'
    BY <1>1, <1>3, <1>4, <1>6, <2>2, <2>9 DEF QueueOK
  <2>6. MarkersOK'
    BY <1>1, <1>2, <1>3, <1>6, <2>1 DEF MarkersOK, Batches, TypeOK
  <2>7. WriterOK'
    <3>1. \A o \in Ops : BatchOf[o] > next + 1 \/ BatchOf[o] = next + 1 => seq[o] = 0
      BY <1>2, JournalAssumption DEF WriterOK, Batches
    <3> QED
      BY <1>1, <1>6, <3>1 DEF WriterOK, Members
  <2>8. SequenceOK'
    <3>1. \A o \in Ops : Live(o)' => Live(o)
      BY <1>3, <1>6, <2>2 DEF Live
    <3> QED
      BY <1>1, <3>1 DEF SequenceOK
  <2> QED
    BY <1>5, <2>3, <2>4, <2>5, <2>6, <2>7, <2>8
<1>7. CASE /\ \E left \in {"none", "tmp"} : marker' = [marker EXCEPT ![next] = left]
           /\ phase' = "rollback"
           /\ UNCHANGED << queue, accepted, entombed, next, staged >>
  <2>1. /\ marker' \in [Batches -> MarkerPlaces]
        /\ \A b \in Batches : marker'[b] = "commit" <=> marker[b] = "commit"
    BY <1>2, <1>7 DEF TypeOK
  <2>2. \A o \in Ops : Replayable(o)' <=> Replayable(o)
    BY <1>1, <2>1, JournalAssumption DEF Replayable, Suppressed
  <2>3. TypeOK'
    BY <1>1, <1>7, <2>1 DEF TypeOK
  <2>4. Replays' /\ QueueOK' /\ MarkersOK'
    BY <1>1, <1>7, <2>1, <2>2 DEF Replays, QueueOK, MarkersOK
  <2>5. WriterOK'
    BY <1>1, <1>7 DEF WriterOK, Members, Suppressed
  <2>6. SequenceOK'
    BY <1>1, <1>7, <2>2 DEF SequenceOK, Live
  <2> QED
    BY <1>5, <2>3, <2>4, <2>5, <2>6
<1> QED
  BY <1>6, <1>7 DEF CommitBatch

LEMMA RollBackInv ==
  ASSUME Inv, RollBack PROVE Inv'
<1> USE DEF Inv
<1>1. PICK o \in staged, left \in {"none", "json"} :
        rec' = [rec EXCEPT ![o] = left] /\ staged' = staged \ {o}
  BY DEF RollBack
<1>2. /\ up /\ phase = "rollback"
      /\ UNCHANGED << memoryVars, marker, seq, tombs, phase, next, retireVars, crashes,
                      historyVars >>
  BY DEF RollBack
<1>3. /\ o \in Ops /\ BatchOf[o] = next /\ seq[o] # 0
      /\ next \in Batches /\ next \notin accepted /\ marker[next] # "commit"
  BY <1>2 DEF WriterOK, MarkersOK, TypeOK, Batches
<1>4. /\ rec' \in [Ops -> Places]
      /\ \A p \in Ops : p # o => rec'[p] = rec[p]
  BY <1>1, <1>3 DEF TypeOK
<1>5. \A p \in Ops : Replayable(p)' <=> Replayable(p)
  BY <1>2, <1>3, <1>4 DEF Replayable, Suppressed
<1>6. TypeOK'
  BY <1>1, <1>2, <1>4 DEF TypeOK
<1>7. Replays' /\ QueueOK' /\ MarkersOK'
  <2>1. o \notin entombed
    BY <1>3 DEF MarkersOK
  <2> QED
    BY <1>2, <1>4, <1>5, <2>1 DEF Replays, QueueOK, MarkersOK
<1>8. FilesOK'
  BY <1>2, <1>3, <1>4 DEF FilesOK, Suppressed
<1>9. WriterOK'
  <2>1. \A p \in staged' : BatchOf[p] = next /\ rec'[p] = "json" /\ seq[p] # 0
    BY <1>1, <1>4 DEF WriterOK, TypeOK
  <2> QED
    BY <1>2, <2>1 DEF WriterOK, Members, Suppressed
<1>10. SequenceOK'
  <2>1. \A p \in Ops : Live(p)' => Live(p)
    BY <1>1, <1>5 DEF Live
  <2> QED
    BY <1>2, <2>1 DEF SequenceOK
<1> QED
  BY <1>6, <1>7, <1>8, <1>9, <1>10

LEMMA RejectBatchInv ==
  ASSUME Inv, RejectBatch PROVE Inv'
<1> USE DEF Inv, RejectBatch
<1>1. \A o \in Ops : Replayable(o)' <=> Replayable(o)
  BY DEF Replayable, Suppressed
<1>2. next \in Batches
  BY DEF WriterOK
<1>3. TypeOK'
  BY <1>2 DEF TypeOK, Batches
<1>4. Replays' /\ QueueOK' /\ FilesOK'
  BY <1>1 DEF Replays, QueueOK, FilesOK, Suppressed
<1>5. MarkersOK'
  BY <1>2 DEF MarkersOK, TypeOK, Batches
<1>6. WriterOK'
  <2>1. \A o \in Ops : BatchOf[o] > next + 1 \/ BatchOf[o] = next + 1 => seq[o] = 0
    BY <1>2, JournalAssumption DEF WriterOK, Batches
  <2> QED
    BY <2>1 DEF WriterOK, Members
<1>7. SequenceOK'
  BY <1>1 DEF SequenceOK, Live
<1> QED
  BY <1>3, <1>4, <1>5, <1>6, <1>7

LEMMA RetireInv ==
  ASSUME Inv, NEW o \in Ops, NEW place \in {"ack", "retired"}, Retire(o, place)
  PROVE  Inv'
<1> USE DEF Inv
<1>1. PICK left \in {place, "none"} : rec' = [rec EXCEPT ![o] = left]
  BY DEF Retire
<1>2. /\ up /\ o \in queue /\ queue' = queue \ {o} /\ settled' = settled \cup {o}
      /\ leaving' = leaving \cup {o}
      /\ UNCHANGED << up, active, nextSeq, marker, seq, tombs, writerVars, cleanup, crashes,
                      accepted, entombed >>
  BY DEF Retire
<1>3. rec[o] = "json" /\ o \notin settled /\ BatchOf[o] \in accepted
  BY <1>2 DEF QueueOK, Replays, MarkersOK, Replayable
<1>4. /\ rec' \in [Ops -> Places] /\ rec'[o] # "json"
      /\ \A p \in Ops : p # o => rec'[p] = rec[p]
  BY <1>1 DEF TypeOK
<1>5. \A p \in Ops : Replayable(p)' <=> Replayable(p) /\ p # o
  BY <1>2, <1>4 DEF Replayable, Suppressed
<1>6. TypeOK'
  BY <1>2, <1>4 DEF TypeOK
<1>7. Replays' /\ QueueOK'
  BY <1>2, <1>3, <1>4, <1>5 DEF Replays, QueueOK
<1>8. MarkersOK'
  BY <1>2, <1>3 DEF MarkersOK
<1>9. FilesOK'
  <2>1. seq[o] # 0
    BY <1>3 DEF FilesOK
  <2> QED
    BY <1>2, <1>4, <2>1 DEF FilesOK, Suppressed
<1>10. o \notin staged
  BY <1>3 DEF WriterOK, MarkersOK, TypeOK
<1>11. WriterOK'
  <2>1. \A p \in staged : BatchOf[p] = next /\ rec'[p] = "json" /\ seq[p] # 0
    BY <1>4, <1>10 DEF WriterOK, TypeOK
  <2> QED
    BY <1>2, <2>1 DEF WriterOK, Members, Suppressed
<1>12. SequenceOK'
  <2>1. \A p \in Ops : Live(p)' => Live(p)
    BY <1>2, <1>5 DEF Live
  <2> QED
    BY <1>2, <2>1 DEF SequenceOK
<1> QED
  BY <1>6, <1>7, <1>8, <1>9, <1>11, <1>12

LEMMA RetireMarkerInv ==
  ASSUME Inv, NEW o \in Ops, RetireMarker(o) PROVE Inv'
<1> USE DEF Inv
<1>1. /\ leaving' = leaving \ {o}
      /\ UNCHANGED << memoryVars, rec, seq, tombs, writerVars, cleanup, crashes, historyVars >>
  BY DEF RetireMarker
<1>2. /\ marker' \in [Batches -> MarkerPlaces]
      /\ \A b \in Batches : marker'[b] = marker[b] \/ (Settled(b) /\ marker'[b] # "commit")
  BY JournalAssumption DEF RetireMarker, TypeOK
<1>3. \A p \in Ops : Replayable(p) => ~ Settled(BatchOf[p])
  BY DEF Replayable, Settled, Members
<1>4. \A p \in Ops : Replayable(p)' <=> Replayable(p)
  BY <1>1, <1>2, <1>3, JournalAssumption DEF Replayable, Suppressed
<1>5. TypeOK'
  BY <1>1, <1>2 DEF TypeOK
<1>6. Replays' /\ QueueOK' /\ MarkersOK' /\ FilesOK'
  BY <1>1, <1>2, <1>4 DEF Replays, QueueOK, MarkersOK, FilesOK, Suppressed
<1>7. WriterOK'
  BY <1>1 DEF WriterOK, Members, Suppressed
<1>8. SequenceOK'
  BY <1>1, <1>4 DEF SequenceOK, Live
<1> QED
  BY <1>5, <1>6, <1>7, <1>8

LEMMA RetireDeletedInv ==
  ASSUME Inv, NEW o \in Ops, RetireDeleted(o) PROVE Inv'
<1> USE DEF Inv
<1>1. /\ o \in cleanup /\ cleanup' = cleanup \ {o} /\ leaving' \in {leaving, leaving \cup {o}}
      /\ UNCHANGED << memoryVars, marker, seq, tombs, writerVars, crashes, historyVars >>
  BY DEF RetireDeleted
<1>2. /\ rec' \in [Ops -> Places]
      /\ \A p \in Ops : rec'[p] = rec[p] \/ (p = o /\ rec[p] = "json" /\ rec'[p] # "json")
  BY DEF RetireDeleted, TypeOK
<1>3. Suppressed(o) /\ o \in settled /\ BatchOf[o] \in accepted
  BY <1>1 DEF FilesOK, MarkersOK
<1>4. \A p \in Ops : Replayable(p)' <=> Replayable(p)
  BY <1>1, <1>2, <1>3 DEF Replayable, Suppressed
<1>5. TypeOK'
  BY <1>1, <1>2 DEF TypeOK
<1>6. Replays' /\ QueueOK' /\ MarkersOK'
  BY <1>1, <1>2, <1>3, <1>4 DEF Replays, QueueOK, MarkersOK
<1>7. FilesOK'
  BY <1>1, <1>2 DEF FilesOK, Suppressed
<1>8. WriterOK'
  <2>1. o \notin staged
    BY <1>3 DEF WriterOK, MarkersOK, TypeOK
  <2>2. \A p \in staged : BatchOf[p] = next /\ rec'[p] = "json" /\ seq[p] # 0
    BY <1>2, <1>3, <2>1 DEF WriterOK, TypeOK
  <2> QED
    BY <1>1, <2>2 DEF WriterOK, Members, Suppressed
<1>9. SequenceOK'
  BY <1>1, <1>4 DEF SequenceOK, Live
<1> QED
  BY <1>5, <1>6, <1>7, <1>8, <1>9

LEMMA DeleteAreaInv ==
  ASSUME Inv, NEW p \in Ops, DeleteArea(AreaOf[p]) PROVE Inv'
<1> USE DEF Inv
<1> DEFINE a == AreaOf[p]
           gone == { o \in queue : AreaOf[o] = a }
<1>1. /\ up /\ (phase = "idle" \/ \A o \in Members(next) : AreaOf[o] # a)
      /\ tombs' = tombs \cup { << ScopeOf[o], a >> : o \in gone }
      /\ queue' = queue \ gone /\ settled' = settled \cup gone
      /\ cleanup' = cleanup \cup gone
      /\ UNCHANGED << up, active, nextSeq, rec, marker, seq, writerVars, leaving, crashes,
                      accepted, entombed >>
  BY Zenon DEF DeleteArea
<1>2. \A o \in Ops : Suppressed(o)' <=>
        Suppressed(o) \/ (AreaOf[o] = a /\ \E q \in gone : ScopeOf[q] = ScopeOf[o])
  BY <1>1 DEF Suppressed
<1>3. gone \subseteq queue /\ gone \subseteq Ops /\ \A o \in Ops : o \in gone <=> o \in queue /\ AreaOf[o] = a
  BY DEF TypeOK
<1>4. \A o \in gone : ScopeOf[o] \in {Local, active} /\ BatchOf[o] \in accepted
  BY <1>1, <1>3 DEF QueueOK, Replays, MarkersOK
<1>5. \A o \in Ops : Replayable(o) /\ AreaOf[o] = a /\ (\E q \in gone : ScopeOf[q] = ScopeOf[o])
        => o \in gone
  BY <1>1, <1>3, <1>4 DEF QueueOK, Replays
<1>6. \A o \in Ops : Replayable(o)' <=> Replayable(o) /\ o \notin gone
  <2>1. \A o \in gone : AreaOf[o] = a
    OBVIOUS
  <2> HIDE DEF gone
  <2> QED
    BY <1>1, <1>2, <1>3, <1>5, <2>1 DEF Replayable
<1>7. TypeOK'
  <2>1. { << ScopeOf[o], a >> : o \in gone } \subseteq Scopes \X { AreaOf[o] : o \in Ops }
    BY <1>3, JournalAssumption
  <2> HIDE DEF gone
  <2> QED
    BY <1>1, <1>3, <2>1 DEF TypeOK
<1> HIDE DEF gone, a
<1>8. Replays' /\ QueueOK'
  BY <1>1, <1>3, <1>4, <1>6 DEF Replays, QueueOK
<1>9. MarkersOK'
  BY <1>1, <1>4 DEF MarkersOK
<1>10. FilesOK'
  <2>1. \A o \in gone : Suppressed(o)'
    BY <1>2, <1>3
  <2> QED
    BY <1>1, <1>2, <2>1 DEF FilesOK, TypeOK
<1>11. WriterOK'
  BY <1>1 DEF WriterOK, Members
<1>12. SequenceOK'
  <2>1. \A o \in Ops : Live(o)' => Live(o)
    BY <1>1, <1>6 DEF Live
  <2> QED
    BY <1>1, <2>1 DEF SequenceOK
<1> QED
  BY <1>7, <1>8, <1>9, <1>10, <1>11, <1>12

\* What a scope's load puts into the queue is what is replayable of it.
LEMMA LoadedReplays ==
  ASSUME NEW s
  PROVE  Loaded(s, Committed(TRUE)) = { o \in Ops : ScopeOf[o] = s /\ Replayable(o) }
  BY JournalAssumption DEF Loaded, Committed, Replayable

LEMMA ActivateViewerInv ==
  ASSUME Faultless, Inv, NEW v \in Viewers \cup {NoViewer}, ActivateViewer(v)
  PROVE  Inv'
<1> USE DEF Inv
<1> DEFINE loaded == { o \in Ops : ScopeOf[o] = v /\ Replayable(o) }
<1>1. /\ up /\ phase = "idle" /\ active' = v
      /\ UNCHANGED << up, seq, tombs, writerVars, retireVars, crashes, historyVars >>
  BY DEF ActivateViewer
<1>2. /\ \/ rec' = rec /\ marker' = marker
         \/ Load(v, rec, marker, TRUE)
      /\ queue' = { o \in queue : ScopeOf[o] = Local } \cup loaded
      /\ nextSeq' = RaisedSequence(nextSeq, loaded)
  <2>1. PICK readable \in ReadOutcomes :
          LET l == Loaded(v, Committed(readable)) IN
          /\ IF v = NoViewer THEN rec' = rec /\ marker' = marker
             ELSE Load(v, rec, marker, readable)
          /\ queue' = { o \in queue : ScopeOf[o] = Local } \cup l
          /\ nextSeq' = RaisedSequence(nextSeq, l)
    BY Zenon DEF ActivateViewer
  <2>2. readable = TRUE
    BY DEF Faultless
  <2> HIDE DEF loaded
  <2>3. Loaded(v, Committed(readable)) = loaded
    BY <2>2, LoadedReplays DEF loaded
  <2> QED
    BY <2>1, <2>2, <2>3, Zenon
<1>3. /\ rec' \in [Ops -> Places] /\ marker' \in [Batches -> MarkerPlaces]
      /\ \A o \in Ops : /\ rec'[o] = "json" => rec[o] = "json"
                        /\ seq[o] = 0 => rec'[o] = "none"
                        /\ rec[o] = "json" /\ ScopeOf[o] # v => rec'[o] = "json"
      /\ \A b \in Batches : marker'[b] = "commit" => marker[b] = "commit"
      /\ \A o \in Ops :
           Replayable(o) <=> /\ rec'[o] = "json" /\ marker'[BatchOf[o]] = "commit"
                             /\ ~Suppressed(o)
  <2>1. CASE rec' = rec /\ marker' = marker
    BY <2>1 DEF TypeOK, FilesOK, Replayable
  <2>2. CASE Load(v, rec, marker, TRUE)
    <3>1. rec \in [Ops -> Places] /\ marker \in [Batches -> MarkerPlaces]
      BY DEF TypeOK
    <3> QED
      BY <2>2, <3>1, LoadKeeps
  <2> QED
    BY <1>2, <2>1, <2>2
<1>4. \A o \in Ops : Replayable(o)' <=> Replayable(o)
  BY <1>1, <1>3 DEF Replayable, Suppressed
<1>5. /\ nextSeq' \in Nat /\ nextSeq =< nextSeq' /\ nextSeq' # 0
      /\ \A o \in loaded : seq[o] < nextSeq'
  <2>1. nextSeq \in Nat \ {0} /\ loaded \in SUBSET Ops
    BY DEF TypeOK
  <2>2. \E n \in Nat : \A o \in Ops : seq[o] =< n
    BY DEF SequenceOK
  <2> HIDE DEF loaded
  <2>3. /\ nextSeq' \in Nat /\ nextSeq =< nextSeq'
        /\ \A o \in loaded : seq[o] < nextSeq'
    BY <1>2, <2>1, <2>2, RaisedAbove
  <2> QED
    BY <2>1, <2>3
<1>6. TypeOK'
  BY <1>1, <1>2, <1>3, <1>5 DEF TypeOK
<1>7. Replays' /\ MarkersOK' /\ FilesOK'
  BY <1>1, <1>3, <1>4 DEF Replays, MarkersOK, FilesOK, Suppressed
<1>8. QueueOK'
  <2>1. \A o \in Ops : o \notin entombed =>
          (o \in queue' <=> Replayable(o) /\ ScopeOf[o] \in {Local, v})
    BY <1>1, <1>2 DEF QueueOK
  <2>2. \A o \in Ops : o \in entombed /\ o \in queue' => o \in queue /\ ScopeOf[o] = Local
    BY <1>2 DEF Replays
  <2>3. Local # v
    BY JournalAssumption DEF Scopes
  <2> QED
    BY <1>1, <1>3, <1>4, <2>1, <2>2, <2>3 DEF QueueOK
<1>9. WriterOK'
  BY <1>1 DEF WriterOK, Members
<1>10. SequenceOK'
  <2>1. \A o \in Ops : Live(o)' <=> Replayable(o)
    BY <1>1, <1>4 DEF Live, WriterOK
  <2>2. \A o \in Ops : Live(o)' /\ ScopeOf[o] \in {Local, v} => seq[o] < nextSeq'
    <3>1. SUFFICES ASSUME NEW o \in Ops, Replayable(o), ScopeOf[o] \in {Local, v}
                   PROVE  seq[o] < nextSeq'
      BY <2>1
    <3>2. CASE ScopeOf[o] = Local
      <4>1. seq[o] < nextSeq /\ seq[o] \in Nat /\ nextSeq \in Nat
        BY <1>1, <3>1, <3>2 DEF SequenceOK, Live, TypeOK
      <4> QED
        BY <4>1, <1>5
    <3>3. CASE ScopeOf[o] = v
      BY <3>1, <3>3, <1>5
    <3> QED
      BY <3>1, <3>2, <3>3
  <2>3. \A o \in Ops : Live(o)' => Live(o)
    BY <2>1 DEF Live
  <2>4. \E n \in Nat : \A o \in Ops : seq'[o] =< n
    BY <1>1 DEF SequenceOK
  <2>5. \A o, p \in Ops :
          o < p /\ ScopeOf[o] = ScopeOf[p] /\ Live(o)' /\ Live(p)' => seq'[o] < seq'[p]
    BY <1>1, <2>3 DEF SequenceOK
  <2> QED
    BY <1>1, <2>2, <2>4, <2>5 DEF SequenceOK
<1> QED
  BY <1>6, <1>7, <1>8, <1>9, <1>10

LEMMA RestartInv ==
  ASSUME Faultless, Inv, Restart PROVE Inv'
<1> USE DEF Inv
<1> DEFINE loaded == { o \in Ops : ScopeOf[o] = Local /\ Replayable(o) }
<1>1. /\ ~up /\ up' = TRUE
      /\ UNCHANGED << active, seq, tombs, writerVars, retireVars, crashes, historyVars >>
  BY DEF Restart
<1>2. PICK readable \in ReadOutcomes, swept \in {{}, {"retired"}} :
        LET l == Loaded(Local, Committed(readable)) IN
        /\ Load(Local,
                [o \in Ops |-> IF rec[o] \in swept THEN "none" ELSE rec[o]],
                [b \in Batches |-> IF marker[b] \in swept THEN "none" ELSE marker[b]],
                readable)
        /\ queue' = l
        /\ nextSeq' = RaisedSequence(nextSeq, l)
  BY Zenon DEF Restart
<1> DEFINE recs == [o \in Ops |-> IF rec[o] \in swept THEN "none" ELSE rec[o]]
           marks == [b \in Batches |-> IF marker[b] \in swept THEN "none" ELSE marker[b]]
<1>3. Load(Local, recs, marks, TRUE) /\ queue' = loaded
      /\ nextSeq' = RaisedSequence(nextSeq, loaded)
  <2>1. readable = TRUE
    BY DEF Faultless
  <2> HIDE DEF loaded
  <2>2. Loaded(Local, Committed(readable)) = loaded
    BY <2>1, LoadedReplays DEF loaded
  <2> QED
    BY <1>2, <2>1, <2>2, Zenon
<1>4. /\ rec' \in [Ops -> Places] /\ marker' \in [Batches -> MarkerPlaces]
      /\ \A o \in Ops : /\ rec'[o] = "json" => rec[o] = "json"
                        /\ seq[o] = 0 => rec'[o] = "none"
      /\ \A b \in Batches : marker'[b] = "commit" => marker[b] = "commit"
      /\ \A o \in Ops :
           Replayable(o) <=> /\ rec'[o] = "json" /\ marker'[BatchOf[o]] = "commit"
                             /\ ~Suppressed(o)
  <2>1. /\ recs \in [Ops -> Places] /\ marks \in [Batches -> MarkerPlaces]
        /\ \A o \in Ops : recs[o] = rec[o] \/ (rec[o] = "retired" /\ recs[o] = "none")
        /\ \A b \in Batches :
             marks[b] = marker[b] \/ (marker[b] = "retired" /\ marks[b] = "none")
    BY DEF TypeOK
  <2> HIDE DEF recs, marks
  <2> QED
    BY <1>3, <2>1, LoadKeeps
<1> HIDE DEF recs, marks
<1>5. \A o \in Ops : Replayable(o)' <=> Replayable(o)
  BY <1>1, <1>4 DEF Replayable, Suppressed
<1>6. nextSeq' \in Nat \ {0} /\ \A o \in loaded : seq[o] < nextSeq'
  <2>1. nextSeq \in Nat \ {0} /\ loaded \in SUBSET Ops
    BY DEF TypeOK
  <2>2. \E n \in Nat : \A o \in Ops : seq[o] =< n
    BY DEF SequenceOK
  <2> HIDE DEF loaded
  <2>3. /\ nextSeq' \in Nat /\ nextSeq =< nextSeq'
        /\ \A o \in loaded : seq[o] < nextSeq'
    BY <1>3, <2>1, <2>2, RaisedAbove
  <2> QED
    BY <2>1, <2>3
<1>7. TypeOK'
  BY <1>1, <1>3, <1>4, <1>6 DEF TypeOK
<1>8. Replays' /\ MarkersOK' /\ FilesOK'
  BY <1>1, <1>4, <1>5 DEF Replays, MarkersOK, FilesOK, Suppressed
<1>9. active = NoViewer /\ \A o \in Ops : ScopeOf[o] # NoViewer
  BY <1>1, JournalAssumption DEF WriterOK
<1>10. QueueOK'
  BY <1>1, <1>3, <1>5, <1>9 DEF QueueOK, Replays
<1>11. WriterOK'
  BY <1>1 DEF WriterOK, Members
<1>12. SequenceOK'
  <2>1. \A o \in Ops : Live(o)' <=> Replayable(o)
    BY <1>1, <1>5 DEF Live, WriterOK
  <2>2. \A o \in Ops : Live(o)' /\ ScopeOf[o] \in {Local, active} => seq[o] < nextSeq'
    BY <1>6, <1>9, <2>1
  <2>3. \A o, p \in Ops :
          o < p /\ ScopeOf[o] = ScopeOf[p] /\ Live(o)' /\ Live(p)' => seq'[o] < seq'[p]
    BY <1>1, <2>1 DEF SequenceOK, Live
  <2>4. \E n \in Nat : \A o \in Ops : seq'[o] =< n
    BY <1>1 DEF SequenceOK
  <2> QED
    BY <1>1, <2>2, <2>3, <2>4 DEF SequenceOK
<1> QED
  BY <1>7, <1>8, <1>10, <1>11, <1>12

LEMMA CrashInv ==
  ASSUME Inv, Crash PROVE Inv'
<1> USE DEF Inv
<1>1. /\ up' = FALSE /\ active' = NoViewer /\ queue' = {} /\ nextSeq' = 1
      /\ phase' = "idle" /\ staged' = {} /\ cleanup' = {} /\ leaving' = {}
      /\ next' = IF phase = "idle" THEN next ELSE next + 1
      /\ crashes' = crashes + 1
      /\ UNCHANGED << fileVars, historyVars >>
  BY DEF Crash
<1>2. TypeOK'
  <2>1. next' \in Nat \ {0} /\ crashes' \in Nat
    BY <1>1 DEF TypeOK
  <2>2. nextSeq' \in Nat \ {0} /\ active' \in Viewers \cup {NoViewer}
    BY <1>1
  <2> QED
    BY <1>1, <2>1, <2>2 DEF TypeOK
<1>3. \A o \in Ops : Replayable(o)' <=> Replayable(o)
  BY <1>1 DEF Replayable, Suppressed
<1>4. Replays' /\ QueueOK' /\ FilesOK'
  BY <1>1, <1>3 DEF Replays, QueueOK, FilesOK
<1>5. MarkersOK'
  <2>1. \A b \in accepted : b < next'
    <3>1. accepted \subseteq Nat /\ next \in Nat
      BY JournalAssumption DEF TypeOK, Batches
    <3> QED
      BY <1>1, <3>1 DEF MarkersOK
  <2> QED
    BY <1>1, <2>1 DEF MarkersOK
<1>6. WriterOK'
  <2>1. \A o \in Ops : BatchOf[o] >= next' => seq[o] = 0
    <3>1. SUFFICES ASSUME NEW o \in Ops, BatchOf[o] >= next' PROVE seq[o] = 0
      OBVIOUS
    <3>2. BatchOf[o] \in Nat /\ next \in Nat
      BY JournalAssumption DEF TypeOK, Batches
    <3>3. BatchOf[o] > next \/ (BatchOf[o] = next /\ phase = "idle")
      BY <1>1, <3>1, <3>2
    <3> QED
      BY <3>3 DEF WriterOK
  <2>2. \A o \in Ops : BatchOf[o] > next' \/ BatchOf[o] = next' => BatchOf[o] >= next'
    BY <1>1, JournalAssumption DEF TypeOK, Batches
  <2>3. \A o, p \in Members(next)' : ~ (seq[o] # 0 /\ seq[p] = 0)
    <3>1. \A o \in Members(next)' : o \in Ops /\ BatchOf[o] >= next'
      BY <1>1, JournalAssumption DEF TypeOK, Batches, Members
    <3> QED
      BY <2>1, <3>1
  <2> QED
    BY <1>1, <2>1, <2>2, <2>3 DEF WriterOK
<1>7. SequenceOK'
  <2>1. \A o \in Ops : Live(o)' => Live(o)
    BY <1>1, <1>3 DEF Live
  <2>2. \A o, p \in Ops :
          o < p /\ ScopeOf[o] = ScopeOf[p] /\ Live(o)' /\ Live(p)' => seq'[o] < seq'[p]
    BY <1>1, <2>1 DEF SequenceOK
  <2>3. \E n \in Nat : \A o \in Ops : seq'[o] =< n
    BY <1>1 DEF SequenceOK
  <2> QED
    BY <1>1, <2>2, <2>3 DEF SequenceOK
<1> QED
  BY <1>2, <1>4, <1>5, <1>6, <1>7

LEMMA StutterInv ==
  ASSUME Inv, UNCHANGED vars PROVE Inv'
<1> USE DEF Inv
<1>1. /\ UNCHANGED << memoryVars, fileVars, writerVars, retireVars, crashes, historyVars >>
      /\ \A o \in Ops : (Replayable(o)' <=> Replayable(o)) /\ (Live(o)' <=> Live(o))
  BY DEF vars, Replayable, Suppressed, Live
<1>2. TypeOK' /\ Replays' /\ QueueOK'
  BY <1>1 DEF TypeOK, Replays, QueueOK
<1>3. MarkersOK' /\ WriterOK' /\ FilesOK'
  BY <1>1 DEF MarkersOK, WriterOK, FilesOK, Members, Suppressed
<1>4. SequenceOK'
  BY <1>1 DEF SequenceOK
<1> QED
  BY <1>2, <1>3, <1>4

LEMMA NextInv ==
  ASSUME Faultless, Inv, [Next]_vars PROVE Inv'
<1>1. CASE StageBatch
  BY <1>1, StageBatchInv
<1>2. CASE WriteRecord
  BY <1>2, WriteRecordInv
<1>3. CASE CommitBatch
  BY <1>3, CommitBatchInv
<1>4. CASE RollBack
  BY <1>4, RollBackInv
<1>5. CASE RejectBatch
  BY <1>5, RejectBatchInv
<1>6. CASE \E o \in Ops : Acknowledge(o)
  BY <1>6, RetireInv DEF Acknowledge
<1>7. CASE \E o \in Ops : Discard(o)
  BY <1>7, RetireInv DEF Discard
<1>8. CASE \E o \in Ops : RetireMarker(o)
  BY <1>8, RetireMarkerInv
<1>9. CASE \E o \in Ops : RetireDeleted(o)
  BY <1>9, RetireDeletedInv
<1>10. CASE \E o \in Ops : DeleteArea(AreaOf[o])
  BY <1>10, DeleteAreaInv
<1>11. CASE \E v \in Viewers \cup {NoViewer} : ActivateViewer(v)
  BY <1>11, ActivateViewerInv
<1>12. CASE Crash
  BY <1>12, CrashInv
<1>13. CASE Restart
  BY <1>13, RestartInv
<1>14. CASE UNCHANGED vars
  BY <1>14, StutterInv
<1> QED
  BY <1>1, <1>2, <1>3, <1>4, <1>5, <1>6, <1>7, <1>8, <1>9, <1>10, <1>11, <1>12,
     <1>13, <1>14, Zenon DEF Next

\* The properties are read off the invariant.
LEMMA InvImplies ==
  ASSUME Inv PROVE ReplaysExactly /\ QueueMatchesJournal /\ ReplayOrder
<1> USE DEF Inv
<1>1. ReplaysExactly
  BY DEF Replays, ReplaysExactly
<1>2. QueueMatchesJournal
  <2> SUFFICES ASSUME up PROVE QueueMatchesJournal
    BY DEF QueueMatchesJournal
  <2>1. \A o \in Ops : o \notin entombed =>
          (o \in queue <=> Replayable(o) /\ ScopeOf[o] \in {Local, active})
    BY DEF QueueOK
  <2>2. \A o \in Ops : Replayable(o) => o \notin entombed
    BY DEF Replays
  <2>3. queue \ entombed = { o \in Ops : Replayable(o) /\ ScopeOf[o] \in {Local, active} }
    BY <2>1, <2>2 DEF TypeOK
  <2>4. \A o \in queue \cap entombed :
          /\ BatchOf[o] \in accepted /\ o \notin settled
          /\ rec[o] = "json" /\ ScopeOf[o] \in {Local, active}
    BY DEF TypeOK, QueueOK, MarkersOK
  <2> QED
    BY <2>3, <2>4 DEF QueueMatchesJournal
<1>3. ReplayOrder
  BY DEF SequenceOK, Live, ReplayOrder
<1> QED
  BY <1>1, <1>2, <1>3

\* The invariant holds in every behaviour in which the markers can be listed.
LEMMA AlwaysInv == ASSUME Faultless PROVE Spec => []Inv
<1>1. Init => Inv
  BY InitInv
<1>2. Inv /\ [Next]_vars => Inv'
  BY NextInv
<1> QED
  BY <1>1, <1>2, PTL DEF Spec

-----------------------------------------------------------------------------
\* Whichever renames and removals fail and wherever the process is cut off,
\* exactly the edits that were accepted and not settled are replayed, save those
\* that were accepted in a map after its tombstone.
THEOREM JournalReplaysExactly == ASSUME Faultless PROVE Spec => []ReplaysExactly
<1>1. Inv => ReplaysExactly
  BY InvImplies
<1> QED
  BY <1>1, AlwaysInv, PTL

\* The queue of a running process is what its disk would replay, and beside it
\* only unsettled edits, with their records, that were accepted after a tombstone.
THEOREM QueueIsTheJournal == ASSUME Faultless PROVE Spec => []QueueMatchesJournal
<1>1. Inv => QueueMatchesJournal
  BY InvImplies
<1> QED
  BY <1>1, AlwaysInv, PTL

\* Edits are replayed in the order they were made, over any number of restarts.
THEOREM ReplaysInOrder == ASSUME Faultless PROVE Spec => []ReplayOrder
<1>1. Inv => ReplayOrder
  BY InvImplies
<1> QED
  BY <1>1, AlwaysInv, PTL
=============================================================================
