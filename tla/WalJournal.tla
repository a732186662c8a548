------------------------------ MODULE WalJournal ------------------------------
(***************************************************************************)
(* The files behind the pending-edit queue: one record per edit, one       *)
(* commit marker per batch, and the tombstones of deleted maps.  A batch   *)
(* is written record by record and exists from the rename of its marker;   *)
(* an edit leaves by the rename of its record; everything else is clean-up *)
(* that may fail, or be cut short by a crash, and is taken up again by a   *)
(* later load.                                                             *)
(*                                                                         *)
(* A scope is a directory of records: the device's own, or one viewer's.   *)
(* A batch may span scopes, and only the active viewer's is ever loaded.   *)
(* One action is one file operation that other tasks or a crash can fall   *)
(* between.  A removal that follows a rename, and a temporary file before  *)
(* one, are outcomes of the rename's action: a crash leaves the same files *)
(* behind as a failure does.  The second validation of a batch is left     *)
(* out: the mutation gate admits no sign-in or delete since the first.     *)
(***************************************************************************)
EXTENDS Integers, FiniteSets

CONSTANTS
  MaxOps, MaxBatches, \* bound: edits and batches, numbered as they are made
  BatchOf, AreaOf,    \* the batch and the map of an edit
  ScopeOf,            \* the directory its record belongs to
  Local, Viewers, NoViewer,
  MaxCrashes,         \* bound: crashes in a behaviour
  ReadOutcomes        \* what listing the commit markers may do: {TRUE} when
                      \* it always succeeds, BOOLEAN when it may fail

Ops == 1..MaxOps
Batches == 1..MaxBatches
Scopes == Viewers \cup {Local}
Members(b) == { o \in Ops : BatchOf[o] = b }

ASSUME JournalAssumption ==
  /\ MaxOps \in Nat /\ MaxBatches \in Nat /\ MaxCrashes \in Nat
  /\ BatchOf \in [Ops -> Batches]
  /\ \A o, p \in Ops : o < p => BatchOf[o] =< BatchOf[p]
  /\ ScopeOf \in [Ops -> Scopes]
  /\ Local \notin Viewers /\ NoViewer \notin Scopes
  /\ ReadOutcomes \subseteq BOOLEAN

VARIABLES
  up,        \* whether the process runs
  active,    \* active_viewer
  queue,     \* the edits queued in memory
  nextSeq,   \* next_sequence
  rec,       \* where the record of an edit is
  marker,    \* where the commit marker of a batch is
  seq,       \* the sequence number in a record's name, 0 before it is written
  tombs,     \* tombstones: scope and map
  phase,     \* what enqueue_many_staged is doing
  next,      \* the batch it is doing it for, or will next
  staged,    \* the records of it written so far
  cleanup,   \* edits of deleted maps whose records are still to be retired
  leaving,   \* retired edits whose batch's marker is still to be looked at
  crashes,
  accepted,  \* history: the batches whose marker was written
  settled,   \* history: the edits acknowledged, discarded or deleted
  entombed   \* history: the edits accepted in a map after its tombstone

memoryVars == << up, active, queue, nextSeq >>
fileVars == << rec, marker, seq, tombs >>
writerVars == << phase, next, staged >>
retireVars == << cleanup, leaving >>
historyVars == << accepted, settled, entombed >>
vars == << memoryVars, fileVars, writerVars, retireVars, crashes, historyVars >>

Places == { "none", "tmp", "json", "ack", "retired", "quarantine" }
MarkerPlaces == { "none", "tmp", "commit", "retired", "quarantine" }

Init ==
  /\ up = TRUE /\ active = NoViewer /\ queue = {} /\ nextSeq = 1
  /\ rec = [o \in Ops |-> "none"] /\ marker = [b \in Batches |-> "none"]
  /\ seq = [o \in Ops |-> 0] /\ tombs = {}
  /\ phase = "idle" /\ next = 1 /\ staged = {}
  /\ cleanup = {} /\ leaving = {} /\ crashes = 0
  /\ accepted = {} /\ settled = {} /\ entombed = {}

-----------------------------------------------------------------------------
\* Writing a batch.  The mutation gate admits one at a time.

Suppressed(o) == << ScopeOf[o], AreaOf[o] >> \in tombs

\* A viewer's map takes edits of its viewer only.  A tombstone refuses none.
StageBatch ==
  /\ up /\ phase = "idle" /\ next \in Batches
  /\ \A o \in Members(next) : ScopeOf[o] \in {Local, active}
  /\ phase' = "records"
  /\ UNCHANGED << memoryVars, fileVars, next, staged, retireVars, crashes, historyVars >>

Unwritten == { o \in Members(next) : seq[o] = 0 }

\* write_journal_record: a temporary file, then the rename to its name.
WriteRecord ==
  /\ up /\ phase = "records"
  /\ \E o \in Unwritten :
       /\ \A p \in Unwritten : o =< p
       /\ seq' = [seq EXCEPT ![o] = nextSeq]
       /\ \/ /\ rec' = [rec EXCEPT ![o] = "json"]
             /\ staged' = staged \cup {o} /\ phase' = phase
          \/ /\ \E left \in {"none", "tmp"} : rec' = [rec EXCEPT ![o] = left]
             /\ staged' = staged /\ phase' = "rollback"
  /\ nextSeq' = nextSeq + 1
  /\ UNCHANGED << up, active, queue, marker, tombs, next, retireVars, crashes,
                  historyVars >>

\* write_commit_marker and the insertion into the queue, under one lock.
CommitBatch ==
  /\ up /\ phase = "records" /\ Unwritten = {}
  /\ \/ /\ marker' = [marker EXCEPT ![next] = "commit"]
        /\ queue' = queue \cup staged /\ accepted' = accepted \cup {next}
        /\ entombed' = entombed \cup { o \in staged : Suppressed(o) }
        /\ phase' = "idle" /\ next' = next + 1 /\ staged' = {}
     \/ /\ \E left \in {"none", "tmp"} : marker' = [marker EXCEPT ![next] = left]
        /\ phase' = "rollback"
        /\ UNCHANGED << queue, accepted, entombed, next, staged >>
  /\ UNCHANGED << up, active, nextSeq, rec, seq, tombs, retireVars, crashes, settled >>

\* remove_uncommitted_record: a failed removal is logged and passed over.
RollBack ==
  /\ up /\ phase = "rollback" /\ staged # {}
  /\ \E o \in staged, left \in {"none", "json"} :
       /\ rec' = [rec EXCEPT ![o] = left]
       /\ staged' = staged \ {o}
  /\ UNCHANGED << memoryVars, marker, seq, tombs, phase, next, retireVars, crashes,
                  historyVars >>

RejectBatch ==
  /\ up /\ phase = "rollback" /\ staged = {}
  /\ phase' = "idle" /\ next' = next + 1
  /\ UNCHANGED << memoryVars, fileVars, staged, retireVars, crashes, historyVars >>

-----------------------------------------------------------------------------
\* An edit leaves: its record is renamed, then removed, and its batch's marker
\* goes with the last record.

\* mark_journal_acknowledged (to .ack) and retire_journal (to retired/), whose
\* renames may fail: then the edit stays queued and is tried again.
Retire(o, place) ==
  /\ up /\ o \in queue /\ rec[o] = "json"
  /\ \E left \in {place, "none"} : rec' = [rec EXCEPT ![o] = left]
  /\ queue' = queue \ {o} /\ settled' = settled \cup {o}
  /\ leaving' = leaving \cup {o}
  /\ UNCHANGED << up, active, nextSeq, marker, seq, tombs, writerVars, cleanup, crashes,
                  accepted, entombed >>

Acknowledge(o) == Retire(o, "ack")
Discard(o) == Retire(o, "retired")

\* Mutant: the marker goes with the first record of its batch.
SettledByOne(b) == \E o \in Members(b) : rec[o] # "json"

Settled(b) == \A o \in Members(b) : rec[o] # "json"

\* retire_commit_marker_if_settled: a rename and a removal, either may fail.
RetireMarker(o) ==
  /\ up /\ o \in leaving
  /\ \/ /\ marker[BatchOf[o]] = "commit" /\ Settled(BatchOf[o])
        /\ \E left \in {"none", "retired"} :
             marker' = [marker EXCEPT ![BatchOf[o]] = left]
     \/ marker' = marker
  /\ leaving' = leaving \ {o}
  /\ UNCHANGED << memoryVars, rec, seq, tombs, writerVars, cleanup, crashes, historyVars >>

\* commit_delete: the tombstone is what discards the edits of a deleted map.
\* The deletion's fence keeps them apart from a batch that is being written.
DeleteArea(a) ==
  LET gone == { o \in queue : AreaOf[o] = a } IN
  /\ up /\ gone # {}
  /\ phase = "idle" \/ \A o \in Members(next) : AreaOf[o] # a
  /\ tombs' = tombs \cup { << ScopeOf[o], a >> : o \in gone }
  /\ queue' = queue \ gone /\ settled' = settled \cup gone
  /\ cleanup' = cleanup \cup gone
  /\ UNCHANGED << up, active, nextSeq, rec, marker, seq, writerVars, leaving, crashes,
                  accepted, entombed >>

\* A record that cannot be retired is passed over, and its marker with it.
RetireDeleted(o) ==
  /\ up /\ o \in cleanup
  /\ \/ /\ rec[o] = "json"
        /\ \E left \in {"retired", "none"} : rec' = [rec EXCEPT ![o] = left]
        /\ leaving' = leaving \cup {o}
     \/ rec[o] = "json" /\ UNCHANGED << rec, leaving >>
     \/ rec[o] # "json" /\ rec' = rec /\ leaving' = leaving \cup {o}
  /\ cleanup' = cleanup \ {o}
  /\ UNCHANGED << memoryVars, marker, seq, tombs, writerVars, crashes, historyVars >>

-----------------------------------------------------------------------------
\* Loading.

\* committed_record_keys; nothing is committed if the directory cannot be read.
Committed(readable) == { b \in Batches : readable /\ marker[b] = "commit" }

\* Mutant: tombstones are not consulted.
LoadedDespiteTombstone(s, committed) ==
  { o \in Ops : ScopeOf[o] = s /\ rec[o] = "json" /\ BatchOf[o] \in committed }

\* The records of a scope that go back into the queue.
Loaded(s, committed) ==
  { o \in Ops : /\ ScopeOf[o] = s /\ rec[o] = "json"
                /\ BatchOf[o] \in committed /\ ~Suppressed(o) }

\* What a load makes of a record, or a marker, that it finds as place: it moves
\* what is not committed aside, and removes what is done with.
RecordAfterLoad(o, place, committed) ==
  CASE place = "tmp" -> "quarantine"
    [] place = "ack" -> "none"
    [] place = "json" /\ BatchOf[o] \notin committed -> "quarantine"
    [] place = "json" /\ BatchOf[o] \in committed /\ Suppressed(o) -> "none"
    [] OTHER -> place

MarkerAfterLoad(b, place) ==
  CASE place = "tmp" -> "quarantine"
    [] place = "commit" /\ Settled(b) -> "none"
    [] OTHER -> place

\* load_viewer_records, load_local_records, of a disk with the records recs and
\* the markers marks.  Only the scope's own records are touched, while stray
\* and settled markers go whatever their members' scopes.  Any of the moves may
\* fail.  A scope that was never written to has no directory.
Load(s, recs, marks, readable) ==
  LET committed == Committed(readable)
      records == { o \in Ops : /\ ScopeOf[o] = s
                               /\ RecordAfterLoad(o, recs[o], committed) # recs[o] }
      markers == { b \in Batches : readable /\ MarkerAfterLoad(b, marks[b]) # marks[b] } IN
  IF \A o \in Ops : ScopeOf[o] = s => seq[o] = 0
  THEN rec' = recs /\ marker' = marks
  ELSE /\ \E moved \in SUBSET records :
            rec' = [o \in Ops |-> IF o \in moved
                                  THEN RecordAfterLoad(o, recs[o], committed)
                                  ELSE recs[o]]
       /\ \E moved \in SUBSET markers :
            marker' = [b \in Batches |-> IF b \in moved
                                         THEN MarkerAfterLoad(b, marks[b])
                                         ELSE marks[b]]

\* Mutant: numbers begin anew in each process.
SequenceNotRaised(from, loaded) == from

\* The sequence numbers of new records follow those of the loaded ones.
RaisedSequence(from, loaded) ==
  LET bounds == {from} \cup { seq[o] + 1 : o \in loaded } IN
  CHOOSE n \in bounds : \A m \in bounds : m =< n

\* activate_viewer, under the mutation gate: the previous viewer's edits become
\* dormant on disk, the device's own stay.
ActivateViewer(v) ==
  /\ up /\ phase = "idle" /\ v # active
  /\ active' = v
  /\ \E readable \in ReadOutcomes :
       LET loaded == Loaded(v, Committed(readable)) IN
       /\ IF v = NoViewer THEN rec' = rec /\ marker' = marker
          ELSE Load(v, rec, marker, readable)
       /\ queue' = { o \in queue : ScopeOf[o] = Local } \cup loaded
       /\ nextSeq' = RaisedSequence(nextSeq, loaded)
  /\ UNCHANGED << up, seq, tombs, writerVars, retireVars, crashes, historyVars >>

\* with_recovery_cache: cleanup_retired_records, all of them or none, and the
\* load of the device's own edits.
Restart ==
  /\ ~up /\ up' = TRUE
  /\ \E readable \in ReadOutcomes, swept \in {{}, {"retired"}} :
       LET loaded == Loaded(Local, Committed(readable)) IN
       /\ Load(Local,
               [o \in Ops |-> IF rec[o] \in swept THEN "none" ELSE rec[o]],
               [b \in Batches |-> IF marker[b] \in swept THEN "none" ELSE marker[b]],
               readable)
       /\ queue' = loaded
       /\ nextSeq' = RaisedSequence(nextSeq, loaded)
  /\ UNCHANGED << active, seq, tombs, writerVars, retireVars, crashes, historyVars >>

\* Memory is lost; the files stay as they are.
Crash ==
  /\ up /\ crashes < MaxCrashes
  /\ up' = FALSE /\ crashes' = crashes + 1
  /\ active' = NoViewer /\ queue' = {} /\ nextSeq' = 1
  /\ phase' = "idle" /\ staged' = {} /\ cleanup' = {} /\ leaving' = {}
  /\ next' = IF phase = "idle" THEN next ELSE next + 1
  /\ UNCHANGED << fileVars, historyVars >>

Next ==
  \/ StageBatch \/ WriteRecord \/ CommitBatch \/ RollBack \/ RejectBatch
  \/ \E o \in Ops :
       Acknowledge(o) \/ Discard(o) \/ RetireMarker(o) \/ RetireDeleted(o)
  \/ \E o \in Ops : DeleteArea(AreaOf[o])
  \/ \E v \in Viewers \cup {NoViewer} : ActivateViewer(v)
  \/ Crash \/ Restart

Spec == Init /\ [][Next]_vars

-----------------------------------------------------------------------------
\* Properties.

TypeOK ==
  /\ up \in BOOLEAN /\ active \in Viewers \cup {NoViewer}
  /\ queue \subseteq Ops /\ nextSeq \in Nat \ {0}
  /\ rec \in [Ops -> Places] /\ marker \in [Batches -> MarkerPlaces]
  /\ seq \in [Ops -> Nat] /\ tombs \subseteq Scopes \X { AreaOf[o] : o \in Ops }
  /\ phase \in {"idle", "records", "rollback"} /\ next \in Nat \ {0}
  /\ staged \subseteq Ops /\ cleanup \subseteq Ops /\ leaving \subseteq Ops
  /\ crashes \in Nat /\ accepted \subseteq Batches /\ settled \subseteq Ops
  /\ entombed \subseteq Ops

Replayable(o) ==
  rec[o] = "json" /\ marker[BatchOf[o]] = "commit" /\ ~Suppressed(o)

\* What a restart would replay is what was accepted and has not been settled,
\* less what was accepted under a tombstone: otherwise a batch as a whole or not
\* at all, nothing lost to the clean-up of another scope's load, nothing
\* acknowledged, discarded or deleted again, whatever renames and removals failed
\* and wherever the process was cut off.
ReplaysExactly ==
  { o \in Ops : Replayable(o) } =
    { o \in Ops : BatchOf[o] \in accepted } \ (settled \cup entombed)

\* Memory and disk agree: the queue is the device's replayable edits and the
\* active viewer's, before, between and after sign-ins and restarts.  What was
\* accepted under a tombstone is queued beside them, until it is settled or its
\* queue is dropped, and keeps its record as long.
QueueMatchesJournal ==
  up =>
    /\ queue \ entombed =
         { o \in Ops : Replayable(o) /\ ScopeOf[o] \in {Local, active} }
    /\ \A o \in queue \cap entombed :
         /\ BatchOf[o] \in accepted /\ o \notin settled
         /\ rec[o] = "json" /\ ScopeOf[o] \in {Local, active}

\* The names of a scope's records sort as their edits were made, over restarts
\* that begin to count anew: load sorts by the sequence number alone.
ReplayOrder ==
  \A o, p \in Ops :
    o < p /\ ScopeOf[o] = ScopeOf[p] /\ Replayable(o) /\ Replayable(p)
      => seq[o] < seq[p]
=============================================================================
