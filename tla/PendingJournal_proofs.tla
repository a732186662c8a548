------------------------- MODULE PendingJournal_proofs -------------------------
(***************************************************************************)
(* The journal and the queues.  What the journal would replay is what the  *)
(* queues hold, for every number of maps, edits, accounts and failures, so *)
(* that no edit is lost.  What more is shown of the queues rests on two    *)
(* conditions on the history that the code does not enforce by itself and  *)
(* that are stated as actions:                                             *)
(*                                                                         *)
(*   EditsSpareDeleted  no edit is staged in a map that the journal of the *)
(*                      active account holds a tombstone of;               *)
(*   ReadHolds          nothing retires a record between the reading of a  *)
(*                      journal and the activation of what was read.       *)
(*                                                                         *)
(* Then the order of the edits.  A map's queue is sorted, the worker takes *)
(* its head, and a request carries a revision of the map's past (Dated);   *)
(* so nothing travels, or has been applied, ahead of an edit of its lane   *)
(* that may still be sent (LaneOrder).  A third condition, on the service, *)
(* makes of it that an edit is applied once and in order:                  *)
(*                                                                         *)
(*   Remembered         an edit whose request is on its way and that was   *)
(*                      applied before still has its receipt.              *)
(*                                                                         *)
(* Under all three the queue implements EditLedger, and so keeps what the  *)
(* ledger promises.                                                        *)
(***************************************************************************)
EXTENDS PendingQueue_proofs

USE DEF envVars, queueVars, fenceVars, viewerVars, markerVars, diskVars, statVars,
        taskVars, wakeVars, serverVars, historyVars, verdictFrame, engineFrame,
        deleteFrame, serviceFrame, Typed, TypeOK, Verdict

-----------------------------------------------------------------------------
\* The queue of a cloud map is of one account, and every record of that account
\* in the map is queued.
JournalQueued ==
  \A a \in CloudAreas : \A p \in Queued(areas[a]) : \A o \in Ops :
    /\ o \in Queued(areas[a]) => owner[o] = owner[p]
    /\ Replayable(o) /\ AreaOf[o] = a /\ owner[o] = owner[p] => o \in Queued(areas[a])

\* What the engine has read covers what the journal still replays.
LoadedHolds ==
  engine.at = "activating" => Loadable(ViewerOf[engine.tick]) \subseteq engine.loaded

\* The queues are the active account's, and hold all its journal replays.
ActiveHeld ==
  active # NoGen => \A a \in CloudAreas :
    /\ \A p \in Queued(areas[a]) : owner[p] = ViewerOf[active]
    /\ \A o \in Loadable(ViewerOf[active]) : AreaOf[o] = a => o \in Queued(areas[a])

Held == JournalQueued /\ LoadedHolds /\ ActiveHeld

-----------------------------------------------------------------------------
\* What a step does to the journal.

SameQueues == \A a \in Areas : areas'[a].queue = areas[a].queue
Unread == engine' = engine \/ engine'.at # "activating"
Deactivates == active' = active \/ active' = NoGen
Shrinks == \A o \in Ops : Replayable(o)' => Replayable(o)

\* The journal and the history stay.
Quiet ==
  /\ UNCHANGED << wal, tombstones, owner, nextOp, cancelled, discarded >>
  /\ SameQueues /\ Unread /\ Deactivates

\* One edit leaves its queue and the journal, applied or let go.
Resolved(a, o) ==
  /\ EditLeaves(a, o) /\ Retire({o}) /\ UNCHANGED << tombstones, owner, nextOp >>
  /\ \/ Applied(o) /\ UNCHANGED << cancelled, discarded >>
     \/ cancelled' = cancelled \cup {o} /\ discarded' = discarded
     \/ cancelled' = cancelled /\ discarded' = discarded \cup {o}
  /\ Unread /\ Deactivates

\* A map is gone with its edits.
Deleted(a) ==
  /\ Emptied(a) /\ UNCHANGED << owner, nextOp, cancelled >>
  /\ \E tracked : CommitDelete(a, tracked)
  /\ Unread /\ Deactivates

LEMMA QuietSame ==
  ASSUME UNCHANGED << wal, tombstones, owner >>
  PROVE  \A o \in Ops : Replayable(o)' <=> Replayable(o)
  BY DEF Replayable

LEMMA RetireReplays ==
  ASSUME Typed, NEW S, Retire(S), UNCHANGED << tombstones, owner >>
  PROVE  \A o \in Ops : Replayable(o)' <=> Replayable(o) /\ o \notin S
  BY DEF Retire, Replayable, DiskType

LEMMA DeletedReplays ==
  ASSUME Typed, NEW a \in CloudAreas, Deleted(a)
  PROVE  /\ Shrinks
         /\ \A o \in Ops : o \in Queued(areas[a]) /\ AreaOf[o] = a => ~Replayable(o)'
         /\ \A o \in Ops : Replayable(o) /\ AreaOf[o] # a /\ o \notin Queued(areas[a]) =>
              Replayable(o)'
         /\ \A o \in Ops : Replayable(o) /\ ~Replayable(o)' =>
              \/ o \in Queued(areas[a])
              \/ AreaOf[o] = a /\ \E p \in Queued(areas[a]) : owner[p] = owner[o]
         /\ discarded' = discarded \cup Queued(areas[a])
<1> DEFINE ops == Queued(areas[a])
           scopes == { << a, owner[o] >> : o \in { p \in ops : IsCloud(p) } }
<1>1. PICK tracked : CommitDelete(a, tracked)
  BY DEF Deleted
<1>2. PICK S : S \subseteq ops /\ Retire(S)
  BY <1>1 DEF CommitDelete
<1>3. /\ tombstones' = tombstones \cup scopes /\ owner' = owner
      /\ discarded' = discarded \cup ops
  BY <1>1 DEF CommitDelete, Deleted
<1>4. \A o \in Ops : wal'[o] = (IF o \in S /\ wal[o] = "json" THEN "gone" ELSE wal[o])
  BY <1>2 DEF Retire
<1>5. \A o \in Ops : << AreaOf[o], owner[o] >> \in scopes <=>
        AreaOf[o] = a /\ \E p \in ops : IsCloud(p) /\ owner[p] = owner[o]
  OBVIOUS
<1> HIDE DEF scopes, ops
<1>6. Shrinks
  BY <1>3, <1>4 DEF Shrinks, Replayable
<1>7. \A o \in Ops : o \in ops /\ AreaOf[o] = a => ~Replayable(o)'
  BY <1>3, <1>5 DEF Replayable, IsCloud
<1>8. \A o \in Ops : Replayable(o) /\ ~Replayable(o)' =>
        o \in S \/ << AreaOf[o], owner[o] >> \in scopes
  BY <1>3, <1>4 DEF Replayable
<1> QED
  BY <1>2, <1>3, <1>5, <1>6, <1>7, <1>8 DEF ops

-----------------------------------------------------------------------------
\* Every step is one of these.

LEMMA EditorJournal ==
  ASSUME Typed, Arranged, Editor
  PROVE  Stage \/ Quiet \/ \E a \in Areas, o \in Ops : Resolved(a, o)
<1>1. Unread /\ Deactivates
  BY DEF Editor, Stage, Publish, Cancel, Retry, Discard, KeepTheirs, KeepMine, Unread,
     Deactivates
<1>2. CASE Publish \/ \E a \in Areas : KeepMine(a)
  BY <1>1, <1>2 DEF Publish, KeepMine, Quiet, SameQueues
<1>3. ASSUME NEW o \in Ops, Cancel(o) PROVE \E a \in Areas : Resolved(a, o)
  <2>1. AreaOf[o] \in Areas /\ EditLeaves(AreaOf[o], o)
    BY <1>3, CancelLeaves
  <2> QED
    BY <1>1, <1>3, <2>1 DEF Cancel, Resolved
<1>4. ASSUME NEW a \in Areas, Retry(a) PROVE Quiet
  BY <1>1, <1>4, RetrySteady DEF Retry, Quiet, SameQueues, Steady
<1>5. ASSUME NEW a \in Areas, Discard(a) \/ KeepTheirs(a) PROVE \E o \in Ops : Resolved(a, o)
  <2> DEFINE o == areas[a].phase.op
  <2>1. EditLeaves(a, o)
    BY <1>5, DiscardLeaves, KeepTheirsLeaves
  <2>2. o \in Ops
    BY <1>5, <2>1, AreaTyped DEF EditLeaves
  <2>3. Resolved(a, o)
    BY <1>1, <1>5, <2>1 DEF Discard, KeepTheirs, Resolved
  <2> QED
    BY <2>2, <2>3
<1> QED
  BY <1>2, <1>3, <1>4, <1>5 DEF Editor

LEMMA VerdictOkJournal ==
  ASSUME Typed, Arranged, Flight, VerdictOk
  PROVE  Quiet \/ Resolved(worker.area, worker.op)
<1> DEFINE a == worker.area  o == worker.op
<1>1. a \in Areas /\ worker.rev \in Revs /\ o \in Ops
  BY WorkerInHand DEF VerdictOk
<1>2. HeadOp(areas[a]) = o /\ areas[a].queue # << >>
  BY <1>1 DEF VerdictOk, Current, HeadOp, Ops, NoOp
<1>3. /\ UNCHANGED << tombstones, owner, nextOp, cancelled, discarded >>
      /\ Unread /\ Deactivates
  BY DEF VerdictOk, Unread, Deactivates
<1>4. Applied(o)
  BY DEF VerdictOk, Flight, Answered
<1>5. CASE SetArea(a, PopAcknowledged(areas[a], worker.rev, expired)) /\ Retire({o})
  <2>1. EditLeaves(a, o)
    BY <1>1, <1>2, <1>5, HeadLeaves
  <2> QED
    BY <1>3, <1>4, <1>5, <2>1 DEF Resolved
<1>6. CASE /\ SetArea(a, [areas[a] EXCEPT !.phase = AwaitingRetirement(o, worker.rev)])
           /\ wal' = wal
  <2>1. AwaitingRetirement(o, worker.rev) \in PhaseType
    BY <1>1, PhaseTypes
  <2>2. Rephased(a, AwaitingRetirement(o, worker.rev))
    BY <1>1, <1>6, <2>1, SetPhase
  <2> QED
    BY <1>1, <1>3, <1>6, <2>2 DEF Quiet, SameQueues, Rephased
<1> QED
  BY <1>5, <1>6 DEF VerdictOk

LEMMA WorkerJournal ==
  ASSUME Typed, Arranged, Flight, Worker
  PROVE  Quiet \/ \E a \in Areas, o \in Ops : Resolved(a, o)
<1>1. /\ UNCHANGED << tombstones, owner, nextOp, cancelled, discarded >>
      /\ Unread /\ Deactivates
  BY DEF Worker, WorkerRetire, WorkerRetireFails, WorkerTake, WorkerTimer, WorkerIdle,
     WorkerWake, Verdicts, VerdictStale, VerdictOk, VerdictCredential, CredentialChanged,
     VerdictTransport, VerdictHeld, VerdictRefused, VerdictUpgrade, VerdictConflict,
     ConflictFetch, ConflictApply, Unread, Deactivates
<1>2. ASSUME NEW a \in Areas, WorkerRetire(a) PROVE \E o \in Ops : Resolved(a, o)
  <2> DEFINE o == areas[a].phase.op
  <2>1. EditLeaves(a, o)
    BY <1>2, WorkerRetireLeaves
  <2>2. o \in Ops
    BY <2>1, AreaTyped DEF EditLeaves
  <2>3. Applied(o) /\ Retire({o})
    BY <1>2 DEF WorkerRetire, Retiring, Flight, Awaiting
  <2>4. Resolved(a, o)
    BY <1>1, <2>1, <2>3 DEF Resolved
  <2> QED
    BY <2>2, <2>4
<1>3. ASSUME NEW a \in Areas, WorkerRetireFails(a) \/ WorkerTimer(a) PROVE Quiet
  BY <1>1, <1>3 DEF WorkerRetireFails, WorkerTimer, Quiet, SameQueues
<1>4. ASSUME NEW a \in Areas, WorkerTake(a) PROVE Quiet
  <2>1. Rephased(a, InFlight) /\ wal' = wal
    BY <1>4, WorkerTakeRephased DEF WorkerTake
  <2> QED
    BY <1>1, <2>1 DEF Quiet, SameQueues, Rephased
<1>5. CASE WorkerIdle \/ WorkerWake
  <2>1. Steady /\ wal' = wal
    BY <1>5, WorkerIdleSteady, SameSteady DEF WorkerWake, WorkerIdle
  <2> QED
    BY <1>1, <2>1 DEF Quiet, SameQueues, Steady
<1>6. CASE Verdicts /\ ~VerdictOk
  <2>1. wal' = wal
    BY <1>6 DEF Verdicts, VerdictStale, VerdictCredential, CredentialChanged,
       VerdictTransport, VerdictHeld, VerdictRefused, VerdictUpgrade, VerdictConflict,
       ConflictFetch, ConflictApply
  <2> QED
    BY <1>1, <1>6, <2>1, VerdictsSteady DEF Quiet, SameQueues, Steady
<1>7. CASE VerdictOk
  <2>1. worker.area \in Areas /\ worker.op \in Ops
    BY <1>7, WorkerInHand DEF VerdictOk
  <2> QED
    BY <1>7, <2>1, VerdictOkJournal
<1> QED
  BY <1>2, <1>3, <1>4, <1>5, <1>6, <1>7 DEF Worker

LEMMA EngineDisk ==
  ASSUME Typed, Engine
  PROVE  \/ ActivateLoad \/ ActivateInstall \/ Quiet
         \/ \E a \in CloudAreas : Deleted(a)
<1> USE DEF TaskType, EngineType
<1>1. CASE EngineTick \/ EngineFail \/ EngineAsk \/ EngineRows \/ EngineAdopt \/ EngineDone
  <2>1. /\ UNCHANGED << wal, tombstones, owner, nextOp, cancelled, discarded >>
        /\ Deactivates
    BY <1>1 DEF EngineTick, EngineFail, EngineAsk, EngineRows, EngineAdopt, EngineDone,
       AbortDelete, Deactivates
  <2>2. SameQueues
    <3>1. Steady
      BY <1>1, SameSteady, EngineRowsSteady, EngineAdoptSteady DEF EngineTick, EngineFail,
         EngineAsk, EngineDone
    <3> QED
      BY <3>1 DEF Steady, SameQueues
  <2>3. Unread
    <3>1. engine'.at # "activating"
      <4>1. CASE EngineTick \/ EngineFail \/ EngineAsk \/ EngineDone
        BY <4>1 DEF EngineTick, EngineFail, EngineAsk, EngineDone, IdleEngine
      <4>2. CASE EngineRows
        BY <4>2 DEF EngineRows, IdleEngine
      <4>3. CASE EngineAdopt
        <5>1. EngineIdle \/ engine'.at = "rest"
          BY <4>3 DEF EngineAdopt
        <5> QED
          BY <5>1 DEF EngineIdle, IdleEngine
      <4> QED
        BY <1>1, <4>1, <4>2, <4>3
    <3> QED
      BY <3>1 DEF Unread
  <2> QED
    BY <2>1, <2>2, <2>3 DEF Quiet
<1>2. ASSUME NEW a \in CloudAreas, EngineFetch(a) PROVE Quiet \/ Deleted(a)
  <2>1. UNCHANGED << owner, nextOp, cancelled >> /\ Deactivates
    BY <1>2 DEF EngineFetch, Deactivates
  <2>2. Unread
    <3>1. engine.at = "rest"
      BY <1>2 DEF EngineFetch
    <3>2. EngineIdle \/ engine'.at \in {"rest", "fetched"}
      BY <1>2, <3>1 DEF EngineFetch, EngineSkips
    <3> QED
      BY <3>2 DEF Unread, EngineIdle, IdleEngine
  <2>3. \/ UNCHANGED << areas, wal, markerVars, discarded >> \/ RecoverUnavailable(a)
    BY <1>2 DEF EngineFetch
  <2>4. CASE UNCHANGED << areas, wal, markerVars, discarded >>
    BY <2>1, <2>2, <2>4 DEF Quiet, SameQueues
  <2>5. CASE RecoverUnavailable(a)
    <3>1. \/ CommitDelete(a, 0) /\ Emptied(a)
          \/ Steady /\ UNCHANGED << wal, markerVars, discarded >>
      BY <2>5, RecoverShape
    <3> QED
      BY <2>1, <2>2, <3>1 DEF Quiet, SameQueues, Steady, Deleted
  <2> QED
    BY <2>3, <2>4, <2>5
<1> QED
  BY <1>1, <1>2 DEF Engine

LEMMA DeletionDisk ==
  ASSUME Typed, Deletion
  PROVE  Quiet \/ \E a \in CloudAreas : Deleted(a)
<1>1. /\ UNCHANGED << owner, nextOp, cancelled >> /\ Unread /\ Deactivates
  BY DEF Deletion, DeleteBegin, DeletePrepare, DeleteSucceeds, DeleteLeaves, DeleteAmbiguous,
     DeleteAbandon, Unread, Deactivates
<1>2. CASE DeleteSucceeds
  <2>1. del.area \in CloudAreas /\ Emptied(del.area) /\ CommitDelete(del.area, 1)
    BY <1>2 DEF DeleteSucceeds, InHand, CommitDelete, SetArea, Emptied
  <2> QED
    BY <1>1, <2>1 DEF Deleted
<1>3. CASE ~DeleteSucceeds
  <2>1. UNCHANGED << wal, tombstones, discarded >>
    BY <1>3 DEF Deletion, DeleteBegin, DeletePrepare, DeleteLeaves, DeleteAmbiguous,
       DeleteAbandon, AbortDelete
  <2>2. Steady
    BY <1>3, DeletionShape
  <2> QED
    BY <1>1, <2>1, <2>2 DEF Quiet, SameQueues, Steady
<1> QED
  BY <1>2, <1>3

LEMMA JournalShape ==
  ASSUME Typed, Arranged, Flight, [Next]_vars
  PROVE  \/ Stage \/ ActivateLoad \/ ActivateInstall \/ Crash \/ Quiet
         \/ \E a \in Areas, o \in Ops : Resolved(a, o)
         \/ \E a \in CloudAreas : Deleted(a)
<1>1. CASE UNCHANGED vars
  BY <1>1 DEF vars, Quiet, SameQueues, Unread, Deactivates
<1>2. CASE Rebuilds
  <2>1. UNCHANGED << wal, tombstones, owner, nextOp, cancelled, discarded, engine, active >>
    BY <1>2 DEF Rebuilds, RebuildFetch, RebuildApply
  <2> QED
    BY <1>2, <2>1, RebuildsSteady DEF Quiet, SameQueues, Steady, Unread, Deactivates
<1>3. CASE Service
  BY <1>3, ServiceKeeps DEF Quiet, SameQueues, Unread, Deactivates
<1>4. CASE Restart \/ Outage \/ RequestSync \/ Login
  BY <1>4 DEF Restart, Outage, RequestSync, Login, Quiet, SameQueues, Unread, Deactivates
<1> QED
  BY <1>1, <1>2, <1>3, <1>4, EditorJournal, WorkerJournal, EngineDisk, DeletionDisk
     DEF Next, Process

-----------------------------------------------------------------------------
\* Held is kept.

LEMMA QueuedOps ==
  ASSUME Typed
  PROVE  /\ CloudAreas \subseteq Areas
         /\ \A a \in Areas : Queued(areas[a]) \subseteq Ops
         /\ \A o \in Ops : IsCloud(o) <=> AreaOf[o] \in CloudAreas
  BY AreaTyped DEF Areas, IsCloud

LEMMA LoadableIs ==
  ASSUME NEW v
  PROVE  \A o : o \in Loadable(v) <=> o \in Ops /\ Replayable(o) /\ owner[o] = v
  BY DEF Loadable

\* The records that leave the queues have left the journal.
LEMMA HeldKept ==
  ASSUME Typed, Held, Shrinks, owner' = owner, Unread, Deactivates,
         \A a \in CloudAreas : Queued(areas'[a]) \subseteq Queued(areas[a]),
         \A a \in CloudAreas : \A o \in Queued(areas[a]) :
           AreaOf[o] = a /\ o \notin Queued(areas'[a]) => ~Replayable(o)'
  PROVE  Held'
<1>1. JournalQueued'
  <2> SUFFICES ASSUME NEW a \in CloudAreas, NEW p \in Queued(areas'[a]), NEW o \in Ops
               PROVE  /\ o \in Queued(areas'[a]) => owner[o] = owner[p]
                      /\ Replayable(o)' /\ AreaOf[o] = a /\ owner[o] = owner[p] =>
                           o \in Queued(areas'[a])
    BY DEF JournalQueued
  <2>1. p \in Queued(areas[a]) /\ (o \in Queued(areas'[a]) => o \in Queued(areas[a]))
    OBVIOUS
  <2>2. Replayable(o)' => Replayable(o)
    BY DEF Shrinks
  <2> QED
    BY <2>1, <2>2 DEF Held, JournalQueued
<1>2. LoadedHolds'
  <2>1. CASE engine' = engine
    <3>1. \A v : Loadable(v)' \subseteq Loadable(v)
      BY DEF Loadable, Shrinks
    <3> QED
      BY <2>1, <3>1 DEF Held, LoadedHolds, Loadable, Shrinks
  <2>2. CASE engine'.at # "activating"
    BY <2>2 DEF LoadedHolds
  <2> QED
    BY <2>1, <2>2 DEF Unread
<1>3. ActiveHeld'
  <2>1. CASE active' = active
    <3> SUFFICES ASSUME active # NoGen, NEW a \in CloudAreas
                 PROVE  /\ \A p \in Queued(areas'[a]) : owner[p] = ViewerOf[active]
                        /\ \A o \in Ops : Replayable(o)' /\ owner[o] = ViewerOf[active]
                             /\ AreaOf[o] = a => o \in Queued(areas'[a])
      BY <2>1 DEF ActiveHeld, Loadable
    <3>1. \A p \in Queued(areas'[a]) : owner[p] = ViewerOf[active]
      BY DEF Held, ActiveHeld
    <3>2. ASSUME NEW o \in Ops, Replayable(o)', owner[o] = ViewerOf[active], AreaOf[o] = a
          PROVE  o \in Queued(areas'[a])
      <4>1. o \in Queued(areas[a])
        BY <3>2 DEF Held, ActiveHeld, Shrinks, Loadable
      <4> QED
        BY <3>2, <4>1
    <3> QED
      BY <3>1, <3>2
  <2>2. CASE active' = NoGen
    BY <2>2 DEF ActiveHeld
  <2> QED
    BY <2>1, <2>2 DEF Deactivates
<1> QED
  BY <1>1, <1>2, <1>3 DEF Held

LEMMA QuietHeld == ASSUME Typed, Held, Quiet PROVE Held'
<1>1. \A a \in CloudAreas : Queued(areas'[a]) = Queued(areas[a])
  BY QueuedOps DEF Quiet, SameQueues, Queued
<1>2. Shrinks
  BY QuietSame DEF Quiet, Shrinks
<1> QED
  BY <1>1, <1>2, HeldKept DEF Quiet

LEMMA ResolvedHeld ==
  ASSUME Typed, Held, NEW a \in Areas, NEW o \in Ops, Resolved(a, o)
  PROVE  Held'
<1>1. \A p \in Ops : Replayable(p)' <=> Replayable(p) /\ p # o
  BY RetireReplays DEF Resolved
<1>2. /\ Queued(areas'[a]) = Queued(areas[a]) \ {o}
      /\ \A b \in Areas : b # a => Queued(areas'[b]) = Queued(areas[b])
  BY DEF Resolved, EditLeaves
<1>3. Shrinks
  BY <1>1 DEF Shrinks
<1>4. \A b \in CloudAreas : Queued(areas'[b]) \subseteq Queued(areas[b])
  BY <1>2, QueuedOps
<1>5. \A b \in CloudAreas : \A p \in Queued(areas[b]) :
        p \notin Queued(areas'[b]) => ~Replayable(p)'
  BY <1>1, <1>2, QueuedOps
<1> QED
  BY <1>3, <1>4, <1>5, HeldKept DEF Resolved

LEMMA DeletedHeld ==
  ASSUME Typed, Held, NEW a \in CloudAreas, Deleted(a)
  PROVE  Held'
<1>1. a \in Areas /\ Emptied(a)
  BY QueuedOps DEF Deleted
<1>2. /\ Queued(areas'[a]) = {}
      /\ \A b \in Areas : b # a => Queued(areas'[b]) = Queued(areas[b])
  BY <1>1, EmptiedAreas, GoneFits
<1>3. Shrinks /\ \A o \in Ops : o \in Queued(areas[a]) /\ AreaOf[o] = a => ~Replayable(o)'
  BY DeletedReplays
<1>4. \A b \in CloudAreas : Queued(areas'[b]) \subseteq Queued(areas[b])
  BY <1>2, QueuedOps
<1>5. \A b \in CloudAreas : \A p \in Queued(areas[b]) :
        AreaOf[p] = b /\ p \notin Queued(areas'[b]) => ~Replayable(p)'
  BY <1>2, <1>3, QueuedOps
<1> QED
  BY <1>3, <1>4, <1>5, HeldKept DEF Deleted

LEMMA CrashHeld == ASSUME Typed, Held, Crash PROVE Held'
<1>1. \A a \in CloudAreas : Queued(areas'[a]) = {}
  BY EmptyFits, QueuedOps DEF Crash
<1>2. active' = NoGen /\ engine'.at # "activating"
  BY DEF Crash, IdleEngine
<1> QED
  BY <1>1, <1>2 DEF Held, JournalQueued, LoadedHolds, ActiveHeld

\* Staging is under the gate, so no journal is being activated: what is queued is
\* the active account's, and the new edit joins its queue and its journal.
LEMMA StageHeld == ASSUME Typed, Own, Arranged, Held, Stage PROVE Held'
<1>0. PICK o, a : o = nextOp /\ a = AreaOf[o]
  OBVIOUS
<1>1. o \in Ops /\ a \in Areas /\ Staged(a, o)
  BY <1>0, StageStaged
<1>2. \A p \in Ops : p # o => (Replayable(p)' <=> Replayable(p)) /\ owner'[p] = owner[p]
  BY <1>0, <1>1 DEF Stage, Replayable, DiskType
<1>3. IsCloud(o) => owner'[o] = ViewerOf[active] /\ active # NoGen
  BY <1>0, <1>1 DEF Stage, DiskType
<1>4. active' = active /\ engine' = engine /\ engine.at # "activating"
  BY DEF Stage, GateFree
<1>5. \A b \in CloudAreas : \A p \in Queued(areas[b]) : p # o /\ p \in Ops
  <2>1. \A p \in Ops : p < o => p # o
    BY <1>1 DEF Ops
  <2> QED
    BY <1>0, <2>1, QueuedOps DEF Arranged, QueueMade
<1>6. \A b \in CloudAreas : b # a => Queued(areas'[b]) = Queued(areas[b])
  BY <1>1, QueuedOps DEF Staged
<1>7. Queued(areas'[a]) = Queued(areas[a]) \cup {o}
  BY <1>0, <1>1 DEF Staged
<1>8. ~IsCloud(o) => ~Replayable(o)'
  <2>1. ~IsCloud(o) => wal'[o] = wal[o] /\ wal[o] # "json"
    BY <1>0, <1>1 DEF Stage, DiskType, Arranged, JournalCloud
  <2> QED
    BY <2>1 DEF Replayable
<1>9. JournalQueued'
  <2> SUFFICES ASSUME NEW b \in CloudAreas, NEW p \in Queued(areas'[b]), NEW r \in Ops
               PROVE  /\ r \in Queued(areas'[b]) => owner'[r] = owner'[p]
                      /\ Replayable(r)' /\ AreaOf[r] = b /\ owner'[r] = owner'[p] =>
                           r \in Queued(areas'[b])
    BY DEF JournalQueued
  <2>1. CASE b = a
    <3>1. IsCloud(o) /\ active # NoGen /\ owner'[o] = ViewerOf[active]
      BY <1>0, <1>1, <1>3, <2>1 DEF IsCloud
    <3>2. \A s \in Queued(areas[b]) : owner[s] = ViewerOf[active] /\ owner'[s] = owner[s]
      BY <1>2, <1>5, <3>1 DEF Held, ActiveHeld
    <3>3. \A s \in Queued(areas'[b]) : owner'[s] = ViewerOf[active]
      BY <1>7, <2>1, <3>1, <3>2
    <3>4. r # o /\ Replayable(r)' /\ AreaOf[r] = b /\ owner'[r] = ViewerOf[active] =>
            r \in Queued(areas[b])
      BY <1>2, <3>1 DEF Held, ActiveHeld, Loadable
    <3> QED
      BY <1>7, <2>1, <3>3, <3>4
  <2>2. CASE b # a
    <3>1. p \in Queued(areas[b]) /\ p # o /\ p \in Ops
      BY <1>5, <1>6, <2>2
    <3>2. r = o => AreaOf[r] # b /\ r \notin Queued(areas'[b])
      BY <1>0, <1>5, <1>6, <2>2
    <3>3. r # o => /\ r \in Queued(areas[b]) => owner[r] = owner[p]
                   /\ Replayable(r) /\ AreaOf[r] = b /\ owner[r] = owner[p] =>
                        r \in Queued(areas[b])
      BY <3>1 DEF Held, JournalQueued
    <3> QED
      BY <1>2, <1>6, <2>2, <3>1, <3>2, <3>3
  <2> QED
    BY <2>1, <2>2
<1>10. LoadedHolds'
  BY <1>4 DEF LoadedHolds
<1>11. ActiveHeld'
  <2> SUFFICES ASSUME active # NoGen, NEW b \in CloudAreas
               PROVE  /\ \A p \in Queued(areas'[b]) : owner'[p] = ViewerOf[active]
                      /\ \A r \in Ops : Replayable(r)' /\ owner'[r] = ViewerOf[active]
                           /\ AreaOf[r] = b => r \in Queued(areas'[b])
    BY <1>4 DEF ActiveHeld, Loadable
  <2>1. \A p \in Queued(areas[b]) : owner'[p] = ViewerOf[active]
    BY <1>2, <1>5 DEF Held, ActiveHeld
  <2>2. \A r \in Ops : r # o /\ Replayable(r)' /\ owner'[r] = ViewerOf[active] /\ AreaOf[r] = b
          => r \in Queued(areas[b])
    BY <1>2 DEF Held, ActiveHeld, Loadable
  <2>3. CASE b = a
    <3>1. owner'[o] = ViewerOf[active]
      BY <1>0, <1>3, <2>3 DEF IsCloud
    <3> QED
      BY <1>7, <2>1, <2>2, <2>3, <3>1
  <2>4. CASE b # a
    BY <1>0, <1>6, <2>1, <2>2, <2>4
  <2> QED
    BY <2>3, <2>4
<1> QED
  BY <1>9, <1>10, <1>11 DEF Held

\* Reading a journal retires no record that it would replay.
LEMMA LoadReplays ==
  ASSUME Typed, ActivateLoad
  PROVE  /\ \A o \in Ops : Replayable(o)' <=> Replayable(o)
         /\ \/ engine'.at # "activating"
            \/ engine'.loaded = Loadable(ViewerOf[engine.tick]) /\ engine'.tick = engine.tick
<1> USE DEF TaskType, EngineType
<1> DEFINE v == ViewerOf[engine.tick]
           S == { o \in Ops : owner[o] = v } \ Loadable(v)
<1>1. UNCHANGED << owner, tombstones >>
  BY DEF ActivateLoad
<1>2. \/ wal' = wal /\ engine'.at # "activating"
      \/ Retire(S) /\ engine'.loaded = Loadable(v) /\ engine'.tick = engine.tick
  <2>1. CASE cred # engine.tick
    BY <2>1 DEF ActivateLoad, EngineIdle, IdleEngine
  <2>2. CASE cred = engine.tick /\ active = engine.tick
    BY <2>2 DEF ActivateLoad
  <2>3. CASE cred = engine.tick /\ active # engine.tick
    BY <2>3 DEF ActivateLoad
  <2> QED
    BY <2>1, <2>2, <2>3
<1>3. \A o \in Ops : Replayable(o) => o \notin S
  BY LoadableIs
<1> HIDE DEF S
<1>4. ASSUME Retire(S) PROVE \A o \in Ops : Replayable(o)' <=> Replayable(o)
  BY <1>1, <1>3, <1>4, RetireReplays
<1> QED
  BY <1>1, <1>2, <1>4, QuietSame

\* What it has read is all that the journal replays.
LEMMA LoadHeld == ASSUME Typed, Held, ActivateLoad PROVE Held'
<1>1. UNCHANGED << areas, active, owner >>
  BY DEF ActivateLoad
<1>2. \A o \in Ops : Replayable(o)' <=> Replayable(o)
  BY LoadReplays
<1>3. \A w : Loadable(w)' = Loadable(w)
  BY <1>1, <1>2 DEF Loadable
<1>4. JournalQueued' /\ ActiveHeld'
  BY <1>1, <1>2, <1>3 DEF Held, JournalQueued, ActiveHeld
<1>5. LoadedHolds'
  BY <1>1, <1>2, LoadReplays DEF LoadedHolds, Loadable
<1> QED
  BY <1>4, <1>5 DEF Held

\* What is installed is what was read: all records of the account.
LEMMA InstalledQueues ==
  ASSUME Typed, Arranged, ActivateInstall, NEW a \in CloudAreas
  PROVE  Queued(areas'[a]) = { o \in engine.loaded : AreaOf[o] = a }
<1>1. a \in Areas /\ Installed(a) /\ LoadedOf(a) \in SUBSET Ops
  BY ActivateInstalls, QueuedOps DEF LoadedOf, TaskType, EngineType
<1>2. LoadedOf(a) = { o \in engine.loaded : AreaOf[o] = a }
  BY DEF LoadedOf
<1>3. CASE LoadedOf(a) # {}
  <2>1. areas'[a].queue = InOrder(LoadedOf(a))
    BY <1>1, <1>3 DEF Installed
  <2>2. Members(areas'[a].queue) = LoadedOf(a)
    BY <1>1, <2>1, InOrderMembers
  <2> QED
    BY <1>2, <2>2, QueuedMembers
<1>4. CASE LoadedOf(a) = {}
  <2>1. areas'[a].queue = << >>
    BY <1>1, <1>4, GoneFits DEF Installed
  <2>2. Members(areas'[a].queue) = {}
    BY <2>1, EmptySorted
  <2> QED
    BY <1>2, <1>4, <2>2, QueuedMembers
<1> QED
  BY <1>3, <1>4

LEMMA InstallHeld == ASSUME Typed, Own, Arranged, Held, ActivateInstall PROVE Held'
<1>1. /\ UNCHANGED << wal, owner, tombstones >>
      /\ active' = engine.tick /\ engine.at = "activating"
  BY DEF ActivateInstall
<1>2. engine'.at = "rows"
  BY DEF ActivateInstall, TaskType, EngineType
<1>3. /\ engine.loaded \subseteq Ops
      /\ \A o \in engine.loaded : owner[o] = ViewerOf[engine.tick]
      /\ \A o \in Ops : Replayable(o) /\ owner[o] = ViewerOf[engine.tick] => o \in engine.loaded
  BY <1>1 DEF Own, LoadedOwned, Held, LoadedHolds, Loadable, TaskType, EngineType
<1>4. \A o \in Ops : Replayable(o)' <=> Replayable(o)
  BY <1>1, QuietSame
<1>5. \A a \in CloudAreas : Queued(areas'[a]) = { o \in engine.loaded : AreaOf[o] = a }
  BY InstalledQueues
<1>6. JournalQueued'
  BY <1>1, <1>3, <1>4, <1>5 DEF JournalQueued
<1>7. ActiveHeld'
  BY <1>1, <1>3, <1>4, <1>5 DEF ActiveHeld, Loadable
<1>8. LoadedHolds'
  BY <1>2 DEF LoadedHolds
<1> QED
  BY <1>6, <1>7, <1>8 DEF Held

LEMMA InitHeld == ASSUME Init PROVE Held
<1>1. \A a \in Areas : areas[a].queue = << >>
  BY DEF Init, EmptyArea
<1>2. \A a \in Areas : Queued(areas[a]) = {}
  BY <1>1, EmptySorted, QueuedMembers
<1>3. \A o \in Ops : ~Replayable(o)
  BY DEF Init, Replayable
<1>4. engine.at = "idle"
  BY DEF Init, IdleEngine
<1> QED
  BY <1>2, <1>3, <1>4 DEF Held, JournalQueued, LoadedHolds, ActiveHeld, Loadable, Areas

LEMMA StepHeld ==
  ASSUME Typed, Own, Arranged, Flight, Held, [Next]_vars PROVE Held'
  BY JournalShape, StageHeld, LoadHeld, InstallHeld, CrashHeld, QuietHeld, ResolvedHeld,
     DeletedHeld

-----------------------------------------------------------------------------
\* Nothing is lost but what is accepted in a map already deleted.

\* An edit is not staged in a map that the active account's journal holds a
\* tombstone of.
EditsSpareDeleted ==
  nextOp' # nextOp =>
    << AreaOf[nextOp], IF IsCloud(nextOp) THEN ViewerOf[active] ELSE NoGen >> \notin tombstones

\* What was read of a journal is still there to be activated.
ReadHolds == \A o \in engine.loaded : Replayable(o) => Replayable(o)'

NoneEntombed == entombed = {}
LetGo(o) == o \in cancelled \cup discarded

LEMMA StepLogs ==
  ASSUME Typed, [Next]_vars
  PROVE  LogsGrow
<1>1. CASE Editor
  BY <1>1, SameLogs DEF Editor, Stage, Publish, Cancel, Retry, Discard, KeepTheirs, KeepMine
<1>2. CASE Rebuilds
  BY <1>2, SameLogs DEF Rebuilds, RebuildFetch, RebuildApply
<1>3. CASE Worker
  BY <1>3, SameLogs DEF Worker, WorkerRetire, WorkerRetireFails, WorkerTake, WorkerTimer,
     WorkerIdle, WorkerWake, Verdicts, VerdictStale, VerdictOk, VerdictCredential,
     CredentialChanged, VerdictTransport, VerdictHeld, VerdictRefused, VerdictUpgrade,
     VerdictConflict, ConflictFetch, ConflictApply
<1>4. CASE Engine \/ Deletion
  BY <1>4, SameLogs, EngineJournal, DeletionJournal
<1>5. CASE Service
  BY <1>5, ServiceGrows
<1>6. CASE Crash
  BY <1>6, CrashGrows
<1>7. CASE Restart \/ Outage \/ RequestSync \/ Login
  BY <1>7, SameLogs DEF Restart, Outage, RequestSync, Login
<1>8. CASE UNCHANGED vars
  BY <1>8, SameLogs DEF vars
<1> QED
  BY <1>1, <1>2, <1>3, <1>4, <1>5, <1>6, <1>7, <1>8 DEF Next, Process

LEMMA AcceptedOps ==
  ASSUME Typed
  PROVE  /\ Accepted \subseteq Ops
         /\ nextOp' = nextOp => Accepted' = Accepted
         /\ nextOp' = nextOp + 1 => Accepted' = Accepted \cup {nextOp}
<1>1. MaxOps \in Nat /\ nextOp \in 1..(MaxOps + 1)
  BY QueueAssumption DEF EnvType
<1>2. \A n \in 1..(MaxOps + 1) : /\ 1..(n - 1) \subseteq 1..MaxOps
                                 /\ 1..((n + 1) - 1) = 1..(n - 1) \cup {n}
  BY <1>1
<1> QED
  BY <1>1, <1>2 DEF Accepted, Ops

\* The records and the history of a step, whichever it is: a record leaves the
\* journal because its edit was applied or let go, never otherwise.
LEMMA StepRecords ==
  ASSUME Typed, Arranged, Flight, Held, [Next]_vars
  PROVE  \/ Stage
         \/ /\ nextOp' = nextOp /\ owner' = owner /\ tombstones \subseteq tombstones'
            /\ Shrinks
            /\ \A o \in Ops : Replayable(o) /\ ~Replayable(o)' => Applied(o) \/ LetGo(o)'
            /\ \A o \in Ops : LetGo(o) => LetGo(o)'
<1>1. CASE Quiet
  BY <1>1, QuietSame DEF Quiet, Shrinks, LetGo
<1>2. CASE ActivateLoad
  <2>1. UNCHANGED << nextOp, owner, tombstones, cancelled, discarded >>
    BY <1>2 DEF ActivateLoad
  <2> QED
    BY <1>2, <2>1, LoadReplays DEF Shrinks, LetGo
<1>3. CASE ActivateInstall \/ Crash
  <2>1. UNCHANGED << wal, nextOp, owner, tombstones, cancelled, discarded >>
    BY <1>3 DEF ActivateInstall, Crash
  <2> QED
    BY <2>1, QuietSame DEF Shrinks, LetGo
<1>4. ASSUME NEW a \in Areas, NEW o \in Ops, Resolved(a, o)
      PROVE  /\ nextOp' = nextOp /\ owner' = owner /\ tombstones \subseteq tombstones'
             /\ Shrinks
             /\ \A p \in Ops : Replayable(p) /\ ~Replayable(p)' => Applied(p) \/ LetGo(p)'
             /\ \A p \in Ops : LetGo(p) => LetGo(p)'
  <2>1. \A p \in Ops : Replayable(p)' <=> Replayable(p) /\ p # o
    BY <1>4, RetireReplays DEF Resolved
  <2>2. (Applied(o) \/ LetGo(o)') /\ \A p \in Ops : LetGo(p) => LetGo(p)'
    BY <1>4 DEF Resolved, LetGo
  <2>3. UNCHANGED << nextOp, owner, tombstones >>
    BY <1>4 DEF Resolved
  <2> QED
    BY <2>1, <2>2, <2>3 DEF Shrinks
<1>5. ASSUME NEW a \in CloudAreas, Deleted(a)
      PROVE  /\ nextOp' = nextOp /\ owner' = owner /\ tombstones \subseteq tombstones'
             /\ Shrinks
             /\ \A p \in Ops : Replayable(p) /\ ~Replayable(p)' => Applied(p) \/ LetGo(p)'
             /\ \A p \in Ops : LetGo(p) => LetGo(p)'
  <2>1. Shrinks /\ discarded' = discarded \cup Queued(areas[a])
    BY <1>5, DeletedReplays
  <2>2. UNCHANGED << nextOp, owner, cancelled >> /\ tombstones \subseteq tombstones'
    BY <1>5 DEF Deleted, CommitDelete
  <2>3. \A p \in Ops : Replayable(p) /\ ~Replayable(p)' => p \in Queued(areas[a])
    <3>1. \A p \in Ops : Replayable(p) /\ ~Replayable(p)' =>
            \/ p \in Queued(areas[a])
            \/ AreaOf[p] = a /\ \E r \in Queued(areas[a]) : owner[r] = owner[p]
      BY <1>5, DeletedReplays
    <3> QED
      BY <3>1 DEF Held, JournalQueued
  <2> QED
    BY <2>1, <2>2, <2>3 DEF LetGo
<1> QED
  BY <1>1, <1>2, <1>3, <1>4, <1>5, JournalShape

\* Only staging entombs an edit: the one it accepts, if its account's journal
\* holds a tombstone of the map.
LEMMA StepEntombed ==
  ASSUME [Next]_vars
  PROVE  Stage \/ entombed' = entombed
<1>1. CASE Editor \/ Rebuilds
  BY <1>1 DEF Editor, Publish, Cancel, Retry, Discard, KeepTheirs, KeepMine,
     Rebuilds, RebuildFetch, RebuildApply
<1>2. CASE Worker
  BY <1>2 DEF Worker, WorkerRetire, WorkerRetireFails, WorkerTake, WorkerTimer,
     WorkerIdle, WorkerWake, Verdicts, VerdictStale, VerdictOk, VerdictCredential,
     CredentialChanged, VerdictTransport, VerdictHeld, VerdictRefused, VerdictUpgrade,
     VerdictConflict, ConflictFetch, ConflictApply
<1>3. CASE Engine \/ Deletion
  BY <1>3 DEF Engine, EngineTick, EngineFail, ActivateLoad, ActivateInstall,
     EngineAsk, EngineRows, EngineFetch, EngineAdopt, EngineDone, Deletion, DeleteBegin,
     DeletePrepare, DeleteSucceeds, DeleteLeaves, DeleteAmbiguous, DeleteAbandon
<1>4. CASE Service
  BY <1>4 DEF Service, ServiceHandles, ServiceRefuses, RequestTimesOut, ServiceDeletes,
     ForeignEdit, AccessChanges
<1>5. CASE Process \/ UNCHANGED vars
  BY <1>5 DEF Process, Crash, Restart, Outage, RequestSync, Login, vars
<1> QED
  BY <1>1, <1>2, <1>3, <1>4, <1>5 DEF Next

LEMMA StageEntombs ==
  ASSUME Stage, NEW o, o = nextOp
  PROVE  entombed' = entombed \cup { p \in {o} :
                       IsCloud(p) /\ << AreaOf[p], ViewerOf[active] >> \in tombstones }
  BY DEF Stage

LEMMA StepNothingLost ==
  ASSUME Typed, Arranged, Flight, Held, NothingLost, [Next]_vars
  PROVE  NothingLost'
<1>1. LogsGrow
  BY StepLogs
<1>2. CASE Stage
  <2>1. PICK o : o = nextOp
    OBVIOUS
  <2>2. o \in Ops /\ Accepted' = Accepted \cup {o} /\ Accepted \subseteq Ops /\ nextOp' # nextOp
    BY <1>2, <2>1, AcceptedOps DEF Stage, Ops
  <2>3. IsCloud(o) => wal'[o] = "json" /\ owner'[o] = ViewerOf[active]
    BY <1>2, <2>1, <2>2 DEF Stage, DiskType
  <2>4. \A p \in Accepted : p # o
    BY <2>1, <2>2 DEF Accepted, EnvType
  <2>5. \A p \in Accepted : Replayable(p)' <=> Replayable(p)
    BY <1>2, <2>1, <2>2, <2>4 DEF Stage, Replayable, DiskType
  <2>6. UNCHANGED << tombstones, cancelled, discarded >>
    BY <1>2 DEF Stage
  <2>7. entombed' = entombed \cup { p \in {o} :
                     IsCloud(p) /\ << AreaOf[p], ViewerOf[active] >> \in tombstones }
    BY <1>2, <2>1, StageEntombs
  <2>8. ASSUME NEW p \in Accepted, IsCloud(p)
        PROVE  Replayable(p)' \/ Applied(p)' \/ p \in cancelled' \cup discarded' \cup entombed'
    BY <1>1, <2>2, <2>5, <2>6, <2>7, <2>8 DEF NothingLost, LogsGrow
  <2>9. IsCloud(o) => Replayable(o)' \/ o \in entombed'
    BY <2>2, <2>3, <2>6, <2>7 DEF Replayable
  <2> QED
    BY <2>2, <2>8, <2>9 DEF NothingLost, IsCloud
<1>3. CASE ~Stage
  <2>1. /\ nextOp' = nextOp
        /\ \A o \in Ops : Replayable(o) /\ ~Replayable(o)' => Applied(o) \/ LetGo(o)'
        /\ \A o \in Ops : LetGo(o) => LetGo(o)'
    BY <1>3, StepRecords
  <2>2. Accepted' = Accepted /\ Accepted \subseteq Ops
    BY <2>1, AcceptedOps
  <2>3. entombed' = entombed
    BY <1>3, StepEntombed
  <2> QED
    BY <1>1, <2>1, <2>2, <2>3 DEF NothingLost, LogsGrow, IsCloud, LetGo
<1> QED
  BY <1>2, <1>3

-----------------------------------------------------------------------------
\* Nothing comes back.

\* What was read of the journal is there; what is queued is in the journal, but
\* for the edits accepted in a deleted map.
LoadedReplayable == \A o \in engine.loaded : Replayable(o)
QueueRecorded ==
  \A a \in CloudAreas : \A o \in Queued(areas[a]) : Replayable(o) \/ o \in entombed
QueueReplayable == \A a \in CloudAreas : \A o \in Queued(areas[a]) : Replayable(o)

\* An edit that left is in no queue, and no restart replays it.
Withdrawn ==
  \A o \in cancelled \cup discarded :
    o < nextOp /\ ~Replayable(o) /\ \A a \in Areas : o \notin Queued(areas[a])

LEMMA StepLoaded ==
  ASSUME Typed, [Next]_vars
  PROVE  LoadedKeeps \/ ActivateLoad
<1>1. CASE Editor \/ Rebuilds
  BY <1>1 DEF Editor, Stage, Publish, Cancel, Retry, Discard, KeepTheirs, KeepMine, Rebuilds,
     RebuildFetch, RebuildApply, LoadedKeeps
<1>2. CASE Worker
  BY <1>2 DEF Worker, WorkerRetire, WorkerRetireFails, WorkerTake, WorkerTimer,
     WorkerIdle, WorkerWake, Verdicts, VerdictStale, VerdictOk, VerdictCredential,
     CredentialChanged, VerdictTransport, VerdictHeld, VerdictRefused, VerdictUpgrade,
     VerdictConflict, ConflictFetch, ConflictApply, LoadedKeeps
<1>3. CASE Engine
  BY <1>3, EngineReads
<1>4. CASE Deletion \/ Service
  BY <1>4, DeletionJournal, ServiceKeeps DEF LoadedKeeps
<1>5. CASE Crash
  BY <1>5 DEF Crash, IdleEngine, LoadedKeeps
<1>6. CASE Restart \/ Outage \/ RequestSync \/ Login \/ UNCHANGED vars
  BY <1>6 DEF Restart, Outage, RequestSync, Login, vars, LoadedKeeps
<1> QED
  BY <1>1, <1>2, <1>3, <1>4, <1>5, <1>6 DEF Next, Process

LEMMA StepLoadedReplayable ==
  ASSUME Typed, LoadedReplayable, [Next]_vars, [ReadHolds]_vars
  PROVE  LoadedReplayable'
<1>0. engine.loaded \subseteq Ops
  BY DEF TaskType, EngineType
<1>1. CASE UNCHANGED vars
  BY <1>1 DEF vars, LoadedReplayable, Replayable
<1>2. CASE ReadHolds /\ LoadedKeeps
  BY <1>2 DEF ReadHolds, LoadedKeeps, LoadedReplayable
<1>3. CASE ReadHolds /\ ActivateLoad /\ ~LoadedKeeps
  <2>1. engine'.loaded = Loadable(ViewerOf[engine.tick])
    BY <1>3, EngineReads DEF Engine
  <2> QED
    BY <1>3, <2>1, LoadReplays, LoadableIs DEF LoadedReplayable
<1> QED
  BY <1>1, <1>2, <1>3, StepLoaded

\* Where an edit is queued, there only.
LEMMA QueuedOnce ==
  ASSUME Typed, Arranged, NEW a \in Areas, NEW o \in Queued(areas[a])
  PROVE  /\ o \in Ops /\ AreaOf[o] = a /\ o < nextOp
         /\ \A b \in Areas : o \in Queued(areas[b]) => b = a
  BY AreaTyped DEF Arranged, QueueMade

\* What each kind of step leaves in the queues.
LEMMA ResolvedQueues ==
  ASSUME Typed, NEW a \in Areas, NEW o \in Ops, Resolved(a, o)
  PROVE  /\ Queued(areas'[a]) = Queued(areas[a]) \ {o} /\ o \in Queued(areas[a])
         /\ \A b \in Areas : b # a => Queued(areas'[b]) = Queued(areas[b])
         /\ \A p \in Ops : Replayable(p)' <=> Replayable(p) /\ p # o
  BY RetireReplays DEF Resolved, EditLeaves

LEMMA DeletedQueues ==
  ASSUME Typed, NEW a \in CloudAreas, Deleted(a)
  PROVE  /\ Queued(areas'[a]) = {} /\ a \in Areas
         /\ \A b \in Areas : b # a => Queued(areas'[b]) = Queued(areas[b])
<1>1. a \in Areas /\ Emptied(a)
  BY QueuedOps DEF Deleted
<1> QED
  BY <1>1, EmptiedAreas, GoneFits

LEMMA InstalledSession ==
  ASSUME Typed, Arranged, ActivateInstall, NEW a \in Areas, a \notin CloudAreas
  PROVE  Queued(areas'[a]) = Queued(areas[a])
<1>1. Installed(a) /\ LoadedOf(a) = {}
  BY ActivateInstalls DEF LoadedOf, Arranged, LoadedCloud, IsCloud
<1> QED
  BY <1>1 DEF Installed

LEMMA StepQueueRecorded ==
  ASSUME Typed, Arranged, Flight, LoadedReplayable, QueueRecorded, [Next]_vars
  PROVE  QueueRecorded'
<1> SUFFICES ASSUME NEW a \in CloudAreas, NEW p \in Queued(areas'[a])
             PROVE  Replayable(p)' \/ p \in entombed'
  BY DEF QueueRecorded
<1>0. a \in Areas /\ Queued(areas[a]) \subseteq Ops
  BY QueuedOps
<1>1. entombed \subseteq entombed'
  BY StepEntombed DEF Stage
<1>2. CASE Stage
  <2>1. PICK o, b : o = nextOp /\ b = AreaOf[o]
    OBVIOUS
  <2>2. o \in Ops /\ b \in Areas /\ Staged(b, o)
    BY <1>2, <2>1, StageStaged
  <2>3. CASE p \in Queued(areas[a])
    <3>1. p # o
      BY <1>0, <2>1, <2>3, QueuedOnce DEF Ops
    <3>2. Replayable(p)' <=> Replayable(p)
      BY <1>0, <1>2, <2>1, <2>2, <2>3, <3>1 DEF Stage, Replayable, DiskType
    <3> QED
      BY <1>1, <2>3, <3>2 DEF QueueRecorded
  <2>4. CASE p \notin Queued(areas[a])
    <3>1. p = o /\ a = b
      BY <1>0, <2>2, <2>4 DEF Staged
    <3>2. IsCloud(p)
      BY <2>1, <2>2, <3>1 DEF IsCloud
    <3>3. wal'[p] = "json" /\ owner'[p] = ViewerOf[active] /\ tombstones' = tombstones
      BY <1>2, <2>1, <2>2, <3>1, <3>2 DEF Stage, DiskType
    <3>4. entombed' = entombed \cup { r \in {p} :
                       IsCloud(r) /\ << AreaOf[r], ViewerOf[active] >> \in tombstones }
      BY <1>2, <2>1, <3>1, StageEntombs
    <3> QED
      BY <3>2, <3>3, <3>4 DEF Replayable
  <2> QED
    BY <2>3, <2>4
<1>3. CASE ActivateLoad
  BY <1>0, <1>1, <1>3, LoadReplays DEF ActivateLoad, QueueRecorded
<1>4. CASE ActivateInstall
  <2>1. UNCHANGED << wal, tombstones, owner >>
    BY <1>4 DEF ActivateInstall
  <2>2. p \in engine.loaded /\ p \in Ops
    BY <1>4, InstalledQueues DEF TaskType, EngineType
  <2> QED
    BY <2>1, <2>2, QuietSame DEF LoadedReplayable
<1>5. CASE Crash
  BY <1>0, <1>5, EmptyFits DEF Crash
<1>6. CASE Quiet
  <2>1. p \in Queued(areas[a])
    BY <1>0, <1>6 DEF Quiet, SameQueues, Queued
  <2> QED
    BY <1>0, <1>1, <1>6, <2>1, QuietSame DEF Quiet, QueueRecorded
<1>7. ASSUME NEW b \in Areas, NEW o \in Ops, Resolved(b, o)
      PROVE  Replayable(p)' \/ p \in entombed'
  <2>1. p \in Queued(areas[a]) /\ p # o
    BY <1>0, <1>7, ResolvedQueues, QueuedOnce
  <2> QED
    BY <1>0, <1>1, <1>7, <2>1, ResolvedQueues DEF QueueRecorded
<1>8. ASSUME NEW b \in CloudAreas, Deleted(b)
      PROVE  Replayable(p)' \/ p \in entombed'
  <2>1. a # b /\ p \in Queued(areas[a]) /\ b \in Areas
    BY <1>0, <1>8, DeletedQueues
  <2>2. p \in Ops /\ AreaOf[p] # b /\ p \notin Queued(areas[b])
    BY <1>0, <2>1, QueuedOnce
  <2> QED
    BY <1>1, <1>8, <2>1, <2>2, DeletedReplays DEF QueueRecorded
<1> QED
  BY <1>2, <1>3, <1>4, <1>5, <1>6, <1>7, <1>8, JournalShape

LEMMA StepWithdrawn ==
  ASSUME Typed, Arranged, Flight, LoadedReplayable, Withdrawn, [Next]_vars
  PROVE  Withdrawn'
<1>0. cancelled \cup discarded \subseteq Ops
  BY DEF HistoryType
<1>1. CASE Stage
  <2>1. PICK o, b : o = nextOp /\ b = AreaOf[o]
    OBVIOUS
  <2>2. o \in Ops /\ b \in Areas /\ Staged(b, o) /\ nextOp' = o + 1
    BY <1>1, <2>1, StageStaged DEF Stage
  <2>3. UNCHANGED << cancelled, discarded, tombstones >>
    BY <1>1 DEF Stage
  <2>4. ASSUME NEW p \in cancelled \cup discarded
        PROVE  p < nextOp' /\ ~Replayable(p)' /\ \A a \in Areas : p \notin Queued(areas'[a])
    <3>1. p \in Ops /\ p < o /\ p # o
      BY <1>0, <2>1, <2>2 DEF Withdrawn, Ops
    <3>2. p < nextOp'
      BY <2>2, <3>1 DEF Ops
    <3>3. Replayable(p)' <=> Replayable(p)
      BY <1>1, <2>1, <2>2, <3>1 DEF Stage, Replayable, DiskType
    <3>4. \A a \in Areas : p \notin Queued(areas'[a])
      BY <2>2, <3>1 DEF Withdrawn, Staged
    <3> QED
      BY <3>2, <3>3, <3>4 DEF Withdrawn
  <2> QED
    BY <2>3, <2>4 DEF Withdrawn
<1>2. CASE ActivateLoad
  <2>1. UNCHANGED << cancelled, discarded, areas, nextOp >>
    BY <1>2 DEF ActivateLoad
  <2> QED
    BY <1>0, <1>2, <2>1, LoadReplays DEF Withdrawn
<1>3. CASE ActivateInstall
  <2>1. UNCHANGED << cancelled, discarded, nextOp, wal, tombstones, owner >>
    BY <1>3 DEF ActivateInstall
  <2>2. ASSUME NEW a \in Areas, NEW p \in Queued(areas'[a]), p \in cancelled \cup discarded
        PROVE  FALSE
    <3>1. CASE a \in CloudAreas
      BY <1>3, <2>2, <3>1, InstalledQueues DEF LoadedReplayable, Withdrawn
    <3>2. CASE a \notin CloudAreas
      BY <1>3, <2>2, <3>2, InstalledSession DEF Withdrawn
    <3> QED
      BY <3>1, <3>2
  <2> QED
    BY <1>0, <2>1, <2>2, QuietSame DEF Withdrawn
<1>4. CASE Crash
  <2>1. UNCHANGED << cancelled, discarded, nextOp, wal, tombstones, owner >>
    BY <1>4 DEF Crash
  <2>2. \A a \in Areas : Queued(areas'[a]) = {}
    BY <1>4, EmptyFits DEF Crash
  <2> QED
    BY <1>0, <2>1, <2>2, QuietSame DEF Withdrawn
<1>5. CASE Quiet
  <2>1. \A a \in Areas : Queued(areas'[a]) = Queued(areas[a])
    BY <1>5 DEF Quiet, SameQueues, Queued
  <2> QED
    BY <1>0, <1>5, <2>1, QuietSame DEF Quiet, Withdrawn
<1>6. ASSUME NEW a \in Areas, NEW o \in Ops, Resolved(a, o) PROVE Withdrawn'
  <2>1. /\ nextOp' = nextOp
        /\ cancelled' \cup discarded' \subseteq cancelled \cup discarded \cup {o}
    BY <1>6 DEF Resolved
  <2>2. ~Replayable(o)' /\ o < nextOp /\ \A b \in Areas : o \notin Queued(areas'[b])
    BY <1>6, ResolvedQueues, QueuedOnce
  <2>3. \A p \in cancelled \cup discarded :
          p < nextOp /\ ~Replayable(p)' /\ \A b \in Areas : p \notin Queued(areas'[b])
    BY <1>0, <1>6, ResolvedQueues DEF Withdrawn
  <2> QED
    BY <2>1, <2>2, <2>3 DEF Withdrawn
<1>7. ASSUME NEW a \in CloudAreas, Deleted(a) PROVE Withdrawn'
  <2>1. /\ nextOp' = nextOp /\ cancelled' = cancelled
        /\ discarded' = discarded \cup Queued(areas[a])
    BY <1>7, DeletedReplays DEF Deleted
  <2>2. ASSUME NEW p \in Queued(areas[a])
        PROVE  p < nextOp /\ ~Replayable(p)' /\ \A b \in Areas : p \notin Queued(areas'[b])
    <3>1. a \in Areas /\ p \in Ops /\ AreaOf[p] = a /\ p < nextOp
      BY <1>7, DeletedQueues, QueuedOnce
    <3> QED
      BY <1>7, <3>1, DeletedQueues, DeletedReplays, QueuedOnce
  <2>3. \A p \in cancelled \cup discarded :
          p < nextOp /\ ~Replayable(p)' /\ \A b \in Areas : p \notin Queued(areas'[b])
    <3>1. Shrinks
      BY <1>7, DeletedReplays
    <3> QED
      BY <1>0, <1>7, <3>1, DeletedQueues DEF Withdrawn, Shrinks
  <2> QED
    BY <2>1, <2>2, <2>3 DEF Withdrawn
<1> QED
  BY <1>1, <1>2, <1>3, <1>4, <1>5, <1>6, <1>7, JournalShape

-----------------------------------------------------------------------------
\* The queue is the journal, in order.

LEMMA SortedAhead ==
  ASSUME NEW p \in Seq(Ops), NEW q \in Seq(Ops), Sorted(p), Sorted(q),
         NEW m \in 1..Len(p), m \in 1..Len(q),
         \A i \in 1..Len(p) : i < m => p[i] = q[i],
         p[m] \in Members(q), p[m] < q[m]
  PROVE  FALSE
<1>1. PICK j \in 1..Len(q) : q[j] = p[m]
  BY DEF Members
<1>2. p[m] \in Int /\ q[m] \in Int /\ q[j] \in Int
  <2>1. p[m] \in Ops /\ q[m] \in Ops /\ q[j] \in Ops
    OBVIOUS
  <2> QED
    BY <2>1 DEF Ops
<1>3. CASE j < m
  <2>1. j \in 1..Len(p)
    BY <1>3
  <2>2. p[j] = p[m]
    BY <1>1, <1>3, <2>1
  <2>3. j = m
    BY <2>1, <2>2, SortedOnce
  <2> QED
    BY <1>3, <2>3
<1>4. CASE j = m
  BY <1>1, <1>2, <1>4
<1>5. CASE m < j
  <2>1. q[m] < q[j]
    BY <1>5 DEF Sorted
  <2> QED
    BY <1>1, <1>2, <2>1
<1> QED
  BY <1>3, <1>4, <1>5

\* A set of edits has one order.
LEMMA SortedUnique ==
  ASSUME NEW p \in Seq(Ops), NEW q \in Seq(Ops), Sorted(p), Sorted(q), Members(p) = Members(q)
  PROVE  p = q
<1>1. Len(p) = Len(q)
  BY SortedCardinality
<1>2. \A i \in 1..Len(p) : p[i] = q[i]
  <2> SUFFICES ASSUME NEW k \in 1..Len(p), p[k] # q[k] PROVE FALSE
    OBVIOUS
  <2> DEFINE T == { i \in 1..Len(p) : p[i] # q[i] }
  <2>1. T \subseteq Nat /\ T # {}
    OBVIOUS
  <2>2. PICK m \in T : \A n \in T : m <= n
    BY <2>1, LeastOf
  <2>3. m \in 1..Len(p) /\ m \in 1..Len(q) /\ p[m] # q[m]
    BY <1>1, <2>2
  <2>4. \A i \in 1..Len(p) : i < m => p[i] = q[i]
    BY <2>2, <2>3
  <2>5. p[m] \in Members(q) /\ q[m] \in Members(p)
    BY <2>3 DEF Members
  <2>6. p[m] \in Int /\ q[m] \in Int
    <3>1. p[m] \in Ops /\ q[m] \in Ops
      BY <2>3
    <3> QED
      BY <3>1 DEF Ops
  <2>7. p[m] < q[m] \/ q[m] < p[m]
    BY <2>3, <2>6
  <2> HIDE DEF T
  <2>8. CASE p[m] < q[m]
    BY <2>3, <2>4, <2>5, <2>8, SortedAhead
  <2>9. CASE q[m] < p[m]
    <3>1. \A i \in 1..Len(q) : i < m => q[i] = p[i]
      BY <1>1, <2>4
    <3> QED
      BY <2>3, <2>5, <2>9, <3>1, SortedAhead
  <2> QED
    BY <2>7, <2>8, <2>9
<1> QED
  BY <1>1, <1>2

LEMMA QueueIsJournal ==
  ASSUME Typed, Arranged, Held, QueueReplayable
  PROVE  JournalMatchesQueue
<1> SUFFICES ASSUME active # NoGen, NEW a \in CloudAreas
             PROVE  areas[a].queue =
                      InOrder({ o \in Loadable(ViewerOf[active]) : AreaOf[o] = a })
  BY DEF JournalMatchesQueue
<1> DEFINE S == { o \in Loadable(ViewerOf[active]) : AreaOf[o] = a }
<1>1. a \in Areas /\ Queued(areas[a]) \subseteq Ops /\ S \in SUBSET Ops
  BY QueuedOps DEF Loadable
<1>2. Queued(areas[a]) \subseteq S
  BY <1>1, QueuedOnce DEF Held, ActiveHeld, QueueReplayable, Loadable
<1>3. S \subseteq Queued(areas[a])
  BY DEF Held, ActiveHeld
<1>4. areas[a].queue \in Seq(Ops) /\ Sorted(areas[a].queue) /\ Members(areas[a].queue) = S
  BY <1>1, <1>2, <1>3, AreaTyped DEF Arranged, QueueSorted
<1> HIDE DEF S
<1>5. InOrder(S) \in Seq(Ops) /\ Sorted(InOrder(S)) /\ Members(InOrder(S)) = S
  BY <1>1, InOrderMembers
<1>6. areas[a].queue = InOrder(S)
  BY <1>4, <1>5, SortedUnique
<1> QED
  BY <1>6 DEF S

LEMMA DeletedQueue ==
  ASSUME Typed, Arranged, QueueRecorded
  PROVE  DeletedStaysDeleted
<1> SUFFICES ASSUME NEW a \in CloudAreas, NEW o \in Queued(areas[a]),
                    << a, owner[o] >> \in tombstones
             PROVE  o \in entombed
  BY DEF DeletedStaysDeleted
<1>1. a \in Areas /\ AreaOf[o] = a
  BY QueuedOps, QueuedOnce
<1> QED
  BY <1>1 DEF QueueRecorded, Replayable

-----------------------------------------------------------------------------
\* Nothing that left is sent.

LEMMA StepSent ==
  ASSUME Typed, [Next]_vars
  PROVE  sent' = sent \/ \E a \in Areas : WorkerTake(a)
<1>1. CASE Editor \/ Rebuilds
  BY <1>1 DEF Editor, Stage, Publish, Cancel, Retry, Discard, KeepTheirs, KeepMine, Rebuilds,
     RebuildFetch, RebuildApply
<1>2. CASE Worker
  BY <1>2 DEF Worker, WorkerRetire, WorkerRetireFails, WorkerTimer, WorkerIdle, WorkerWake,
     Verdicts, VerdictStale, VerdictOk, VerdictCredential, CredentialChanged,
     VerdictTransport, VerdictHeld, VerdictRefused, VerdictUpgrade, VerdictConflict,
     ConflictFetch, ConflictApply
<1>3. CASE Engine
  BY <1>3 DEF Engine, EngineTick, EngineFail, ActivateLoad, ActivateInstall, EngineAsk,
     EngineRows, EngineAdopt, EngineDone, EngineFetch
<1>4. CASE Deletion
  BY <1>4 DEF Deletion, DeleteBegin, DeletePrepare, DeleteSucceeds, DeleteLeaves,
     DeleteAmbiguous, DeleteAbandon
<1>5. CASE Service
  BY <1>5, ServiceKeeps
<1>6. CASE Process \/ UNCHANGED vars
  BY <1>6 DEF Process, Crash, Restart, Outage, RequestSync, Login, vars
<1> QED
  BY <1>1, <1>2, <1>3, <1>4, <1>5, <1>6 DEF Next

LEMMA StepUnsent ==
  ASSUME Typed, Withdrawn, [Next]_vars
  PROVE  \A o \in cancelled \cup discarded : o \in sent' => o \in sent
<1>1. ASSUME NEW a \in Areas, WorkerTake(a)
      PROVE  \A o \in cancelled \cup discarded : o \in sent' => o \in sent
  <2>1. sent' \subseteq sent \cup {HeadOp(areas[a])}
    BY <1>1 DEF WorkerTake
  <2>2. HeadOp(areas[a]) \in Queued(areas[a])
    <3>1. areas[a] \in AreaType /\ areas[a].queue # << >>
      BY <1>1 DEF WorkerTake, Sendable, HeadOp, QueueType
    <3> QED
      BY <3>1, QueuedType
  <2> QED
    BY <2>1, <2>2 DEF Withdrawn
<1> QED
  BY <1>1, StepSent

LEMMA InitJournal ==
  ASSUME Init
  PROVE  NothingLost /\ LoadedReplayable /\ QueueRecorded /\ Withdrawn /\ NoneEntombed
<1>1. \A a \in Areas : areas[a].queue = << >>
  BY DEF Init, EmptyArea
<1>2. \A a \in Areas : Queued(areas[a]) = {}
  BY <1>1, EmptySorted, QueuedMembers
<1>3. /\ Accepted = {} /\ engine.loaded = {}
      /\ cancelled = {} /\ discarded = {} /\ entombed = {}
  BY DEF Init, IdleEngine, Accepted
<1> QED
  BY <1>2, <1>3 DEF NothingLost, LoadedReplayable, QueueRecorded, Withdrawn,
     NoneEntombed, Areas

-----------------------------------------------------------------------------
\* The theorems about the journal.

LEMMA JournalInvariant == Spec => [](Typed /\ Own /\ Arranged /\ Flight /\ Held)
<1>1. Init => Typed /\ Own /\ Arranged /\ Flight /\ Held
  BY InitTyped, InitOwned, InitArranged, InitFlight, InitHeld
<1>2. Typed /\ Own /\ Arranged /\ Flight /\ Held /\ [Next]_vars =>
        Typed' /\ Own' /\ Arranged' /\ Flight' /\ Held'
  BY StepTyped, StepOwned, StepArranged, StepFlight, StepHeld
<1> HIDE DEF Typed
<1> QED
  BY <1>1, <1>2, PTL DEF Spec

\* Whatever crashes, signs in, is refused, retired late or deleted, every record
\* that a restart would replay for the active account is in the queue on screen:
\* the journal brings nothing back that the user does not see.
THEOREM JournalIsOnScreen == Spec => []ActiveHeld
<1>1. Held => ActiveHeld
  BY DEF Held
<1> QED
  BY <1>1, JournalInvariant, PTL

\* Whatever is retried, read again, signed in or crashed, an accepted edit is
\* replayable, applied, or let go by the user, unless a tombstone of its account's
\* journal already covered its map when it was accepted (commit_delete_intents):
\* nothing else loses an edit.
THEOREM EditsAreKept == Spec => []NothingLost
<1>1. Init => NothingLost
  BY InitJournal
<1>2. Typed /\ Own /\ Arranged /\ Flight /\ Held /\ NothingLost /\ [Next]_vars => NothingLost'
  BY StepNothingLost
<1> HIDE DEF Typed
<1> QED
  BY <1>1, <1>2, JournalInvariant, PTL DEF Spec

\* An edit that left the queue unsent is never sent afterwards, if no activation
\* brings back a record that was retired after the journal had been read.
THEOREM WithdrawnStayUnsent == Spec /\ [][ReadHolds]_vars => LeftUnsentStaysUnsent
<1>1. Init => LoadedReplayable /\ Withdrawn
  BY InitJournal
<1>2. Typed /\ Own /\ Arranged /\ Flight /\ Held /\ LoadedReplayable /\ Withdrawn
        /\ [Next]_vars /\ [ReadHolds]_vars => LoadedReplayable' /\ Withdrawn'
  BY StepLoadedReplayable, StepWithdrawn
<1>3. Typed /\ Withdrawn /\ [Next]_vars =>
        \A o \in cancelled \cup discarded : o \in sent' => o \in sent
  BY StepUnsent
<1>4. Spec /\ [][ReadHolds]_vars => [](Typed /\ LoadedReplayable /\ Withdrawn)
  <2> HIDE DEF Typed
  <2> QED
    BY <1>1, <1>2, JournalInvariant, PTL DEF Spec
<1> HIDE DEF Typed
<1> QED
  BY <1>3, <1>4, PTL DEF Spec, LeftUnsentStaysUnsent

LEMMA RecordInvariant ==
  Spec /\ [][ReadHolds]_vars => [](Typed /\ Arranged /\ Held /\ QueueRecorded)
<1>1. Init => LoadedReplayable /\ QueueRecorded
  BY InitJournal
<1>2. Typed /\ Own /\ Arranged /\ Flight /\ Held /\ LoadedReplayable /\ QueueRecorded
        /\ [Next]_vars /\ [ReadHolds]_vars =>
        LoadedReplayable' /\ QueueRecorded'
  BY StepLoadedReplayable, StepQueueRecorded
<1> HIDE DEF Typed
<1> QED
  BY <1>1, <1>2, JournalInvariant, PTL DEF Spec

\* A committed deletion takes the edits of the map for good: a queued edit that
\* its account's journal holds a tombstone of was accepted after the deletion.
THEOREM DeletionsAreFinal == Spec /\ [][ReadHolds]_vars => []DeletedStaysDeleted
<1>1. Typed /\ Arranged /\ QueueRecorded => DeletedStaysDeleted
  BY DeletedQueue
<1> HIDE DEF Typed
<1> QED
  BY <1>1, RecordInvariant, PTL

LEMMA StepNoneEntombed ==
  ASSUME Typed, NoneEntombed, [Next]_vars, [EditsSpareDeleted]_vars
  PROVE  NoneEntombed'
<1> USE DEF NoneEntombed
<1>1. CASE Stage
  <2>1. PICK o : o = nextOp
    OBVIOUS
  <2>2. nextOp' # nextOp
    BY <1>1 DEF Stage, Ops
  <2>3. EditsSpareDeleted
    BY <2>2 DEF vars
  <2>4. entombed' = entombed \cup { p \in {o} :
                     IsCloud(p) /\ << AreaOf[p], ViewerOf[active] >> \in tombstones }
    BY <1>1, <2>1, StageEntombs
  <2> QED
    BY <2>1, <2>2, <2>3, <2>4 DEF EditsSpareDeleted
<1> QED
  BY <1>1, StepEntombed

LEMMA SparedMaps == Spec /\ [][EditsSpareDeleted]_vars => []NoneEntombed
<1>1. Init => NoneEntombed
  BY InitJournal
<1>2. Typed /\ NoneEntombed /\ [Next]_vars /\ [EditsSpareDeleted]_vars => NoneEntombed'
  BY StepNoneEntombed
<1> HIDE DEF Typed
<1> QED
  BY <1>1, <1>2, JournalInvariant, PTL DEF Spec

LEMMA ReplayInvariant ==
  Spec /\ [][EditsSpareDeleted]_vars /\ [][ReadHolds]_vars =>
    [](Typed /\ Arranged /\ Held /\ QueueReplayable)
<1>1. QueueRecorded /\ NoneEntombed => QueueReplayable
  BY DEF QueueRecorded, QueueReplayable, NoneEntombed
<1> HIDE DEF Typed
<1> QED
  BY <1>1, RecordInvariant, SparedMaps, PTL

\* Under both conditions a map's queue is exactly what the journal replays for
\* the active account, in the same order.
THEOREM QueuesMatchJournal ==
  Spec /\ [][EditsSpareDeleted]_vars /\ [][ReadHolds]_vars => []JournalMatchesQueue
<1>1. Typed /\ Arranged /\ Held /\ QueueReplayable => JournalMatchesQueue
  BY QueueIsJournal
<1> HIDE DEF Typed
<1> QED
  BY <1>1, ReplayInvariant, PTL

-----------------------------------------------------------------------------
\* Revisions: the client never knows one that the service has not reached.

\* The record of a map knows no revision beyond n.
Behind(area, n) == n >= 1 /\ area.confirmed <= n /\ area.phase.rev <= n

AreasDated == \A a \in Areas : Behind(areas[a], srv[a].rev)

\* A request, or a tick, knows only revisions of the maps' past.
WorkerPast(w) ==
  w.area \in Areas =>
    /\ AreaOf[w.op] = w.area
    /\ w.rev <= srv[w.area].rev /\ w.doc.rev <= srv[w.area].rev

EnginePast(e) ==
  /\ \A a \in CloudAreas : e.rows[a] <= srv[a].rev
  /\ e.area \in CloudAreas => e.doc.rev <= srv[e.area].rev

WorkerDated == WorkerPast(worker)
EngineDated == EnginePast(engine)

RebuildsDated == \A r \in rebuilds : r.doc.rev <= srv[r.area].rev

ReceiptsDated == \A o \in Ops : receipts[o] <= srv[AreaOf[o]].rev

NetDated == \A m \in net : m.rev <= srv[AreaOf[m.op]].rev

Dated ==
  AreasDated /\ WorkerDated /\ EngineDated /\ RebuildsDated /\ ReceiptsDated /\ NetDated

-----------------------------------------------------------------------------
\* What the transitions of a queue do to what it knows.

LEMMA PhaseRevs ==
  /\ Ready.rev = NoRev /\ InFlight.rev = NoRev /\ Backoff.rev = NoRev
  /\ \A o : Conflict(o).rev = NoRev
  /\ \A o : Failed(o, TRUE).rev = NoRev /\ Failed(o, FALSE).rev = NoRev
  /\ \A o, rev : AwaitingRetirement(o, rev).rev = rev
  BY DEF Ready, InFlight, Backoff, Conflict, Failed, AwaitingRetirement, Phase

LEMMA BehindFields ==
  ASSUME NEW x, NEW y, NEW n \in Int, Behind(x, n), y.confirmed = x.confirmed,
         y.phase = x.phase \/ y.phase.rev = NoRev
  PROVE  Behind(y, n)
  BY DEF Behind, NoRev

LEMMA BehindLater ==
  ASSUME NEW x \in AreaType, NEW m \in Int, NEW n \in Int, Behind(x, m), m <= n
  PROVE  Behind(x, n)
<1>1. x.confirmed \in Int /\ x.phase.rev \in Int
  BY FieldTypes, PhaseRev DEF Revs
<1> QED
  BY <1>1 DEF Behind

LEMMA ConfirmBehind ==
  ASSUME NEW x \in AreaType, NEW n \in Int, Behind(x, n), NEW rev \in Revs, rev <= n
  PROVE  Behind(Confirm(x, rev), n)
<1>1. CASE rev > x.confirmed
  <2>1. Confirm(x, rev).confirmed = rev /\ Confirm(x, rev).phase = x.phase
    BY <1>1 DEF Confirm, AreaType
  <2> QED
    BY <2>1 DEF Behind
<1>2. CASE ~(rev > x.confirmed)
  BY <1>2 DEF Confirm
<1> QED
  BY <1>1, <1>2

LEMMA ParkBehind ==
  ASSUME NEW x \in AreaType, NEW n \in Int, Behind(x, n), NEW late
  PROVE  Behind(ParkExpiredHead(x, late), n)
<1> DEFINE y == ParkExpiredHead(x, late)
<1>1. y.confirmed = x.confirmed /\ (y.phase = x.phase \/ y.phase = Failed(HeadOp(x), FALSE))
  BY DEF ParkExpiredHead, AreaType
<1> HIDE DEF y
<1>2. Behind(y, n)
  BY <1>1, PhaseRevs, BehindFields
<1> QED
  BY <1>2 DEF y

LEMMA ResumeBehind ==
  ASSUME NEW x \in AreaType, NEW n \in Int, Behind(x, n), NEW late \in SUBSET Ops
  PROVE  Behind(ResumeWithDeferredConflict(x, late), n)
<1> DEFINE opened == [x EXCEPT !.phase = Ready]
           z == ParkExpiredHead(opened, late)
           found == IF x.deferred \in Queued(x) THEN Conflict(x.deferred) ELSE Ready
           y == ResumeWithDeferredConflict(x, late)
<1>0. opened \in AreaType
  BY FieldTypes, PhaseTypes
<1>1. opened \in AreaType /\ opened.confirmed = x.confirmed /\ opened.phase = Ready
  BY <1>0 DEF AreaType
<1>2. Behind(opened, n)
  <2> HIDE DEF opened
  <2> QED
    BY <1>1, PhaseRevs, BehindFields
<1>3. z \in AreaType /\ Behind(z, n)
  <2> HIDE DEF opened
  <2> QED
    BY <1>1, <1>2, ParkType, ParkBehind
<1>4. found.rev = NoRev
  BY PhaseRevs
<1>5. y = z \/ y = [z EXCEPT !.deferred = NoOp, !.phase = found]
  BY DEF ResumeWithDeferredConflict
<1> HIDE DEF z, found, opened
<1>6. y.confirmed = z.confirmed /\ (y.phase = z.phase \/ y.phase = found)
  BY <1>3, <1>5 DEF AreaType
<1> HIDE DEF y
<1>7. Behind(y, n)
  BY <1>3, <1>4, <1>6, BehindFields
<1> QED
  BY <1>7 DEF y

LEMMA RecordBehind ==
  ASSUME NEW x \in AreaType, NEW n \in Int, Behind(x, n), NEW failed
  PROVE  Behind(RecordReplay(x, failed), n)
<1> DEFINE y == RecordReplay(x, failed)
           found == IF failed \in Queued(x) THEN failed ELSE NoOp
<1>1. y.confirmed = x.confirmed /\ (y.phase = x.phase \/ y.phase = Conflict(found))
  <2> HIDE DEF found
  <2> QED
    BY DEF RecordReplay, found, AreaType
<1> HIDE DEF y, found
<1>2. Behind(y, n)
  BY <1>1, PhaseRevs, BehindFields
<1> QED
  BY <1>2 DEF y

LEMMA PopBehind ==
  ASSUME NEW x \in AreaType, NEW n \in Int, Behind(x, n), NEW rev \in Revs, rev <= n,
         NEW late \in SUBSET Ops
  PROVE  Behind(PopAcknowledged(x, rev, late), n)
<1> DEFINE y == [x EXCEPT !.queue = Pop(@)]
<1>0. Pop(x.queue) \in Seq(Ops)
  BY PopType, FieldTypes
<1>1. y \in AreaType /\ y.confirmed = x.confirmed /\ y.phase = x.phase
  BY <1>0 DEF AreaType
<1>2. PopAcknowledged(x, rev, late) = ResumeWithDeferredConflict(Confirm(y, rev), late)
  BY DEF PopAcknowledged
<1> HIDE DEF y
<1>3. Behind(y, n)
  BY <1>1, BehindFields
<1>4. Confirm(y, rev) \in AreaType /\ Behind(Confirm(y, rev), n)
  BY <1>1, <1>3, ConfirmType, ConfirmBehind
<1> QED
  BY <1>2, <1>4, ResumeBehind

LEMMA CancelBehind ==
  ASSUME NEW x \in AreaType, NEW n \in Int, Behind(x, n), NEW o \in Ops, NEW late \in SUBSET Ops
  PROVE  Behind(CancelIn(x, o, late), n)
<1> DEFINE q == Remove(x.queue, o)
           d == IF x.deferred = o THEN NoOp ELSE x.deferred
           removed == [x EXCEPT !.queue = q, !.deferred = d]
           resumed == IF o = HeadOp(x) THEN ResumeWithDeferredConflict(removed, late)
                      ELSE removed
           y == CancelIn(x, o, late)
<1>1. q \in Seq(Ops) /\ d \in Ops \cup {NoOp}
  BY RemoveType DEF AreaType
<1>2. y = IF resumed.phase = Conflict(o) THEN [resumed EXCEPT !.phase = Ready] ELSE resumed
  BY DEF CancelIn
<1> HIDE DEF q, d
<1>3. removed \in AreaType /\ removed.confirmed = x.confirmed /\ removed.phase = x.phase
  BY <1>1 DEF AreaType
<1> HIDE DEF removed
<1>4. Behind(removed, n)
  BY <1>3, BehindFields
<1>5. resumed \in AreaType /\ Behind(resumed, n)
  BY <1>3, <1>4, ResumeType, ResumeBehind
<1> HIDE DEF resumed, y
<1>6. y.confirmed = resumed.confirmed /\ (y.phase = resumed.phase \/ y.phase = Ready)
  BY <1>2, <1>5 DEF AreaType
<1>7. Behind(y, n)
  BY <1>5, <1>6, PhaseRevs, BehindFields
<1> QED
  BY <1>7 DEF y

LEMMA AdoptBehind ==
  ASSUME NEW x \in AreaType, NEW n \in Int, Behind(x, n), NEW doc \in DocType, doc.rev <= n
  PROVE  Behind(Adopt(x, doc), n) /\ Behind(ReplayOver(x, doc), n)
<1>1. Adopt(x, doc) \in AreaType
  BY AdoptType
<1>2. Adopt(x, doc).confirmed = doc.rev /\ Adopt(x, doc).phase = x.phase
  BY DEF Adopt, AreaType
<1>3. Behind(Adopt(x, doc), n)
  BY <1>2 DEF Behind
<1> QED
  BY <1>1, <1>3, RecordBehind DEF ReplayOver

LEMMA BaseBehind ==
  ASSUME NEW x \in AreaType, NEW n \in Int, Behind(x, n), expired \in SUBSET Ops
  PROVE  Behind(BaseLoaded(x), n)
<1> DEFINE opened == [x EXCEPT !.needsBase = FALSE, !.baseFailed = FALSE]
<1>1. opened \in AreaType
  BY FieldTypes
<1>2. opened.confirmed = x.confirmed /\ opened.phase = x.phase
  BY DEF AreaType
<1>3. BaseLoaded(x) = opened \/ BaseLoaded(x) = ResumeWithDeferredConflict(opened, expired)
  BY DEF BaseLoaded
<1> HIDE DEF opened
<1>4. Behind(opened, n)
  BY <1>2, BehindFields
<1> QED
  BY <1>1, <1>3, <1>4, ResumeBehind

LEMMA EmptyBehind ==
  ASSUME NEW n \in Int, n >= 1
  PROVE  Behind(EmptyArea, n) /\ \A area : Behind(GoneArea(area), n)
<1>1. EmptyArea.confirmed = NoRev /\ EmptyArea.phase = Ready
  BY DEF EmptyArea
<1>2. \A area : GoneArea(area).confirmed = NoRev /\ GoneArea(area).phase = Ready
  BY DEF GoneArea, EmptyArea
<1> QED
  BY <1>1, <1>2, PhaseRevs DEF Behind, NoRev

-----------------------------------------------------------------------------
\* The maps after a step know no revision beyond those of before it.

AreasLag == \A a \in Areas : Behind(areas'[a], srv[a].rev)

LEMMA DatedArea ==
  ASSUME Typed, Dated, NEW a \in Areas
  PROVE  /\ areas[a] \in AreaType /\ srv[a].rev \in Int /\ srv[a].rev >= 1
         /\ Behind(areas[a], srv[a].rev)
<1>1. srv[a].rev \in Int
  BY DEF ServiceType, Revs
<1> QED
  BY <1>1, AreaTyped DEF Dated, AreasDated, Behind

LEMMA SameLags == ASSUME Typed, Dated, areas' = areas PROVE AreasLag
  BY DatedArea DEF AreasLag

LEMMA SetLags ==
  ASSUME Typed, Dated, NEW a \in Areas, NEW x, SetArea(a, x), Behind(x, srv[a].rev)
  PROVE  AreasLag
<1>1. areas' = [areas EXCEPT ![a] = x] /\ areas \in [Areas -> AreaType]
  BY DEF SetArea, QueueType
<1> QED
  BY <1>1, DatedArea DEF AreasLag

\* A transition that leaves the revision alone and begins no retirement.
LEMMA SetFields ==
  ASSUME Typed, Dated, NEW a \in Areas, NEW x, SetArea(a, x),
         x.confirmed = areas[a].confirmed,
         x.phase = areas[a].phase \/ x.phase.rev = NoRev
  PROVE  AreasLag
<1>1. Behind(x, srv[a].rev)
  BY DatedArea, BehindFields
<1> QED
  BY <1>1, SetLags

LEMMA EmptiedLags ==
  ASSUME Typed, Dated, NEW a \in Areas, Emptied(a)
  PROVE  AreasLag
  BY DatedArea, EmptyBehind, SetLags DEF Emptied, SetArea

LEMMA EditorLags == ASSUME Typed, Dated, Editor PROVE AreasLag
<1>0. expired \in SUBSET Ops
  BY DEF QueueType
<1>1. CASE Stage
  <2>1. PICK o, a : o = nextOp /\ a = AreaOf[o]
    OBVIOUS
  <2>2. a \in Areas /\ areas' = [areas EXCEPT ![a].queue = Append(@, o)]
    BY <1>1, <2>1, PendingAssumption DEF Stage
  <2>3. SetArea(a, [areas[a] EXCEPT !.queue = Append(@, o)])
    BY <2>2 DEF SetArea
  <2>4. PICK x : x = [areas[a] EXCEPT !.queue = Append(@, o)]
    OBVIOUS
  <2>5. x.confirmed = areas[a].confirmed /\ x.phase = areas[a].phase
    BY <2>2, <2>4, DatedArea DEF AreaType
  <2> QED
    BY <2>2, <2>3, <2>4, <2>5, SetFields
<1>2. CASE Publish \/ \E a \in Areas : KeepMine(a)
  BY <1>2, SameLags DEF Publish, KeepMine
<1>3. ASSUME NEW o \in Ops, Cancel(o) PROVE AreasLag
  <2>1. AreaOf[o] \in Areas /\ SetArea(AreaOf[o], CancelIn(areas[AreaOf[o]], o, expired))
    BY <1>3, PendingAssumption DEF Cancel
  <2> QED
    BY <1>0, <2>1, DatedArea, CancelBehind, SetLags
<1>4. ASSUME NEW a \in Areas, Retry(a) PROVE AreasLag
  <2>1. PICK x : x = [areas[a] EXCEPT !.phase = Ready, !.baseFailed = FALSE]
    OBVIOUS
  <2>2. x.confirmed = areas[a].confirmed /\ x.phase = Ready
    BY <2>1, DatedArea DEF AreaType
  <2>3. SetArea(a, x)
    BY <1>4, <2>1 DEF Retry
  <2> QED
    BY <2>2, <2>3, PhaseRevs, SetFields
<1>5. ASSUME NEW a \in Areas, Discard(a) PROVE AreasLag
  <2>1. PICK q, x : q = Remove(areas[a].queue, areas[a].phase.op)
                    /\ x = [areas[a] EXCEPT !.queue = q]
    OBVIOUS
  <2>2. areas[a].phase.op \in Ops
    BY <1>5, DatedArea, QueuedType DEF Discard
  <2>3. q \in Seq(Ops)
    BY <2>1, <2>2, DatedArea, FieldTypes, RemoveType
  <2>4. x \in AreaType /\ x.confirmed = areas[a].confirmed /\ x.phase = areas[a].phase
    BY <2>1, <2>3, DatedArea DEF AreaType
  <2>5. Behind(x, srv[a].rev)
    BY <2>4, DatedArea, BehindFields
  <2>6. SetArea(a, ResumeWithDeferredConflict(x, expired))
    BY <1>5, <2>1 DEF Discard
  <2> QED
    BY <1>0, <2>4, <2>5, <2>6, DatedArea, ResumeBehind, SetLags
<1>6. ASSUME NEW a \in Areas, KeepTheirs(a) PROVE AreasLag
  <2>1. PICK x : x = [areas[a] EXCEPT !.phase = Ready,
                        !.queue = Remove(areas[a].queue, areas[a].phase.op)]
    OBVIOUS
  <2>2. x.confirmed = areas[a].confirmed /\ x.phase = Ready
    BY <2>1, DatedArea DEF AreaType
  <2>3. SetArea(a, x)
    BY <1>6, <2>1 DEF KeepTheirs
  <2> QED
    BY <2>2, <2>3, PhaseRevs, SetFields
<1> QED
  BY <1>1, <1>2, <1>3, <1>4, <1>5, <1>6 DEF Editor

LEMMA ResendBehind ==
  ASSUME NEW x \in AreaType, NEW n \in Int, Behind(x, n), NEW keep
  PROVE  Behind(ReadyResend(x, keep), n)
<1> DEFINE y == ReadyResend(x, keep)
<1>1. y.confirmed = x.confirmed /\ (y.phase = x.phase \/ y.phase = Ready)
  BY DEF ReadyResend, AreaType
<1> HIDE DEF y
<1>2. Behind(y, n)
  BY <1>1, PhaseRevs, BehindFields
<1> QED
  BY <1>2 DEF y

LEMMA RebuildsLag == ASSUME Typed, Dated, Rebuilds PROVE AreasLag
<1>1. PICK r \in rebuilds : RebuildFetch(r) \/ RebuildApply(r)
  BY DEF Rebuilds
<1> DEFINE a == r.area
<1>2. r \in RebuildType /\ a \in Areas /\ r.doc \in DocType /\ r.doc.rev <= srv[a].rev
  BY DEF TaskType, RebuildType, Dated, RebuildsDated
<1>3. CASE RebuildFetch(r)
  <2>1. areas' = areas \/ SetArea(a, ReadyResend(areas[a], r.keep))
    BY <1>3 DEF RebuildFetch
  <2> QED
    BY <1>2, <2>1, DatedArea, ResendBehind, SetLags, SameLags
<1>4. CASE RebuildApply(r)
  <2>1. PICK x : /\ SetArea(a, ReadyResend(x, r.keep))
                 /\ x = areas[a] \/ x = Adopt(areas[a], r.doc) \/ x = ReplayOver(areas[a], r.doc)
    BY <1>4 DEF RebuildApply
  <2>2. x \in AreaType
    BY <1>2, <2>1, DatedArea, AdoptType, ReplayType
  <2>3. Behind(x, srv[a].rev)
    BY <1>2, <2>1, DatedArea, AdoptBehind
  <2> QED
    BY <1>2, <2>1, <2>2, <2>3, DatedArea, ResendBehind, SetLags
<1> QED
  BY <1>1, <1>3, <1>4

\* A new phase that names no revision.
LEMMA PhaseLags ==
  ASSUME Typed, Dated, NEW a \in Areas, NEW p, p.rev = NoRev,
         SetArea(a, [areas[a] EXCEPT !.phase = p])
  PROVE  AreasLag
<1>1. PICK x : x = [areas[a] EXCEPT !.phase = p]
  OBVIOUS
<1>2. x.confirmed = areas[a].confirmed /\ x.phase = p
  BY <1>1, DatedArea DEF AreaType
<1> QED
  BY <1>1, <1>2, SetFields

\* Maps whose back-off or request is only reopened.
LEMMA ReopenedLags ==
  ASSUME Typed, Dated, NEW S,
         areas' = [a \in Areas |->
           IF a \in S THEN [areas[a] EXCEPT !.phase = Ready] ELSE areas[a]]
  PROVE  AreasLag
<1> SUFFICES ASSUME NEW a \in Areas PROVE Behind(areas'[a], srv[a].rev)
  BY DEF AreasLag
<1>1. PICK y : y = [areas[a] EXCEPT !.phase = Ready]
  OBVIOUS
<1>2. y.confirmed = areas[a].confirmed /\ y.phase = Ready
  BY <1>1, DatedArea DEF AreaType
<1>3. Behind(y, srv[a].rev)
  BY <1>2, DatedArea, PhaseRevs, BehindFields
<1>4. areas'[a] = areas[a] \/ areas'[a] = y
  BY <1>1
<1> QED
  BY <1>3, <1>4, DatedArea

LEMMA CredentialLags ==
  ASSUME Typed, Dated, worker.area \in Areas, CredentialChanged
  PROVE  AreasLag
<1>1. areas' = areas \/ areas' = [areas EXCEPT ![worker.area].phase = Ready]
  BY DEF CredentialChanged
<1>2. areas' = areas \/ SetArea(worker.area, [areas[worker.area] EXCEPT !.phase = Ready])
  BY <1>1 DEF SetArea
<1> QED
  BY <1>2, SameLags, PhaseLags, PhaseRevs

LEMMA TransportLags ==
  ASSUME Typed, Dated, worker.area \in Areas, TransportFailure
  PROVE  AreasLag
<1>1. \/ areas' = areas
      \/ SetArea(worker.area, [areas[worker.area] EXCEPT !.phase = Failed(worker.op, TRUE)])
      \/ SetArea(worker.area, [areas[worker.area] EXCEPT !.phase = Backoff])
  BY DEF TransportFailure
<1> QED
  BY <1>1, SameLags, PhaseLags, PhaseRevs

LEMMA WorkerLags == ASSUME Typed, Dated, Worker PROVE AreasLag
<1>0. expired \in SUBSET Ops
  BY DEF QueueType
<1>1. ASSUME NEW a \in Areas, WorkerRetire(a) PROVE AreasLag
  <2>1. SetArea(a, PopAcknowledged(areas[a], areas[a].phase.rev, expired))
    BY <1>1 DEF WorkerRetire
  <2>2. areas[a].phase.rev \in Revs /\ areas[a].phase.rev <= srv[a].rev
    BY DatedArea, FieldTypes, PhaseRev DEF Behind
  <2> QED
    BY <1>0, <2>1, <2>2, DatedArea, PopBehind, SetLags
<1>2. ASSUME NEW a \in Areas, WorkerRetireFails(a) \/ WorkerTimer(a) PROVE AreasLag
  BY <1>2, SameLags DEF WorkerRetireFails, WorkerTimer
<1>3. ASSUME NEW a \in Areas, WorkerTake(a) PROVE AreasLag
  BY <1>3, PhaseLags, PhaseRevs DEF WorkerTake
<1>4. CASE WorkerIdle
  <2>1. PICK S : areas' = [a \in Areas |->
                   IF a \in S THEN [areas[a] EXCEPT !.phase = Ready] ELSE areas[a]]
    BY <1>4 DEF WorkerIdle
  <2> QED
    BY <2>1, ReopenedLags
<1>5. CASE WorkerWake \/ VerdictStale
  BY <1>5, SameLags DEF WorkerWake, VerdictStale
<1>6. CASE Verdicts /\ ~VerdictStale
  <2>0. worker.area \in Areas /\ worker.op \in Ops /\ worker.rev \in Revs /\ worker.doc \in DocType
    BY <1>6, WorkerInHand DEF Verdicts, VerdictOk, VerdictCredential, VerdictTransport,
       VerdictHeld, VerdictRefused, VerdictUpgrade, VerdictConflict, ConflictFetch,
       ConflictApply
  <2>1. worker.rev <= srv[worker.area].rev /\ worker.doc.rev <= srv[worker.area].rev
    BY <2>0 DEF Dated, WorkerDated, WorkerPast, WorkerPast
  <2>2. CASE VerdictOk
    <3>1. \/ SetArea(worker.area, PopAcknowledged(areas[worker.area], worker.rev, expired))
          \/ SetArea(worker.area, [areas[worker.area] EXCEPT
                       !.phase = AwaitingRetirement(worker.op, worker.rev)])
      BY <2>2 DEF VerdictOk
    <3>2. PICK x : x = [areas[worker.area] EXCEPT
                          !.phase = AwaitingRetirement(worker.op, worker.rev)]
      OBVIOUS
    <3>3. /\ x.confirmed = areas[worker.area].confirmed
          /\ x.phase = AwaitingRetirement(worker.op, worker.rev)
      BY <2>0, <3>2, DatedArea DEF AreaType
    <3>4. Behind(x, srv[worker.area].rev)
      BY <2>0, <2>1, <3>3, DatedArea, PhaseRevs DEF Behind
    <3> QED
      BY <1>0, <2>0, <2>1, <3>1, <3>2, <3>4, DatedArea, PopBehind, SetLags
  <2>3. CASE VerdictCredential \/ VerdictConflict
    BY <2>0, <2>3, CredentialLags, SameLags DEF VerdictCredential, VerdictConflict
  <2>4. CASE VerdictTransport
    BY <2>0, <2>4, TransportLags DEF VerdictTransport
  <2>5. CASE VerdictHeld
    BY <2>0, <2>5, PhaseLags, PhaseRevs DEF VerdictHeld
  <2>6. CASE VerdictRefused
    BY <2>0, <2>6, PhaseLags, PhaseRevs DEF VerdictRefused
  <2>7. CASE VerdictUpgrade
    <3>1. PICK S : S = { a \in Areas : areas[a].phase = InFlight /\ a \in CloudAreas }
      OBVIOUS
    <3>2. areas' = [a \in Areas |->
                     IF a \in S THEN [areas[a] EXCEPT !.phase = Ready] ELSE areas[a]]
      BY <2>7, <3>1 DEF VerdictUpgrade
    <3> QED
      BY <3>2, ReopenedLags
  <2>8. CASE ConflictFetch
    BY <2>0, <2>8, CredentialLags, TransportLags, SameLags DEF ConflictFetch
  <2>9. CASE ConflictApply
    <3>1. PICK x : x = [areas[worker.area] EXCEPT !.phase = Ready]
      OBVIOUS
    <3>2. \/ CredentialChanged \/ areas' = areas
          \/ SetArea(worker.area, ReplayOver(x, worker.doc))
      BY <2>9, <3>1 DEF ConflictApply
    <3>3. x \in AreaType
      BY <2>0, <3>1, DatedArea, FieldTypes, PhaseTypes
    <3>4. x.confirmed = areas[worker.area].confirmed /\ x.phase = Ready
      BY <2>0, <3>1, DatedArea DEF AreaType
    <3>5. Behind(x, srv[worker.area].rev)
      BY <2>0, <3>4, DatedArea, PhaseRevs, BehindFields
    <3>6. Behind(ReplayOver(x, worker.doc), srv[worker.area].rev)
      BY <2>0, <2>1, <3>3, <3>5, DatedArea, AdoptBehind
    <3> QED
      BY <2>0, <3>2, <3>6, CredentialLags, SameLags, SetLags
  <2> QED
    BY <1>6, <2>2, <2>3, <2>4, <2>5, <2>6, <2>7, <2>8, <2>9 DEF Verdicts
<1> QED
  BY <1>1, <1>2, <1>3, <1>4, <1>5, <1>6 DEF Worker

LEMMA InstallLags == ASSUME Typed, Dated, ActivateInstall PROVE AreasLag
<1> SUFFICES ASSUME NEW a \in Areas PROVE Behind(areas'[a], srv[a].rev)
  BY DEF AreasLag
<1>1. PICK gone : gone = { b \in CloudAreas : areas[b].queue # << >> }
  OBVIOUS
<1>2. PICK x : x = IF a \in gone THEN GoneArea(areas[a]) ELSE areas[a]
  OBVIOUS
<1>3. PICK q : q = InOrder(LoadedOf(a))
  OBVIOUS
<1>4. PICK y : y = [x EXCEPT !.queue = q, !.needsBase = TRUE]
  OBVIOUS
<1>5. \/ areas'[a] = x
      \/ \E late : areas'[a] = ParkExpiredHead(y, late)
  BY <1>1, <1>2, <1>3, <1>4 DEF ActivateInstall, LoadedOf
<1>6. x \in AreaType /\ Behind(x, srv[a].rev)
  BY <1>2, DatedArea, GoneTyped, EmptyBehind
<1>7. q \in Seq(Ops)
  <2>1. LoadedOf(a) \in SUBSET Ops
    BY DEF LoadedOf, TaskType, EngineType
  <2> QED
    BY <1>3, <2>1, InOrderMembers
<1>8. y \in AreaType /\ y.confirmed = x.confirmed /\ y.phase = x.phase
  BY <1>4, <1>6, <1>7 DEF AreaType
<1>9. Behind(y, srv[a].rev)
  BY <1>6, <1>8, DatedArea, BehindFields
<1> QED
  BY <1>5, <1>6, <1>8, <1>9, DatedArea, ParkBehind

LEMMA EngineLags == ASSUME Typed, Dated, Engine PROVE AreasLag
<1>0. expired \in SUBSET Ops /\ CloudAreas \subseteq Areas
  BY DEF QueueType, Areas
<1>1. CASE EngineTick \/ EngineFail \/ ActivateLoad \/ EngineAsk \/ EngineDone
  BY <1>1, SameLags DEF EngineTick, EngineFail, ActivateLoad, EngineAsk, EngineDone
<1>2. CASE EngineRows
  <2>1. areas' = areas \/ \A a \in Areas :
          \/ areas'[a] = areas[a]
          \/ (a \in CloudAreas /\ areas'[a] = Confirm(areas[a], engine.rows[a]))
    BY <1>2 DEF EngineRows
  <2>2. \A a \in CloudAreas : engine.rows[a] \in Revs /\ engine.rows[a] <= srv[a].rev
    BY DEF Dated, EngineDated, EnginePast, TaskType, EngineType
  <2>3. \A a \in CloudAreas : Behind(Confirm(areas[a], engine.rows[a]), srv[a].rev)
    BY <1>0, <2>2, DatedArea, ConfirmBehind
  <2> QED
    BY <2>1, <2>3, DatedArea DEF AreasLag
<1>3. CASE EngineAdopt
  <2>1. PICK a : a = engine.area
    OBVIOUS
  <2>2. a \in CloudAreas /\ a \in Areas /\ engine.doc \in DocType /\ engine.doc.rev <= srv[a].rev
    BY <1>0, <1>3, <2>1 DEF EngineAdopt, InHand, Dated, EngineDated, EnginePast, TaskType, EngineType
  <2>3. areas' = areas \/ SetArea(a, BaseLoaded(ReplayOver(areas[a], engine.doc)))
    BY <1>3, <2>1 DEF EngineAdopt
  <2>4. ReplayOver(areas[a], engine.doc) \in AreaType
    BY <2>2, DatedArea, ReplayType
  <2>5. Behind(ReplayOver(areas[a], engine.doc), srv[a].rev)
    BY <2>2, DatedArea, AdoptBehind
  <2> QED
    BY <1>0, <2>2, <2>3, <2>4, <2>5, DatedArea, BaseBehind, SetLags, SameLags
<1>4. ASSUME NEW a \in CloudAreas, EngineFetch(a) PROVE AreasLag
  <2>1. areas' = areas \/ RecoverUnavailable(a)
    BY <1>4 DEF EngineFetch
  <2>2. CASE RecoverUnavailable(a)
    <3>1. PICK x : x = [areas[a] EXCEPT
                          !.baseFailed = TRUE, !.phase = Failed(HeadOp(areas[a]), TRUE)]
      OBVIOUS
    <3>2. areas' = areas \/ SetArea(a, x) \/ Emptied(a)
      BY <2>2, <3>1 DEF RecoverUnavailable, CommitDelete, Emptied, SetArea
    <3>3. x.confirmed = areas[a].confirmed /\ x.phase = Failed(HeadOp(areas[a]), TRUE)
      BY <1>0, <3>1, DatedArea DEF AreaType
    <3> QED
      BY <1>0, <3>2, <3>3, PhaseRevs, SameLags, SetFields, EmptiedLags
  <2> QED
    BY <2>1, <2>2, SameLags
<1>5. CASE ActivateInstall
  BY <1>5, InstallLags
<1> QED
  BY <1>1, <1>2, <1>3, <1>4, <1>5 DEF Engine

LEMMA DeletionLags == ASSUME Typed, Dated, Deletion PROVE AreasLag
<1>1. CASE DeleteSucceeds
  <2>1. del.area \in Areas /\ Emptied(del.area)
    BY <1>1 DEF DeleteSucceeds, InHand, CommitDelete, SetArea, Emptied, Areas
  <2> QED
    BY <2>1, EmptiedLags
<1>2. CASE DeleteAmbiguous
  <2>1. PICK x : x = [areas[del.area] EXCEPT !.needsBase = TRUE]
    OBVIOUS
  <2>2. del.area \in Areas /\ SetArea(del.area, x)
    BY <1>2, <2>1 DEF DeleteAmbiguous, InHand, Areas
  <2>3. x.confirmed = areas[del.area].confirmed /\ x.phase = areas[del.area].phase
    BY <2>1, <2>2, DatedArea DEF AreaType
  <2> QED
    BY <2>2, <2>3, SetFields
<1>3. CASE areas' = areas
  BY <1>3, SameLags
<1> QED
  BY <1>1, <1>2, <1>3 DEF Deletion, DeleteBegin, DeletePrepare, DeleteLeaves, DeleteAbandon

LEMMA StepLags == ASSUME Typed, Dated, [Next]_vars PROVE AreasLag
<1>1. CASE Service
  BY <1>1, ServiceKeeps, SameLags
<1>2. CASE Crash
  BY <1>2, DatedArea, EmptyBehind DEF Crash, AreasLag
<1>3. CASE Restart \/ Outage \/ RequestSync \/ Login \/ UNCHANGED vars
  BY <1>3, SameLags DEF Restart, Outage, RequestSync, Login, vars
<1> QED
  BY <1>1, <1>2, <1>3, EditorLags, RebuildsLag, WorkerLags, EngineLags, DeletionLags
     DEF Next, Process

-----------------------------------------------------------------------------
\* The service: a map's log and revision move together, or the revision alone.

Moves ==
  \A a \in Areas :
    \/ srv'[a].rev = srv[a].rev /\ srv'[a].log = srv[a].log
    \/ srv'[a].rev = srv[a].rev + 1

\* The service applies the edit of a request.
Applies1(m) ==
  /\ m \in net /\ receipts[m.op] = NoRev /\ m.rev = srv[AreaOf[m.op]].rev
  /\ srv' = [srv EXCEPT ![AreaOf[m.op]].rev = @ + 1, ![AreaOf[m.op]].log = Append(@, m.op)]

SameDocuments == \A a \in Areas : srv'[a].log = srv[a].log

LEMMA StepServed ==
  ASSUME Typed, [Next]_vars
  PROVE  /\ Moves
         /\ SameDocuments \/ (\E m \in net : Applies1(m) /\ ServiceHandles(m))
<1>0. \A o \in Ops : AreaOf[o] \in Areas
  BY PendingAssumption
<1>1. ASSUME srv' = srv PROVE Moves /\ SameDocuments
  BY <1>1 DEF Moves, SameDocuments
<1>2. CASE Editor \/ Rebuilds
  BY <1>1, <1>2 DEF Editor, Stage, Publish, Cancel, Retry, Discard, KeepTheirs, KeepMine,
     Rebuilds, RebuildFetch, RebuildApply
<1>3. CASE Worker
  BY <1>1, <1>3 DEF Worker, WorkerRetire, WorkerRetireFails, WorkerTake, WorkerTimer,
     WorkerIdle, WorkerWake, Verdicts, VerdictStale, VerdictOk, VerdictCredential,
     CredentialChanged, VerdictTransport, VerdictHeld, VerdictRefused, VerdictUpgrade,
     VerdictConflict, ConflictFetch, ConflictApply
<1>4. CASE Engine \/ Deletion
  BY <1>1, <1>4, EngineJournal, DeletionJournal
<1>5. CASE Crash
  BY <1>5 DEF Crash, Moves, SameDocuments, ServiceType
<1>6. CASE Restart \/ Outage \/ RequestSync \/ Login \/ UNCHANGED vars
  BY <1>1, <1>6 DEF Restart, Outage, RequestSync, Login, vars
<1>7. ASSUME NEW m \in net, ServiceHandles(m)
      PROVE  Moves /\ (SameDocuments \/ (Applies1(m) /\ ServiceHandles(m)))
  <2>1. PICK o, a : o = m.op /\ a = AreaOf[o]
    OBVIOUS
  <2>2. srv' = srv \/ Applies1(m)
    BY <1>7 DEF ServiceHandles, Applies1
  <2>3. CASE Applies1(m)
    <3>1. srv' = [srv EXCEPT ![a].rev = @ + 1, ![a].log = Append(@, o)]
      BY <2>1, <2>3 DEF Applies1
    <3>2. Moves
      BY <3>1 DEF Moves, ServiceType
    <3> QED
      BY <1>7, <2>3, <3>2
  <2> QED
    BY <1>1, <2>2, <2>3
<1>8. ASSUME NEW a \in CloudAreas, ServiceDeletes(a) \/ ForeignEdit(a) PROVE Moves /\ SameDocuments
  <2>1. a \in Areas
    BY DEF Areas
  <2>2. \A b \in Areas : srv'[b].log = srv[b].log /\ srv'[b].rev \in {srv[b].rev, srv[b].rev + 1}
    <3>1. CASE ServiceDeletes(a)
      <4>1. PICK e : srv' = [srv EXCEPT ![a].exists = e]
        BY <3>1 DEF ServiceDeletes
      <4> QED
        BY <2>1, <4>1 DEF ServiceType
    <3>2. CASE ForeignEdit(a)
      <4>1. PICK B : srv' = [srv EXCEPT ![a].rev = @ + 1, ![a].broken = B]
        BY <3>2 DEF ForeignEdit
      <4> QED
        BY <2>1, <4>1 DEF ServiceType
    <3> QED
      BY <1>8, <3>1, <3>2
  <2> QED
    BY <2>2 DEF Moves, SameDocuments
<1>9. ASSUME srv' = srv PROVE Moves /\ SameDocuments
  BY <1>1, <1>9
<1>10. CASE Service
  <2>1. CASE RequestTimesOut \/ (\E m \in net, e \in Events : ServiceRefuses(m, e))
             \/ \E a \in CloudAreas : AccessChanges(a)
    BY <1>9, <2>1 DEF RequestTimesOut, ServiceRefuses, AccessChanges
  <2> QED
    BY <1>7, <1>8, <1>10, <2>1 DEF Service
<1> QED
  BY <1>2, <1>3, <1>4, <1>5, <1>6, <1>10 DEF Next, Process

LEMMA RevsGrow ==
  ASSUME Typed, Moves
  PROVE  \A a \in Areas :
           srv[a].rev \in Int /\ srv'[a].rev \in Int /\ srv[a].rev <= srv'[a].rev
  BY DEF Moves, ServiceType, Revs

-----------------------------------------------------------------------------
\* What the tasks carry.

LEMMA DatedNumbers ==
  ASSUME Typed, Dated
  PROVE  /\ NoRev \in Int /\ NoArea \notin Areas /\ CloudAreas \subseteq Areas
         /\ \A a \in Areas : srv[a].rev \in Int /\ NoRev <= srv[a].rev /\ 0 <= srv[a].rev
         /\ \A a \in Areas : Doc(a).rev = srv[a].rev
         /\ NoDoc.rev = NoRev /\ \A a \in CloudAreas : NoRows[a] = NoRev
  BY PendingAssumption
     DEF NoRev, Areas, Dated, AreasDated, Behind, ServiceType, Revs, Doc, NoDoc, NoRows

\* The worker takes the head, with what the client knows of the map.
LEMMA TakesHead ==
  ASSUME Typed, Arranged, Dated, NEW a \in Areas, WorkerTake(a)
  PROVE  LET o == HeadOp(areas[a]) IN
         /\ o \in Ops /\ o \in Queued(areas[a]) /\ AreaOf[o] = a /\ areas[a].queue # << >>
         /\ \E rev \in Int :
              /\ rev <= srv[a].rev
              /\ worker'.area = a /\ worker'.op = o /\ worker'.rev = rev /\ worker'.doc = NoDoc
              /\ \/ net' = net
                 \/ /\ net' = net \cup {[op |-> o, rev |-> rev, gen |-> gen[o]]}
                    /\ IsCloud(o) => cred = gen[o]
<1> DEFINE o == HeadOp(areas[a])
<1>1. areas[a].queue # << >> /\ o # NoOp
  BY DEF WorkerTake, Sendable, HeadOp
<1>2. o \in Ops /\ o \in Queued(areas[a])
  BY <1>1, DatedArea, QueuedType
<1>3. AreaOf[o] = a
  BY <1>2 DEF Arranged, QueueMade
<1>4. PICK rev : rev = IF areas[a].confirmed = NoRev THEN 0 ELSE areas[a].confirmed
  OBVIOUS
<1>5. rev \in Int /\ rev <= srv[a].rev
  <2>1. areas[a].confirmed \in Int
    BY DatedArea, FieldTypes DEF Revs
  <2> QED
    BY <1>4, <2>1, DatedNumbers, DatedArea DEF Behind
<1>6. /\ worker'.area = a /\ worker'.op = o /\ worker'.rev = rev /\ worker'.doc = NoDoc
      /\ \/ net' = net
         \/ /\ net' = net \cup {[op |-> o, rev |-> rev, gen |-> gen[o]]}
            /\ IsCloud(o) => cred = gen[o]
  BY <1>4 DEF WorkerTake, IdleWorker
<1> HIDE DEF o
<1> QED
  BY <1>1, <1>2, <1>3, <1>5, <1>6 DEF o

LEMMA WorkerPasts == ASSUME Typed, Arranged, Dated, Worker PROVE WorkerPast(worker')
<1>0. \A w : w.area = NoArea => WorkerPast(w)
  BY PendingAssumption DEF WorkerPast
<1>1. WorkerDone => WorkerPast(worker')
  BY <1>0 DEF WorkerDone, IdleWorker
<1>2. \A w : w.area = worker.area /\ w.op = worker.op /\ w.rev = worker.rev
             /\ (w.doc = worker.doc \/ (worker.area \in Areas /\ w.doc = Doc(worker.area)))
             => WorkerPast(w)
  BY DatedNumbers DEF Dated, WorkerDated, WorkerPast
<1>3. worker \in WorkerType
  BY WorkerInHand
<1>4. ASSUME NEW a \in Areas, WorkerRetire(a) \/ WorkerRetireFails(a) PROVE WorkerPast(worker')
  <2>1. worker' = [worker EXCEPT !.due = @ \ {a}]
    BY <1>4 DEF WorkerRetire, WorkerRetireFails
  <2> QED
    BY <1>2, <1>3, <2>1 DEF WorkerType
<1>5. ASSUME NEW a \in Areas, WorkerTake(a) PROVE WorkerPast(worker')
  BY <1>5, TakesHead, DatedNumbers DEF WorkerPast
<1>6. ASSUME NEW a \in Areas, WorkerTimer(a) PROVE WorkerPast(worker')
  BY <1>0, <1>6 DEF WorkerTimer, IdleWorker
<1>7. CASE WorkerIdle
  <2>1. worker'.area = NoArea
    BY <1>7 DEF WorkerIdle, IdleWorker
  <2> QED
    BY <1>0, <2>1
<1>8. CASE CredentialChanged
  BY <1>1, <1>8 DEF CredentialChanged
<1>9. CASE VerdictConflict
  <2>1. CredentialChanged \/ worker' = [worker EXCEPT !.at = "refetch", !.reply = "none"]
    BY <1>9 DEF VerdictConflict
  <2> QED
    BY <1>2, <1>3, <1>8, <2>1 DEF WorkerType
<1>10. CASE ConflictFetch
  <2>1. worker.area \in Areas
    BY <1>10, WorkerInHand DEF ConflictFetch
  <2>2. \/ CredentialChanged \/ WorkerDone
        \/ worker' = [worker EXCEPT !.doc = Doc(worker.area), !.reply = "doc"]
    BY <1>10 DEF ConflictFetch
  <2> QED
    BY <1>1, <1>2, <1>3, <1>8, <2>1, <2>2 DEF WorkerType
<1>11. CASE ConflictApply
  BY <1>1, <1>8, <1>11 DEF ConflictApply
<1>12. CASE Verdicts
  BY <1>1, <1>8, <1>9, <1>10, <1>11, <1>12 DEF Verdicts, VerdictStale, VerdictOk,
     VerdictCredential, VerdictTransport, VerdictHeld, VerdictRefused, VerdictUpgrade
<1> QED
  BY <1>1, <1>4, <1>5, <1>6, <1>7, <1>12 DEF Worker, WorkerWake

LEMMA EnginePasts == ASSUME Typed, Dated, Engine PROVE EnginePast(engine')
<1>0. engine \in EngineType
  BY DEF TaskType
<1>1. \A e : e.rows = engine.rows /\ (e.area = NoArea \/ (e.area = engine.area /\ e.doc = engine.doc))
            => EnginePast(e)
  BY DatedNumbers DEF Dated, EngineDated, EnginePast
<1>2. \A e : e.rows = NoRows /\ e.area = NoArea => EnginePast(e)
  BY DatedNumbers DEF EnginePast
<1>3. \A g : IdleEngine(g).rows = NoRows /\ IdleEngine(g).area = NoArea
  BY DEF IdleEngine
<1>4. EngineIdle => EnginePast(engine')
  BY <1>2, <1>3 DEF EngineIdle
<1>5. CASE EngineTick \/ EngineFail
  BY <1>0, <1>1, <1>2, <1>3, <1>5 DEF EngineTick, EngineFail, IdleEngine, EngineType
<1>6. CASE ActivateLoad \/ ActivateInstall
  <2>1. EngineIdle \/ (engine'.rows = engine.rows /\ engine'.area = engine.area
                        /\ engine'.doc = engine.doc)
    BY <1>0, <1>6 DEF ActivateLoad, ActivateInstall, EngineType
  <2> QED
    BY <1>1, <1>4, <2>1
<1>7. CASE EngineAsk
  <2>1. PICK rows : rows = [a \in CloudAreas |-> IF Visible(a) THEN srv[a].rev ELSE NoRev]
    OBVIOUS
  <2>2. engine'.rows = rows /\ engine'.area = engine.area /\ engine'.doc = engine.doc
    BY <1>0, <1>7, <2>1 DEF EngineAsk, EngineType
  <2>3. \A a \in CloudAreas : rows[a] <= srv[a].rev
    BY <2>1, DatedNumbers
  <2> QED
    BY <2>2, <2>3 DEF Dated, EngineDated, EnginePast
<1>8. CASE EngineRows
  BY <1>0, <1>1, <1>2, <1>3, <1>8 DEF EngineRows, IdleEngine, EngineType
<1>9. ASSUME NEW a \in CloudAreas, EngineFetch(a) PROVE EnginePast(engine')
  <2>1. \/ EngineIdle
        \/ engine'.rows = engine.rows /\ engine'.area = engine.area /\ engine'.doc = engine.doc
        \/ engine'.rows = engine.rows /\ engine'.area = a /\ engine'.doc = Doc(a)
    BY <1>0, <1>9 DEF EngineFetch, EngineSkips, EngineType
  <2>2. engine'.rows = engine.rows /\ engine'.area = a /\ engine'.doc = Doc(a) =>
          EnginePast(engine')
    BY DatedNumbers DEF Dated, EngineDated, EnginePast
  <2> QED
    BY <1>1, <1>4, <2>1, <2>2
<1>10. CASE EngineAdopt
  <2>1. EngineIdle \/ (engine'.rows = engine.rows /\ engine'.area = NoArea)
    BY <1>0, <1>10 DEF EngineAdopt, EngineType
  <2> QED
    BY <1>1, <1>4, <2>1
<1>11. CASE EngineDone
  BY <1>2, <1>3, <1>11 DEF EngineDone, IdleEngine
<1> QED
  BY <1>5, <1>6, <1>7, <1>8, <1>9, <1>10, <1>11 DEF Engine

LEMMA AnswerPasts ==
  ASSUME Typed, Dated, NEW m \in net, NEW reply, NEW rev \in Int, Answer(m, reply, rev),
         NEW n \in Int, rev <= n, srv[AreaOf[m.op]].rev <= n
  PROVE  /\ worker'.area = worker.area /\ worker'.op = worker.op /\ worker'.doc = worker.doc
         /\ worker' = worker \/ (worker.op = m.op /\ worker'.rev \in {worker.rev, rev})
<1>1. worker \in WorkerType
  BY WorkerInHand
<1> QED
  BY <1>1 DEF Answer, WorkerType

LEMMA ServedWorker ==
  ASSUME Typed, Typed', Dated, Moves, NEW m \in net, ServiceHandles(m) PROVE WorkerDated'
<1>1. PICK o, a : o = m.op /\ a = AreaOf[o]
  OBVIOUS
<1>2. o \in Ops /\ a \in Areas /\ receipts[o] \in Int /\ NoRev \in Int
  BY <1>1, PendingAssumption DEF ServiceType, Revs, NoRev
<1>3. srv[a].rev \in Int /\ srv'[a].rev \in Int /\ srv[a].rev <= srv'[a].rev
  BY <1>2, RevsGrow
<1>4. receipts[o] <= srv[a].rev /\ NoRev <= srv[a].rev
  BY <1>1, <1>2, DatedNumbers DEF Dated, ReceiptsDated
<1>5. \/ Answer(m, "ok", srv[a].rev + 1) /\ srv' = [srv EXCEPT ![a].rev = @ + 1, ![a].log = Append(@, o)]
      \/ \E reply : \E rev \in {NoRev, receipts[o]} : Answer(m, reply, rev)
  BY <1>1 DEF ServiceHandles
<1>6. \E reply : \E rev \in Int : Answer(m, reply, rev) /\ rev <= srv'[a].rev
  <2>1. CASE srv' = [srv EXCEPT ![a].rev = @ + 1, ![a].log = Append(@, o)]
    <3>1. srv'[a].rev = srv[a].rev + 1
      BY <1>2, <2>1 DEF ServiceType
    <3> QED
      BY <1>2, <1>3, <1>4, <1>5, <3>1
  <2> QED
    BY <1>2, <1>3, <1>4, <1>5, <2>1
<1>7. PICK reply : \E rev \in Int : Answer(m, reply, rev) /\ rev <= srv'[a].rev
  BY <1>6
<1>71. PICK rev \in Int : Answer(m, reply, rev) /\ rev <= srv'[a].rev
  BY <1>7
<1>8. /\ worker'.area = worker.area /\ worker'.op = worker.op /\ worker'.doc = worker.doc
      /\ worker' = worker \/ (worker.op = m.op /\ worker'.rev \in {worker.rev, rev})
  BY <1>1, <1>3, <1>71, AnswerPasts
<1>9. worker.rev \in Int /\ worker.doc.rev \in Int
  BY WorkerInHand DEF DocType, Revs
<1> QED
  BY <1>1, <1>2, <1>71, <1>8, <1>9, RevsGrow DEF Dated, WorkerDated, WorkerPast

LEMMA StepWorkerDated ==
  ASSUME Typed, Typed', Arranged, Dated, Moves, [Next]_vars PROVE WorkerDated'
<1>1. WorkerPast(worker') => WorkerDated'
  <2>1. worker' \in WorkerType
    BY DEF TaskType
  <2>2. worker'.rev \in Int /\ worker'.doc.rev \in Int
    BY <2>1 DEF WorkerType, DocType, Revs
  <2> QED
    BY <2>2, RevsGrow DEF WorkerDated, WorkerPast
<1>2. worker' = worker => WorkerPast(worker')
  BY DEF Dated, WorkerDated
<1>3. CASE Editor
  BY <1>1, <1>2, <1>3 DEF Editor, Stage, Publish, Cancel, Retry, Discard, KeepTheirs, KeepMine
<1>4. CASE Engine \/ Deletion \/ Rebuilds
  BY <1>1, <1>2, <1>4, EngineJournal, DeletionJournal, RebuildsSteady
<1>5. CASE Worker
  BY <1>1, <1>5, WorkerPasts
<1>6. CASE Crash
  BY <1>1, <1>6, PendingAssumption DEF Crash, IdleWorker, WorkerPast
<1>7. CASE Restart \/ Outage \/ RequestSync \/ Login \/ UNCHANGED vars
  BY <1>1, <1>2, <1>7 DEF Restart, Outage, RequestSync, Login, vars
<1>8. CASE Service
  <2>1. ASSUME NEW m \in net, NEW e \in Events, ServiceRefuses(m, e) PROVE WorkerDated'
    <3>1. worker' = worker \/ worker' = [worker EXCEPT !.reply = e, !.rev = worker.rev]
      BY <2>1 DEF ServiceRefuses, Answer, Events
    <3>2. WorkerPast(worker')
      BY <3>1, WorkerInHand DEF WorkerType, WorkerPast, Dated, WorkerDated
    <3> QED
      BY <1>1, <3>2
  <2>2. CASE RequestTimesOut
    <3>1. worker' = [worker EXCEPT !.reply = "transport"]
      BY <2>2 DEF RequestTimesOut
    <3>2. WorkerPast(worker')
      BY <3>1, WorkerInHand DEF WorkerType, WorkerPast, Dated, WorkerDated
    <3> QED
      BY <1>1, <3>2
  <2>3. ASSUME NEW a \in CloudAreas, ServiceDeletes(a) \/ ForeignEdit(a) \/ AccessChanges(a)
        PROVE  WorkerDated'
    BY <1>1, <1>2, <2>3 DEF ServiceDeletes, ForeignEdit, AccessChanges
  <2> QED
    BY <1>8, <2>1, <2>2, <2>3, ServedWorker DEF Service
<1> QED
  BY <1>3, <1>4, <1>5, <1>6, <1>7, <1>8 DEF Next, Process

LEMMA StepEngineDated ==
  ASSUME Typed, Typed', Dated, Moves, [Next]_vars PROVE EngineDated'
<1>1. EnginePast(engine') => EngineDated'
  <2>1. engine' \in EngineType
    BY DEF TaskType
  <2>2. (\A a \in CloudAreas : engine'.rows[a] \in Int) /\ engine'.doc.rev \in Int
    BY <2>1 DEF EngineType, DocType, Revs
  <2> QED
    BY <2>2, RevsGrow, DatedNumbers DEF EngineDated, EnginePast
<1>2. engine' = engine => EnginePast(engine')
  BY DEF Dated, EngineDated
<1>3. CASE Editor
  BY <1>1, <1>2, <1>3 DEF Editor, Stage, Publish, Cancel, Retry, Discard, KeepTheirs, KeepMine
<1>4. CASE Deletion \/ Rebuilds \/ Service
  BY <1>1, <1>2, <1>4, DeletionJournal, RebuildsSteady, ServiceKeeps
<1>5. CASE Engine
  BY <1>1, <1>5, EnginePasts
<1>6. CASE Crash
  <2>1. engine'.rows = NoRows /\ engine'.area = NoArea
    BY <1>6 DEF Crash, IdleEngine
  <2> QED
    BY <1>1, <2>1, DatedNumbers DEF EnginePast
<1>7. CASE Restart \/ Outage \/ RequestSync \/ Login \/ UNCHANGED vars
  BY <1>1, <1>2, <1>7 DEF Restart, Outage, RequestSync, Login, vars
<1>8. CASE Worker
  BY <1>1, <1>2, <1>8 DEF Worker, WorkerRetire, WorkerRetireFails, WorkerTake, WorkerTimer,
     WorkerIdle, WorkerWake, Verdicts, VerdictStale, VerdictOk, VerdictCredential,
     CredentialChanged, VerdictTransport, VerdictHeld, VerdictRefused, VerdictUpgrade,
     VerdictConflict, ConflictFetch, ConflictApply
<1> QED
  BY <1>3, <1>4, <1>5, <1>6, <1>7, <1>8 DEF Next, Process

LEMMA StepRebuildsDated ==
  ASSUME Typed, Dated, Moves, [Next]_vars PROVE RebuildsDated'
<1> DEFINE Added(r) == r.doc = NoDoc \/ r.doc = Doc(r.area)
<1>0. \A r \in rebuilds : r.area \in Areas /\ r.doc.rev \in Int /\ r \in RebuildType
  BY DEF TaskType, RebuildType, DocType, Revs
<1>1. ASSUME \A r \in rebuilds' : r \in rebuilds \/ (r.area \in Areas /\ Added(r))
      PROVE  RebuildsDated'
  <2>1. ASSUME NEW r \in rebuilds' PROVE r.doc.rev <= srv'[r.area].rev
    <3>1. r.area \in Areas /\ r.doc.rev \in Int /\ r.doc.rev <= srv[r.area].rev
      BY <1>0, <1>1, DatedNumbers DEF Dated, RebuildsDated
    <3> QED
      BY <3>1, RevsGrow
  <2> QED
    BY <2>1 DEF RebuildsDated
<1>2. \A a \in Areas : \A g, k : Rebuild(a, g, k) =>
        \A r \in rebuilds' : r \in rebuilds \/ (r.area \in Areas /\ Added(r))
  BY DEF Rebuild
<1>3. CASE Editor
  <2>1. rebuilds' = rebuilds \/ \E a \in Areas : \E g, k : Rebuild(a, g, k)
    BY <1>3, PendingAssumption DEF Editor, Stage, Publish, Cancel, Retry, Discard, KeepTheirs,
       KeepMine
  <2> QED
    BY <1>1, <1>2, <2>1
<1>4. ASSUME NEW q \in rebuilds, RebuildFetch(q) \/ RebuildApply(q) PROVE RebuildsDated'
  <2>1. PICK d : d = [q EXCEPT !.at = "got", !.doc = Doc(q.area)]
    OBVIOUS
  <2>2. d.area = q.area /\ d.doc = Doc(d.area)
    BY <1>0, <2>1 DEF RebuildType
  <2>3. rebuilds' \subseteq rebuilds \cup {d}
    BY <1>4, <2>1 DEF RebuildFetch, RebuildApply
  <2> QED
    BY <1>0, <1>1, <2>2, <2>3
<1>5. CASE Engine \/ Deletion \/ Service
  BY <1>1, <1>5, ServiceKeeps DEF Engine, EngineTick, EngineFail, ActivateLoad, ActivateInstall,
     EngineAsk, EngineRows, EngineFetch, EngineAdopt, EngineDone, Deletion, DeleteBegin,
     DeletePrepare, DeleteSucceeds, DeleteLeaves, DeleteAmbiguous, DeleteAbandon
<1>6. CASE Worker
  BY <1>1, <1>6 DEF Worker, WorkerRetire, WorkerRetireFails, WorkerTake, WorkerTimer,
     WorkerIdle, WorkerWake, Verdicts, VerdictStale, VerdictOk, VerdictCredential,
     CredentialChanged, VerdictTransport, VerdictHeld, VerdictRefused, VerdictUpgrade,
     VerdictConflict, ConflictFetch, ConflictApply
<1>7. CASE Process \/ UNCHANGED vars
  BY <1>1, <1>7 DEF Process, Crash, Restart, Outage, RequestSync, Login, vars
<1> QED
  BY <1>3, <1>4, <1>5, <1>6, <1>7 DEF Next, Rebuilds

\* The worker sends; the service records what it applies, or forgets.
LEMMA StepMail ==
  ASSUME [Next]_vars
  PROVE  /\ net' \subseteq net \/ \E a \in Areas : WorkerTake(a)
         /\ receipts' = receipts \/ Outage \/ \E m \in net : ServiceHandles(m)
<1>1. CASE Editor \/ Rebuilds
  BY <1>1 DEF Editor, Stage, Publish, Cancel, Retry, Discard, KeepTheirs, KeepMine,
     Rebuilds, RebuildFetch, RebuildApply
<1>2. CASE Engine \/ Deletion
  BY <1>2 DEF Engine, EngineTick, EngineFail, ActivateLoad, ActivateInstall,
     EngineAsk, EngineRows, EngineFetch, EngineAdopt, EngineDone, Deletion, DeleteBegin,
     DeletePrepare, DeleteSucceeds, DeleteLeaves, DeleteAmbiguous, DeleteAbandon
<1>3. CASE Worker
  <2>1. receipts' = receipts
    BY <1>3 DEF Worker, WorkerRetire, WorkerRetireFails, WorkerTake, WorkerTimer,
       WorkerIdle, WorkerWake, Verdicts, VerdictStale, VerdictOk, VerdictCredential,
       CredentialChanged, VerdictTransport, VerdictHeld, VerdictRefused, VerdictUpgrade,
       VerdictConflict, ConflictFetch, ConflictApply
  <2>2. net' = net \/ \E a \in Areas : WorkerTake(a)
    BY <1>3 DEF Worker, WorkerRetire, WorkerRetireFails, WorkerTimer,
       WorkerIdle, WorkerWake, Verdicts, VerdictStale, VerdictOk, VerdictCredential,
       CredentialChanged, VerdictTransport, VerdictHeld, VerdictRefused, VerdictUpgrade,
       VerdictConflict, ConflictFetch, ConflictApply
  <2> QED
    BY <2>1, <2>2
<1>4. CASE Service
  BY <1>4 DEF Service, ServiceHandles, ServiceRefuses, RequestTimesOut, ServiceDeletes,
     ForeignEdit, AccessChanges
<1>5. CASE Process \/ UNCHANGED vars
  BY <1>5 DEF Process, Crash, Restart, Outage, RequestSync, Login, vars
<1> QED
  BY <1>1, <1>2, <1>3, <1>4, <1>5 DEF Next

LEMMA StepMailDated ==
  ASSUME Typed, Arranged, Dated, Moves, [Next]_vars PROVE ReceiptsDated' /\ NetDated'
<1>0. /\ \A o \in Ops : AreaOf[o] \in Areas /\ receipts[o] \in Int
      /\ \A m \in net : m.op \in Ops /\ m.rev \in Int
  BY PendingAssumption DEF ServiceType, Revs
<1>1. ASSUME \A o \in Ops : receipts'[o] \in {receipts[o], NoRev} PROVE ReceiptsDated'
  BY <1>0, <1>1, RevsGrow, DatedNumbers DEF Dated, ReceiptsDated
<1>2. ASSUME net' \subseteq net PROVE NetDated'
  BY <1>0, <1>2, RevsGrow DEF Dated, NetDated
<1>3. ASSUME NEW a \in Areas, WorkerTake(a) PROVE NetDated'
  <2>1. PICK o : o = HeadOp(areas[a])
    OBVIOUS
  <2>2. /\ AreaOf[o] = a
        /\ \E rev \in Int : /\ rev <= srv[a].rev
                           /\ \/ net' = net
                              \/ net' = net \cup {[op |-> o, rev |-> rev, gen |-> gen[o]]}
    BY <1>3, <2>1, TakesHead
  <2>3. ASSUME NEW m \in net' PROVE m.rev <= srv[AreaOf[m.op]].rev
    BY <2>2 DEF Dated, NetDated
  <2>4. srv' = srv
    BY <1>3 DEF WorkerTake
  <2> QED
    BY <2>3, <2>4 DEF NetDated
<1>4. ASSUME NEW m \in net, ServiceHandles(m) PROVE ReceiptsDated'
  <2>1. PICK o, a : o = m.op /\ a = AreaOf[o]
    OBVIOUS
  <2>2. o \in Ops /\ a \in Areas
    BY <1>0, <2>1
  <2>3. \/ receipts' = receipts
        \/ /\ srv' = [srv EXCEPT ![a].rev = @ + 1, ![a].log = Append(@, o)]
           /\ receipts' = [receipts EXCEPT ![o] = srv[a].rev + 1]
    BY <1>4, <2>1 DEF ServiceHandles
  <2>4. CASE /\ srv' = [srv EXCEPT ![a].rev = @ + 1, ![a].log = Append(@, o)]
             /\ receipts' = [receipts EXCEPT ![o] = srv[a].rev + 1]
    <3>1. srv'[a].rev = srv[a].rev + 1
      BY <2>2, <2>4 DEF ServiceType
    <3>2. \A p \in Ops : receipts'[p] = IF p = o THEN srv[a].rev + 1 ELSE receipts[p]
      BY <2>4 DEF ServiceType
    <3>3. \A p \in Ops : receipts'[p] <= srv'[AreaOf[p]].rev
      BY <1>0, <2>1, <2>2, <3>1, <3>2, RevsGrow DEF Dated, ReceiptsDated
    <3> QED
      BY <3>3 DEF ReceiptsDated
  <2> QED
    BY <1>1, <2>3, <2>4
<1>5. ASSUME Outage PROVE ReceiptsDated'
  BY <1>1, <1>5 DEF Outage
<1> QED
  BY <1>1, <1>2, <1>3, <1>4, <1>5, StepMail

LEMMA StepDated == ASSUME Typed, Arranged, Dated, [Next]_vars PROVE Dated'
<1>1. Typed' /\ Moves
  BY StepTyped, StepServed
<1>2. AreasDated'
  <2>1. ASSUME NEW a \in Areas PROVE Behind(areas'[a], srv'[a].rev)
    <3>1. areas'[a] \in AreaType
      BY <1>1 DEF QueueType
    <3>2. Behind(areas'[a], srv[a].rev)
      BY StepLags DEF AreasLag
    <3> QED
      BY <1>1, <3>1, <3>2, RevsGrow, BehindLater
  <2> QED
    BY <2>1 DEF AreasDated, Behind
<1>3. WorkerDated' /\ EngineDated' /\ RebuildsDated' /\ ReceiptsDated' /\ NetDated'
  BY <1>1, StepWorkerDated, StepEngineDated, StepRebuildsDated, StepMailDated
<1> QED
  BY <1>2, <1>3 DEF Dated

LEMMA InitDated == ASSUME Init PROVE Dated
<1>1. \A a \in Areas : srv[a].rev = 1 /\ areas[a] = [EmptyArea EXCEPT !.confirmed = 1, !.token = 1]
  BY DEF Init
<1>2. AreasDated
  <2>1. PICK x : x = [EmptyArea EXCEPT !.confirmed = 1, !.token = 1]
    OBVIOUS
  <2>2. x.confirmed = 1 /\ x.phase = Ready
    BY <2>1 DEF EmptyArea
  <2>3. Behind(x, 1)
    BY <2>2, PhaseRevs DEF Behind, NoRev
  <2> QED
    BY <1>1, <2>1, <2>3 DEF AreasDated
<1>3. WorkerDated
  BY PendingAssumption DEF Init, WorkerDated, WorkerPast, IdleWorker
<1>4. EngineDated
  <2>1. engine.rows = NoRows /\ engine.area = NoArea
    BY DEF Init, IdleEngine
  <2> QED
    BY <1>1, <2>1, PendingAssumption DEF EngineDated, EnginePast, NoRows, NoRev, Areas
<1>5. RebuildsDated /\ NetDated
  BY DEF Init, RebuildsDated, NetDated
<1>6. ReceiptsDated
  BY <1>1, PendingAssumption DEF Init, ReceiptsDated, NoRev
<1> QED
  BY <1>2, <1>3, <1>4, <1>5, <1>6 DEF Dated

-----------------------------------------------------------------------------
\* Lanes: the edits of one account in one map, and what may still be sent.

SameLane(o, p) == AreaOf[o] = AreaOf[p] /\ owner[o] = owner[p]

\* An activation under way will put the edit back in its queue.
Loaded(o) == engine.at = "activating" /\ o \in engine.loaded

\* The client may still send the edit.
Candidate(o) == Replayable(o) \/ o \in Queued(areas[AreaOf[o]]) \/ Loaded(o)

\* An edit made before p in its lane may still be sent.
Ahead(p) == \E o \in Ops : o < p /\ SameLane(o, p) /\ Candidate(o)

\* The identities: the active one is not newer than the credential, and an
\* activation under way is of a newer one.
Seats ==
  /\ active <= cred
  /\ engine.at = "activating" => active < engine.tick /\ engine.tick <= cred

\* Only edits that were made travel or are applied, in their map.
Made ==
  /\ \A m \in net : m.op < nextOp
  /\ \A a \in Areas : \A i \in DOMAIN srv[a].log :
       AreaOf[srv[a].log[i]] = a /\ srv[a].log[i] < nextOp

\* No edit travels, or has been applied, ahead of one that may still be sent.
NetFirst == \A m \in net : ~Ahead(m.op)
LogFirst == \A p \in Ops : Applied(p) => ~Ahead(p)

\* A request that would still be applied is of the last edit of its lane.
NetLast ==
  \A m \in net : m.rev = srv[AreaOf[m.op]].rev =>
    \A p \in Ops : Applied(p) /\ SameLane(p, m.op) => p <= m.op

LaneOrder == Made /\ NetFirst /\ LogFirst /\ NetLast

LEMMA StepCred == ASSUME [Next]_vars PROVE cred' = cred \/ Login
<1>1. CASE Editor \/ Rebuilds \/ Service
  BY <1>1, ServiceKeeps DEF Editor, Stage, Publish, Cancel, Retry, Discard, KeepTheirs,
     KeepMine, Rebuilds, RebuildFetch, RebuildApply
<1>2. CASE Worker
  BY <1>2 DEF Worker, WorkerRetire, WorkerRetireFails, WorkerTake, WorkerTimer,
     WorkerIdle, WorkerWake, Verdicts, VerdictStale, VerdictOk, VerdictCredential,
     CredentialChanged, VerdictTransport, VerdictHeld, VerdictRefused, VerdictUpgrade,
     VerdictConflict, ConflictFetch, ConflictApply
<1>3. CASE Engine \/ Deletion
  BY <1>3 DEF Engine, EngineTick, EngineFail, ActivateLoad, ActivateInstall,
     EngineAsk, EngineRows, EngineFetch, EngineAdopt, EngineDone, Deletion, DeleteBegin,
     DeletePrepare, DeleteSucceeds, DeleteLeaves, DeleteAmbiguous, DeleteAbandon
<1>4. CASE Process \/ UNCHANGED vars
  BY <1>4 DEF Process, Crash, Restart, Outage, RequestSync, vars
<1> QED
  BY <1>1, <1>2, <1>3, <1>4 DEF Next

LEMMA StepSeats == ASSUME Typed, Own, Arranged, Flight, Seats, [Next]_vars PROVE Seats'
<1>0. /\ cred \in Nat /\ cred' \in Nat /\ active \in Nat /\ NoGen \in Nat /\ NoGen <= cred
      /\ cred <= cred'
      /\ engine.at = "activating" => engine.tick \in Nat /\ NoGen < engine.tick
  <2>1. cred \in 1..MaxGen /\ active \in 0..MaxGen /\ MaxGen \in Nat
    BY PendingAssumption DEF EnvType, ViewerType, Gens, NoGen
  <2>2. engine.at = "activating" => engine.tick \in 1..MaxGen
    BY DEF Own, LoadedOwned, Gens
  <2>3. cred' = cred \/ cred' = cred + 1
    BY StepCred DEF Login
  <2> QED
    BY <2>1, <2>2, <2>3 DEF NoGen
<1>1. ASSUME Unread, Deactivates PROVE Seats'
  BY <1>0, <1>1 DEF Seats, Unread, Deactivates
<1>2. CASE Stage
  BY <1>1, <1>2 DEF Stage, Unread, Deactivates
<1>3. CASE ActivateLoad
  <2>1. active' = active /\ cred' = cred
    BY <1>3 DEF ActivateLoad
  <2>2. \/ engine'.at # "activating"
        \/ engine'.tick = engine.tick /\ cred = engine.tick /\ active # engine.tick
    <3>1. CASE cred # engine.tick
      BY <1>3, <3>1 DEF ActivateLoad, EngineIdle, IdleEngine
    <3>2. CASE cred = engine.tick /\ active = engine.tick
      BY <1>3, <3>2 DEF ActivateLoad, TaskType, EngineType
    <3>3. CASE cred = engine.tick /\ active # engine.tick
      BY <1>3, <3>3 DEF ActivateLoad, TaskType, EngineType
    <3> QED
      BY <3>1, <3>2, <3>3
  <2> QED
    BY <1>0, <2>1, <2>2 DEF Seats
<1>4. CASE ActivateInstall
  <2>1. active' = engine.tick /\ engine.at = "activating" /\ engine'.at = "rows"
    BY <1>4 DEF ActivateInstall, TaskType, EngineType
  <2> QED
    BY <1>0, <2>1 DEF Seats
<1>5. CASE Crash
  BY <1>1, <1>5 DEF Crash, Unread, Deactivates, IdleEngine
<1>6. CASE Quiet \/ (\E a \in Areas, o \in Ops : Resolved(a, o)) \/ \E a \in CloudAreas : Deleted(a)
  BY <1>1, <1>6 DEF Quiet, Resolved, Deleted
<1> QED
  BY <1>2, <1>3, <1>4, <1>5, <1>6, JournalShape

\* Only the editor adds something to send; nothing else changes a lane.
LEMMA CandidatesShrink ==
  ASSUME Typed, Arranged, Flight, Held, [Next]_vars, ~Stage
  PROVE  /\ owner' = owner /\ nextOp' = nextOp
         /\ \A o \in Ops : Candidate(o)' => Candidate(o)
<1>0. owner' = owner /\ nextOp' = nextOp /\ \A o \in Ops : Replayable(o)' => Replayable(o)
  BY StepRecords DEF Shrinks
<1>1. \A o \in Ops : AreaOf[o] \in Areas
  BY PendingAssumption
<1>2. ASSUME Unread, \A a \in Areas : Queued(areas'[a]) \subseteq Queued(areas[a])
      PROVE  \A o \in Ops : Candidate(o)' => Candidate(o)
  BY <1>0, <1>1, <1>2 DEF Candidate, Loaded, Unread
<1>3. CASE ActivateLoad
  <2>1. areas' = areas
    BY <1>3 DEF ActivateLoad
  <2>2. engine'.at = "activating" => \A o \in engine'.loaded : Replayable(o)
    BY <1>3, LoadReplays DEF Loadable
  <2> QED
    BY <1>0, <2>1, <2>2 DEF Candidate, Loaded
<1>4. CASE ActivateInstall
  <2>1. engine.at = "activating" /\ engine'.at = "rows"
    BY <1>4 DEF ActivateInstall, TaskType, EngineType
  <2>2. ASSUME NEW o \in Ops, o \in Queued(areas'[AreaOf[o]])
        PROVE  o \in Queued(areas[AreaOf[o]]) \/ o \in engine.loaded
    BY <1>1, <1>4, <2>2, InstalledQueues, InstalledSession
  <2> QED
    BY <1>0, <2>1, <2>2 DEF Candidate, Loaded
<1>5. CASE Crash
  <2>1. Unread
    BY <1>5 DEF Crash, IdleEngine, Unread
  <2>2. \A a \in Areas : Queued(areas'[a]) = {}
    BY <1>5, EmptyFits DEF Crash
  <2> QED
    BY <1>0, <1>2, <2>1, <2>2
<1>6. CASE Quiet
  BY <1>0, <1>2, <1>6 DEF Quiet, SameQueues, Queued
<1>7. ASSUME NEW a \in Areas, NEW o \in Ops, Resolved(a, o)
      PROVE  \A p \in Ops : Candidate(p)' => Candidate(p)
  <2>1. \A b \in Areas : Queued(areas'[b]) \subseteq Queued(areas[b])
    BY <1>7, ResolvedQueues
  <2> QED
    BY <1>2, <1>7, <2>1 DEF Resolved
<1>8. ASSUME NEW a \in CloudAreas, Deleted(a)
      PROVE  \A p \in Ops : Candidate(p)' => Candidate(p)
  <2>1. \A b \in Areas : Queued(areas'[b]) \subseteq Queued(areas[b])
    BY <1>8, DeletedQueues
  <2> QED
    BY <1>2, <1>8, <2>1 DEF Deleted
<1> QED
  BY <1>0, <1>3, <1>4, <1>5, <1>6, <1>7, <1>8, JournalShape

\* Staging adds the newest edit.
LEMMA StageCandidates ==
  ASSUME Typed, Own, Arranged, Stage
  PROVE  /\ nextOp \in Ops /\ nextOp' = nextOp + 1
         /\ \A o \in Ops : o # nextOp => (owner'[o] = owner[o] /\ (Candidate(o)' => Candidate(o)))
<1>1. PICK n, b : n = nextOp /\ b = AreaOf[n]
  OBVIOUS
<1>2. n \in Ops /\ b \in Areas /\ Staged(b, n)
  BY <1>1, StageStaged
<1>3. /\ nextOp' = nextOp + 1 /\ engine' = engine /\ tombstones' = tombstones
      /\ wal' = [wal EXCEPT ![n] = IF IsCloud(n) THEN "json" ELSE @]
      /\ owner' = [owner EXCEPT ![n] = IF IsCloud(n) THEN ViewerOf[active] ELSE @]
  BY <1>1 DEF Stage
<1>4. ASSUME NEW o \in Ops, o # n PROVE owner'[o] = owner[o] /\ (Candidate(o)' => Candidate(o))
  <2>1. owner'[o] = owner[o] /\ (Replayable(o)' <=> Replayable(o))
    BY <1>2, <1>3, <1>4 DEF DiskType, Replayable
  <2>2. o \in Queued(areas'[AreaOf[o]]) => o \in Queued(areas[AreaOf[o]])
    BY <1>2, <1>4, PendingAssumption DEF Staged
  <2> QED
    BY <1>3, <2>1, <2>2 DEF Candidate, Loaded
<1> QED
  BY <1>1, <1>2, <1>3, <1>4

\* What an application does to the map.
LEMMA ServedMap ==
  ASSUME Typed, NEW m \in net, Applies1(m)
  PROVE  LET o == m.op  a == AreaOf[o] IN
         /\ o \in Ops /\ a \in Areas
         /\ srv'[a].rev = srv[a].rev + 1 /\ srv[a].rev \in Int
         /\ srv[a].log \in Seq(Ops) /\ srv'[a].log = Append(srv[a].log, o)
         /\ \A b \in Areas : b # a => srv'[b] = srv[b]
<1>1. PICK o, a : o = m.op /\ a = AreaOf[o]
  OBVIOUS
<1>2. o \in Ops /\ a \in Areas
  BY <1>1, PendingAssumption DEF ServiceType
<1>3. srv' = [srv EXCEPT ![a].rev = @ + 1, ![a].log = Append(@, o)]
  BY <1>1 DEF Applies1
<1> QED
  BY <1>1, <1>2, <1>3 DEF ServiceType, Revs

LEMMA AppendOnly ==
  ASSUME NEW q \in Seq(Ops), NEW o \in Ops, NEW r, r = Append(q, o)
  PROVE  \A i \in DOMAIN r :
           (i \in DOMAIN q /\ r[i] = q[i]) \/ (i = Len(q) + 1 /\ r[i] = o)
  OBVIOUS

\* An edit is applied only by the handling of its request.
LEMMA StepApplied ==
  ASSUME Typed, [Next]_vars, NEW o \in Ops, Applied(o)'
  PROVE  Applied(o) \/ \E m \in net : o = m.op /\ Applies1(m) /\ ServiceHandles(m)
<1>1. AreaOf[o] \in Areas
  BY PendingAssumption
<1>2. CASE SameDocuments
  BY <1>1, <1>2 DEF SameDocuments, Applied
<1>3. ASSUME NEW m \in net, Applies1(m), ServiceHandles(m)
      PROVE  Applied(o) \/ o = m.op
  <2>1. PICK p, a : p = m.op /\ a = AreaOf[p]
    OBVIOUS
  <2>2. /\ p \in Ops /\ a \in Areas /\ srv[a].log \in Seq(Ops)
        /\ srv'[a].log = Append(srv[a].log, p)
        /\ \A b \in Areas : b # a => srv'[b] = srv[b]
    BY <1>3, <2>1, ServedMap
  <2>3. CASE AreaOf[o] = a
    <3>1. PICK i \in DOMAIN srv'[a].log : srv'[a].log[i] = o
      BY <2>3 DEF Applied
    <3>2. (i \in DOMAIN srv[a].log /\ srv[a].log[i] = o) \/ o = p
      BY <2>2, <3>1, AppendOnly
    <3> QED
      BY <2>1, <2>3, <3>2 DEF Applied
  <2>4. CASE AreaOf[o] # a
    BY <1>1, <2>2, <2>4 DEF Applied
  <2> QED
    BY <2>3, <2>4
<1> QED
  BY <1>2, <1>3, StepServed

\* The head of a queue that may send leads its lane.
LEMMA HeadLeads ==
  ASSUME Typed, Arranged, Held, Seats, NEW a \in Areas, WorkerTake(a),
         areas[a].queue # << >>, HeadOp(areas[a]) \in Queued(areas[a]),
         AreaOf[HeadOp(areas[a])] = a, IsCloud(HeadOp(areas[a])) => cred = gen[HeadOp(areas[a])]
  PROVE  ~Ahead(HeadOp(areas[a]))
<1> DEFINE p == HeadOp(areas[a])
<1> SUFFICES ASSUME NEW o \in Ops, o < p, SameLane(o, p), Candidate(o) PROVE FALSE
  BY DEF Ahead
<1>1. p \in Ops /\ Ops \subseteq Int /\ AreaOf[o] = a /\ owner[o] = owner[p]
  BY QueuedOps DEF SameLane, Ops
<1>2. CASE o \in Queued(areas[a])
  <2>1. PICK q : q = areas[a].queue
    OBVIOUS
  <2>2. Sorted(q) /\ q # << >> /\ p = q[1] /\ o \in Members(q)
    BY <1>2, <2>1, QueuedMembers DEF Arranged, QueueSorted, HeadOp
  <2>21. q \in Seq(Ops)
    BY <2>1, AreaTyped, FieldTypes
  <2> HIDE DEF p
  <2>3. PICK i \in 1..Len(q) : q[i] = o
    BY <2>2 DEF Members
  <2>4. i = 1 \/ q[1] < q[i]
    BY <2>2, <2>21, <2>3 DEF Sorted
  <2> QED
    BY <1>1, <2>2, <2>3, <2>4
<1>3. CASE Replayable(o)
  <2>1. a \in CloudAreas
    BY <1>1, <1>3 DEF Replayable, Arranged, JournalCloud, IsCloud
  <2>2. o \in Queued(areas[a])
    BY <1>1, <1>3, <2>1 DEF Held, JournalQueued
  <2> QED
    BY <1>2, <2>2
<1>4. CASE Loaded(o)
  <2>1. IsCloud(p)
    BY <1>1, <1>4 DEF Loaded, Arranged, LoadedCloud, IsCloud
  <2>2. active = cred
    BY <2>1 DEF WorkerTake, Sendable
  <2>3. active < engine.tick /\ engine.tick <= cred
    BY <1>4 DEF Loaded, Seats
  <2>4. cred \in Int /\ engine.tick \in Int
    BY PendingAssumption DEF EnvType, TaskType, EngineType, Gens, NoGen
  <2> QED
    BY <2>2, <2>3, <2>4
<1> QED
  BY <1>1, <1>2, <1>3, <1>4 DEF Candidate

\* The lanes of the edits that were made stay as they are.
LEMMA StepLanes ==
  ASSUME Typed, Own, Arranged, Flight, Held, [Next]_vars
  PROVE  /\ nextOp' \in {nextOp, nextOp + 1} /\ nextOp \in Int
         /\ \A o \in Ops : o < nextOp =>
              owner'[o] = owner[o] /\ (Candidate(o)' => Candidate(o))
         /\ ~Stage => owner' = owner
<1>1. nextOp \in Int /\ \A o \in Ops : o \in Int
  BY DEF EnvType, Ops
<1> QED
  BY <1>1, StageCandidates, CandidatesShrink

LEMMA StepNet ==
  ASSUME Typed, Arranged, Dated, [Next]_vars, NEW m \in net', m \notin net
  PROVE  \E a \in Areas :
           /\ WorkerTake(a) /\ m.op = HeadOp(areas[a]) /\ AreaOf[m.op] = a
           /\ m.op \in Queued(areas[a]) /\ m.op \in Ops /\ areas[a].queue # << >>
           /\ IsCloud(m.op) => cred = gen[m.op]
<1>1. PICK a \in Areas : WorkerTake(a)
  BY StepMail
<1>2. PICK o : o = HeadOp(areas[a])
  OBVIOUS
<1>3. /\ o \in Ops /\ o \in Queued(areas[a]) /\ AreaOf[o] = a /\ areas[a].queue # << >>
      /\ \E rev \in Int :
           \/ net' = net
           \/ /\ net' = net \cup {[op |-> o, rev |-> rev, gen |-> gen[o]]}
              /\ IsCloud(o) => cred = gen[o]
  BY <1>1, <1>2, TakesHead
<1>4. m.op = o /\ (IsCloud(o) => cred = gen[o])
  BY <1>3
<1> QED
  BY <1>1, <1>2, <1>3, <1>4

LEMMA StepMade ==
  ASSUME Typed, Own, Arranged, Flight, Held, Dated, Made, [Next]_vars
  PROVE  Made'
<1>0. nextOp' \in {nextOp, nextOp + 1} /\ nextOp \in Int /\ \A o \in Ops : o \in Int
  BY StepLanes DEF Ops
<1>1. ASSUME NEW m \in net' PROVE m.op < nextOp'
  <2>1. m \in net => m.op < nextOp /\ m.op \in Ops
    BY DEF Made, ServiceType
  <2>2. m \notin net => m.op < nextOp /\ m.op \in Ops
    BY StepNet, QueuedOnce
  <2> QED
    BY <1>0, <2>1, <2>2
<1>2. ASSUME NEW a \in Areas, NEW i \in DOMAIN srv'[a].log
      PROVE  AreaOf[srv'[a].log[i]] = a /\ srv'[a].log[i] < nextOp'
  <2>1. \A j \in DOMAIN srv[a].log : srv[a].log[j] \in Ops
    BY DEF ServiceType
  <2>2. CASE SameDocuments
    BY <1>0, <2>1, <2>2 DEF SameDocuments, Made
  <2>3. ASSUME NEW m \in net, Applies1(m)
        PROVE  AreaOf[srv'[a].log[i]] = a /\ srv'[a].log[i] < nextOp'
    <3>1. PICK p, b : p = m.op /\ b = AreaOf[p]
      OBVIOUS
    <3>2. /\ p \in Ops /\ b \in Areas /\ srv[b].log \in Seq(Ops)
          /\ srv'[b].log = Append(srv[b].log, p)
          /\ a # b => srv'[a] = srv[a]
      BY <2>3, <3>1, ServedMap
    <3>3. p < nextOp
      BY <3>1 DEF Made
    <3>4. CASE a = b
      <4>1. (i \in DOMAIN srv[a].log /\ srv'[a].log[i] = srv[a].log[i]) \/ srv'[a].log[i] = p
        BY <3>2, <3>4, AppendOnly
      <4> QED
        BY <1>0, <2>1, <3>1, <3>2, <3>3, <3>4, <4>1 DEF Made
    <3> QED
      BY <1>0, <2>1, <3>2, <3>4 DEF Made
  <2> QED
    BY <2>2, <2>3, StepServed
<1> QED
  BY <1>1, <1>2 DEF Made

LEMMA AppliedMade == ASSUME Typed, Made, NEW o \in Ops, Applied(o) PROVE o < nextOp
  BY PendingAssumption DEF Applied, Made

LEMMA StepFirst ==
  ASSUME Typed, Own, Arranged, Flight, Held, Dated, Seats, LaneOrder, [Next]_vars
  PROVE  NetFirst' /\ LogFirst'
<1>0. \A o \in Ops : o \in Int
  BY DEF Ops
<1>1. ASSUME NEW p \in Ops, p < nextOp, ~Ahead(p) PROVE ~Ahead(p)'
  <2> SUFFICES ASSUME NEW o \in Ops, o < p, SameLane(o, p)', Candidate(o)' PROVE FALSE
    BY DEF Ahead
  <2>1. o < nextOp
    BY <1>0, <1>1, StepLanes
  <2> QED
    BY <1>1, <2>1, StepLanes DEF Ahead, SameLane
<1>2. ASSUME NEW m \in net' PROVE ~Ahead(m.op)'
  <2>1. CASE m \in net
    BY <1>1, <2>1 DEF LaneOrder, Made, NetFirst, ServiceType
  <2>2. CASE m \notin net
    <3>1. PICK a \in Areas :
           /\ WorkerTake(a) /\ m.op = HeadOp(areas[a]) /\ AreaOf[m.op] = a
           /\ m.op \in Queued(areas[a]) /\ m.op \in Ops /\ areas[a].queue # << >>
           /\ IsCloud(m.op) => cred = gen[m.op]
      BY <2>2, StepNet
    <3> QED
      BY <1>1, <3>1, HeadLeads, QueuedOnce
  <2> QED
    BY <2>1, <2>2
<1>3. ASSUME NEW p \in Ops, Applied(p)' PROVE ~Ahead(p)'
  <2>1. CASE Applied(p)
    BY <1>1, <2>1, AppliedMade DEF LaneOrder, LogFirst
  <2>2. CASE \E m \in net : p = m.op
    BY <1>1, <2>2 DEF LaneOrder, Made, NetFirst
  <2> QED
    BY <1>3, <2>1, <2>2, StepApplied
<1>4. NetFirst'
  BY <1>2 DEF NetFirst
<1>5. LogFirst'
  BY <1>3 DEF LogFirst
<1> QED
  BY <1>4, <1>5

LEMMA StepLast ==
  ASSUME Typed, Own, Arranged, Flight, Held, Dated, LaneOrder, [Next]_vars
  PROVE  NetLast'
<1> SUFFICES ASSUME NEW m \in net', m.rev = srv'[AreaOf[m.op]].rev,
                    NEW p \in Ops, Applied(p)', SameLane(p, m.op)'
             PROVE  p <= m.op
  BY DEF NetLast
<1>0. \A o \in Ops : o \in Int
  BY DEF Ops
<1>1. CASE m \in net
  <2>1. PICK o, a : o = m.op /\ a = AreaOf[o]
    OBVIOUS
  <2>2. /\ o \in Ops /\ a \in Areas /\ o < nextOp /\ AreaOf[p] = a
        /\ srv[a].rev \in Int /\ m.rev <= srv[a].rev /\ m.rev \in Int
    BY <1>1, <2>1, PendingAssumption
       DEF ServiceType, Revs, LaneOrder, Made, Dated, NetDated, SameLane
  <2>3. srv'[a].rev = srv[a].rev /\ srv'[a].log = srv[a].log
    BY <2>1, <2>2, StepServed DEF Moves
  <2>4. Applied(p) /\ p < nextOp
    BY <2>2, <2>3, AppliedMade DEF Applied, LaneOrder
  <2>5. SameLane(p, o)
    BY <2>1, <2>2, <2>4, StepLanes DEF SameLane
  <2> QED
    BY <1>1, <2>1, <2>3, <2>4, <2>5 DEF LaneOrder, NetLast
<1>2. CASE m \notin net
  <2>1. PICK a \in Areas :
         /\ WorkerTake(a) /\ AreaOf[m.op] = a /\ m.op \in Queued(areas[a]) /\ m.op \in Ops
    BY <1>2, StepNet
  <2>2. srv' = srv /\ owner' = owner
    BY <2>1 DEF WorkerTake
  <2>3. Applied(p) /\ SameLane(p, m.op) /\ Candidate(m.op)
    BY <2>1, <2>2 DEF Applied, SameLane, Candidate
  <2>4. ~(m.op < p)
    BY <2>1, <2>3 DEF LaneOrder, LogFirst, Ahead, SameLane
  <2> QED
    BY <1>0, <2>1, <2>4
<1> QED
  BY <1>1, <1>2

LEMMA InitLanes == ASSUME Init PROVE Seats /\ LaneOrder
<1>1. active = 1 /\ cred = 1 /\ engine.at = "idle" /\ net = {}
  BY DEF Init, IdleEngine
<1>2. \A a \in Areas : srv[a].log = << >>
  BY DEF Init
<1>3. \A o \in Ops : ~Applied(o)
  BY <1>2, PendingAssumption DEF Applied
<1> QED
  BY <1>1, <1>2, <1>3 DEF Seats, LaneOrder, Made, NetFirst, LogFirst, NetLast

\* A request's edit that is applied has its receipt.
Remembered == \A m \in net : Applied(m.op) => receipts[m.op] # NoRev

LEMMA StepInOrder ==
  ASSUME Typed, Own, Arranged, Flight, Held, LaneOrder, Remembered, AppliedInOrder, [Next]_vars
  PROVE  AppliedInOrder'
<1> SUFFICES ASSUME NEW a \in Areas, NEW i \in DOMAIN srv'[a].log, NEW j \in DOMAIN srv'[a].log,
                    i < j, owner'[srv'[a].log[i]] = owner'[srv'[a].log[j]]
             PROVE  srv'[a].log[i] < srv'[a].log[j]
  BY DEF AppliedInOrder
<1>1. PICK q : q = srv[a].log
  OBVIOUS
<1>2. q \in Seq(Ops) /\ \A k \in DOMAIN q : q[k] \in Ops /\ q[k] < nextOp /\ AreaOf[q[k]] = a
  BY <1>1 DEF ServiceType, LaneOrder, Made
<1>3. ASSUME i \in DOMAIN q, j \in DOMAIN q, srv'[a].log[i] = q[i], srv'[a].log[j] = q[j]
      PROVE  srv'[a].log[i] < srv'[a].log[j]
  <2>1. owner[q[i]] = owner[q[j]]
    BY <1>2, <1>3, StepLanes
  <2> QED
    BY <1>1, <1>3, <2>1 DEF AppliedInOrder
<1>4. CASE SameDocuments
  BY <1>1, <1>3, <1>4 DEF SameDocuments
<1>5. ASSUME NEW m \in net, Applies1(m) PROVE srv'[a].log[i] < srv'[a].log[j]
  <2>1. PICK o, b : o = m.op /\ b = AreaOf[o]
    OBVIOUS
  <2>2. /\ o \in Ops /\ b \in Areas /\ srv[b].log \in Seq(Ops)
        /\ srv'[b].log = Append(srv[b].log, o)
        /\ a # b => srv'[a] = srv[a]
    BY <1>5, <2>1, ServedMap
  <2>3. CASE a # b
    BY <1>1, <1>3, <2>2, <2>3
  <2>4. CASE a = b /\ j \in DOMAIN q
    <3>1. i \in DOMAIN q
      BY <1>1, <1>2, <2>2, <2>4
    <3> QED
      BY <1>1, <1>2, <1>3, <2>2, <2>4, <3>1
  <2>5. CASE a = b /\ j \notin DOMAIN q
    <3>0. PICK r : r = srv'[a].log
      OBVIOUS
    <3>01. r = Append(q, o) /\ o \in Ops /\ i \in DOMAIN r /\ j \in DOMAIN r /\ q \in Seq(Ops)
      BY <1>1, <1>2, <2>2, <2>5, <3>0
    <3>02. \A k \in DOMAIN r : (k \in DOMAIN q /\ r[k] = q[k]) \/ (k = Len(q) + 1 /\ r[k] = o)
      BY <3>01, AppendOnly
    <3>03. j = Len(q) + 1 /\ r[j] = o /\ i # j /\ i \in DOMAIN q /\ r[i] = q[i]
      BY <2>5, <3>01, <3>02
    <3>1. j = Len(q) + 1 /\ srv'[a].log[j] = o /\ i \in DOMAIN q /\ srv'[a].log[i] = q[i]
      BY <3>0, <3>03
    <3>2. o < nextOp /\ receipts[o] = NoRev /\ m.rev = srv[a].rev
      BY <1>5, <2>1, <2>5 DEF LaneOrder, Made, Applies1
    <3>21. q[i] \in Ops /\ q[i] < nextOp /\ AreaOf[q[i]] = a
      BY <1>2, <3>1
    <3>22. owner[q[i]] = owner[o]
      BY <2>2, <3>1, <3>2, <3>21, StepLanes
    <3>3. owner[q[i]] = owner[o] /\ Applied(q[i]) /\ SameLane(q[i], o)
      BY <1>1, <2>1, <2>5, <3>1, <3>21, <3>22 DEF SameLane, Applied
    <3>4. q[i] <= o
      BY <1>2, <2>1, <2>5, <3>1, <3>2, <3>3 DEF LaneOrder, NetLast
    <3>5. q[i] # o
      BY <2>1, <3>2, <3>3 DEF Remembered
    <3> QED
      BY <1>2, <2>2, <3>1, <3>4, <3>5 DEF Ops
  <2> QED
    BY <2>3, <2>4, <2>5
<1> QED
  BY <1>4, <1>5, StepServed

-----------------------------------------------------------------------------
\* What the environment has left to do.

LEMMA StepLeft == ASSUME [Next]_vars PROVE left' = left \/ \E e \in Events : Spend(e)
<1>1. CASE Editor \/ Rebuilds
  BY <1>1 DEF Editor, Stage, Publish, Cancel, Retry, Discard, KeepTheirs, KeepMine,
     Rebuilds, RebuildFetch, RebuildApply, Events
<1>2. CASE Engine
  BY <1>2 DEF Engine, EngineTick, EngineFail, ActivateLoad, ActivateInstall,
     EngineAsk, EngineRows, EngineFetch, EngineAdopt, EngineDone, Events
<1>3. CASE Worker
  BY <1>3 DEF Worker, WorkerRetire, WorkerRetireFails, WorkerTake, WorkerTimer,
     WorkerIdle, WorkerWake, Verdicts, VerdictStale, VerdictOk, VerdictCredential,
     CredentialChanged, VerdictTransport, VerdictHeld, VerdictRefused, VerdictUpgrade,
     VerdictConflict, ConflictFetch, ConflictApply, Events
<1>4. CASE Deletion
  BY <1>4 DEF Deletion, DeleteBegin, DeletePrepare, DeleteSucceeds, DeleteLeaves,
     DeleteAmbiguous, DeleteAbandon, Events
<1>5. CASE Service
  BY <1>5 DEF Service, ServiceHandles, ServiceRefuses, RequestTimesOut, ServiceDeletes,
     ForeignEdit, AccessChanges, Events
<1>6. CASE Process \/ UNCHANGED vars
  BY <1>6 DEF Process, Crash, Restart, Outage, RequestSync, Login, vars, Events
<1> QED
  BY <1>1, <1>2, <1>3, <1>4, <1>5, <1>6 DEF Next

\* The service remembers what it has applied until the program stays closed past
\* its retention.
Receipted == left["outage"] = 0 /\ \A o \in Ops : Applied(o) => receipts[o] # NoRev

LEMMA StepReceipted ==
  ASSUME Typed, Dated, Receipted, [Next]_vars PROVE Receipted'
<1>1. left'["outage"] = 0 /\ ~Outage
  BY StepLeft DEF Receipted, Spend, Outage, EnvType, Events
<1>2. ASSUME NEW m \in net, ServiceHandles(m)
      PROVE  \/ receipts' = receipts /\ srv' = srv
             \/ /\ m.op \in Ops /\ srv[AreaOf[m.op]].rev >= 1 /\ srv[AreaOf[m.op]].rev \in Int
                /\ receipts' = [receipts EXCEPT ![m.op] = srv[AreaOf[m.op]].rev + 1]
  <2>1. m.op \in Ops /\ AreaOf[m.op] \in Areas
    BY PendingAssumption DEF ServiceType
  <2>2. srv[AreaOf[m.op]].rev >= 1 /\ srv[AreaOf[m.op]].rev \in Int
    BY <2>1 DEF Dated, AreasDated, Behind, ServiceType, Revs
  <2> QED
    BY <1>2, <2>1, <2>2 DEF ServiceHandles
<1>3. ASSUME NEW o \in Ops, Applied(o)' PROVE receipts'[o] # NoRev
  <2>1. CASE Applied(o)
    <3>1. receipts[o] # NoRev
      BY <2>1 DEF Receipted
    <3>2. ASSUME NEW m \in net, ServiceHandles(m) PROVE receipts'[o] # NoRev
      BY <1>2, <3>1, <3>2 DEF ServiceType, NoRev
    <3> QED
      BY <1>1, <3>1, <3>2, StepMail
  <2>2. ASSUME NEW m \in net, o = m.op, Applies1(m), ServiceHandles(m) PROVE receipts'[o] # NoRev
    <3>1. srv' # srv
      BY <2>2, ServedMap
    <3> QED
      BY <1>2, <2>2, <3>1 DEF ServiceType, NoRev
  <2> QED
    BY <1>3, <2>1, <2>2, StepApplied
<1> QED
  BY <1>1, <1>3 DEF Receipted

LEMMA InitReceipted == ASSUME Init, Budget["outage"] = 0 PROVE Receipted
<1>1. \A o \in Ops : ~Applied(o)
  BY PendingAssumption DEF Init, Applied
<1> QED
  BY <1>1 DEF Init, Receipted

-----------------------------------------------------------------------------
\* The theorems about the order.

LEMMA OrderInvariant ==
  Spec => [](Typed /\ Own /\ Arranged /\ Flight /\ Held /\ Dated /\ Seats /\ LaneOrder)
<1>1. Init => Dated /\ Seats /\ LaneOrder
  BY InitDated, InitLanes
<1>2. Typed /\ Own /\ Arranged /\ Flight /\ Held /\ Dated /\ Seats /\ LaneOrder /\ [Next]_vars =>
        Dated' /\ Seats' /\ LaneOrder'
  <2> SUFFICES ASSUME Typed, Own, Arranged, Flight, Held, Dated, Seats, LaneOrder, [Next]_vars
               PROVE  Dated' /\ Seats' /\ LaneOrder'
    OBVIOUS
  <2>1. Made
    BY DEF LaneOrder
  <2>2. Made' /\ NetFirst' /\ LogFirst' /\ NetLast'
    BY <2>1, StepMade, StepFirst, StepLast
  <2> QED
    BY <2>2, StepDated, StepSeats DEF LaneOrder
<1> HIDE DEF Typed
<1> QED
  BY <1>1, <1>2, JournalInvariant, PTL DEF Spec

\* No request travels, and none has been applied, ahead of an edit of the same
\* account in the same map that the client may still send: one worker takes the
\* head of a queue whose order is the journal's, whatever is cancelled, parked,
\* put up for review, signed over, replayed or sent again (take_ready).
THEOREM EarlierEditsGoFirst == Spec => [](NetFirst /\ LogFirst)
<1>1. LaneOrder => NetFirst /\ LogFirst
  BY DEF LaneOrder
<1> QED
  BY <1>1, OrderInvariant, PTL

\* The service holds each edit once, and those of an account in the order they
\* were made, while it remembers the edits that may reach it again.
THEOREM EditsApplyInOrder == Spec /\ []Remembered => []AppliedInOrder
<1>1. Init => AppliedInOrder
  BY DEF Init, AppliedInOrder
<1>2. Typed /\ Own /\ Arranged /\ Flight /\ Held /\ LaneOrder /\ Remembered /\ AppliedInOrder
        /\ [Next]_vars => AppliedInOrder'
  BY StepInOrder
<1> HIDE DEF Typed
<1> QED
  BY <1>1, <1>2, OrderInvariant, PTL DEF Spec

\* It does remember them unless the program stays closed past its retention.
THEOREM OrderWithinRetention ==
  ASSUME Budget["outage"] = 0 PROVE Spec => []AppliedInOrder
<1>1. Init => Receipted
  BY InitReceipted
<1>2. Typed /\ Dated /\ Receipted /\ [Next]_vars => Receipted'
  BY StepReceipted
<1>3. Typed /\ Receipted => Remembered
  BY DEF Receipted, Remembered, ServiceType
<1>4. Spec => []Remembered
  <2> HIDE DEF Typed
  <2> QED
    BY <1>1, <1>2, <1>3, OrderInvariant, PTL DEF Spec
<1> QED
  BY <1>4, EditsApplyInOrder, PTL

-----------------------------------------------------------------------------
\* The ledger: what the maps hold, what the client answers for, what was let go.

\* An edit is made on behalf of one account, once.
Signed ==
  \A o \in CloudOps : IF o < nextOp THEN owner[o] \in Viewers ELSE owner[o] = NoGen

LEMMA LedgerView ==
  /\ Ledger!Accepted = { o \in CloudOps : [p \in CloudOps |-> owner[p]][o] # NoGen }
  /\ \A o \in CloudOps : IsCloud(o) /\ o \in Ops /\ AreaOf[o] \in CloudAreas
  /\ CloudAreas \subseteq Areas
  BY DEF Ledger!Accepted, CloudOps, IsCloud, Areas

\* A step that leaves the four as they are is a stutter of the ledger.
LEMMA LedgerStutters ==
  ASSUME \A o \in CloudOps : owner'[o] = owner[o] /\ (Replayable(o)' <=> Replayable(o)),
         CloudOps \cap (cancelled' \cup discarded') = CloudOps \cap (cancelled \cup discarded),
         \A a \in CloudAreas : srv'[a].log = srv[a].log
  PROVE  UNCHANGED Ledger!vars
  BY DEF Ledger!vars

LEMMA LedgerAccepts ==
  ASSUME Signed, NEW n \in CloudOps, n = nextOp, NEW u \in Viewers,
         \A o \in CloudOps : o # n => owner'[o] = owner[o] /\ (Replayable(o)' <=> Replayable(o)),
         owner'[n] = u, Replayable(n)',
         UNCHANGED << cancelled, discarded, srv >>
  PROVE  Ledger!Next
<1>1. \A p \in Ledger!Accepted : p < n
  BY LedgerView DEF Signed
<1>2. [o \in CloudOps |-> owner[o]]' = [[o \in CloudOps |-> owner[o]] EXCEPT ![n] = u]
  OBVIOUS
<1>3. { o \in CloudOps : Replayable(o) }' = { o \in CloudOps : Replayable(o) } \cup {n}
  OBVIOUS
<1>4. Ledger!Accept(n, u)
  BY <1>1, <1>2, <1>3 DEF Ledger!Accept
<1> QED
  BY <1>4 DEF Ledger!Next

LEMMA LedgerSettles ==
  ASSUME NEW o \in CloudOps, Replayable(o), Applied(o),
         \A p \in CloudOps : Replayable(p)' <=> Replayable(p) /\ p # o,
         UNCHANGED << owner, cancelled, discarded >>,
         \A a \in CloudAreas : srv'[a].log = srv[a].log
  PROVE  Ledger!Next
<1>1. { p \in CloudOps : Replayable(p) }' = { p \in CloudOps : Replayable(p) } \ {o}
  OBVIOUS
<1>2. Ledger!Applied(o)
  BY LedgerView DEF Ledger!Applied, Applied
<1>3. [a \in CloudAreas |-> srv[a].log]' = [a \in CloudAreas |-> srv[a].log]
  OBVIOUS
<1>4. Ledger!Settle(o)
  BY <1>1, <1>2, <1>3 DEF Ledger!Settle
<1> QED
  BY <1>4 DEF Ledger!Next

LEMMA LedgerWithdraws ==
  ASSUME NEW S \in SUBSET CloudOps, \A o \in S : Replayable(o),
         \A p \in CloudOps : Replayable(p)' <=> Replayable(p) /\ p \notin S,
         owner' = owner, cancelled' \cup discarded' = cancelled \cup discarded \cup S,
         \A a \in CloudAreas : srv'[a].log = srv[a].log
  PROVE  Ledger!Next
<1>1. { p \in CloudOps : Replayable(p) }' = { p \in CloudOps : Replayable(p) } \ S
  OBVIOUS
<1>2. (CloudOps \cap (cancelled \cup discarded))' = (CloudOps \cap (cancelled \cup discarded)) \cup S
  BY DEF CloudOps, IsCloud
<1>3. [a \in CloudAreas |-> srv[a].log]' = [a \in CloudAreas |-> srv[a].log]
  OBVIOUS
<1>4. Ledger!Withdraw(S)
  BY <1>1, <1>2, <1>3 DEF Ledger!Withdraw
<1> QED
  BY <1>4 DEF Ledger!Next

LEMMA LedgerApplies ==
  ASSUME Typed, Signed, LaneOrder, Remembered, NEW m \in net, IsCloud(m.op), Applies1(m),
         UNCHANGED << wal, tombstones, owner, cancelled, discarded >>
  PROVE  Ledger!Next
<1>1. PICK o, a : o = m.op /\ a = AreaOf[o]
  OBVIOUS
<1>2. /\ o \in Ops /\ a \in Areas
      /\ srv[a].log \in Seq(Ops) /\ srv'[a].log = Append(srv[a].log, o)
      /\ \A b \in Areas : b # a => srv'[b] = srv[b]
  BY <1>1, ServedMap
<1>3. o \in CloudOps /\ a \in CloudAreas /\ o < nextOp /\ owner[o] \in Viewers
  BY <1>1, <1>2 DEF CloudOps, IsCloud, Signed, LaneOrder, Made
<1>4. o \in Ledger!Accepted
  BY <1>3, PendingAssumption, LedgerView
<1>5. ~Applied(o)
  BY <1>1 DEF Applies1, Remembered
<1>6. ~Ledger!Applied(o)
  BY <1>1, <1>3, <1>5 DEF Ledger!Applied, Applied
<1>7. ASSUME NEW p \in CloudOps, Ledger!Lane(p) = Ledger!Lane(o)
      PROVE  SameLane(p, o) /\ p \in Int /\ o \in Int
  <2>1. AreaOf[p] = AreaOf[o] /\ owner[p] = owner[o]
    BY <1>3, <1>7 DEF Ledger!Lane
  <2> QED
    BY <1>2, <2>1 DEF SameLane, CloudOps, Ops
<1>8. ASSUME NEW p \in Ledger!Accepted, Ledger!Lane(p) = Ledger!Lane(o), Ledger!Applied(p)
      PROVE  p < o
  <2>1. p \in CloudOps /\ p \in Ops /\ AreaOf[p] \in CloudAreas
    BY LedgerView
  <2>2. Applied(p)
    BY <1>8, <2>1 DEF Ledger!Applied, Applied
  <2>3. SameLane(p, o) /\ p \in Int /\ o \in Int
    BY <1>7, <1>8, <2>1
  <2>4. p <= o
    BY <1>1, <2>1, <2>2, <2>3 DEF LaneOrder, NetLast, Applies1
  <2> QED
    BY <1>5, <2>2, <2>3, <2>4
<1>9. ASSUME NEW p \in CloudOps, Replayable(p), Ledger!Lane(p) = Ledger!Lane(o) PROVE p >= o
  <2>1. SameLane(p, o) /\ p \in Int /\ o \in Int /\ p \in Ops
    BY <1>7, <1>9, LedgerView
  <2>2. ~(p < o)
    BY <1>1, <1>9, <2>1 DEF LaneOrder, NetFirst, Ahead, Candidate
  <2> QED
    BY <2>1, <2>2
<1>10. [b \in CloudAreas |-> srv[b].log]' =
         [[b \in CloudAreas |-> srv[b].log] EXCEPT ![a] = Append(@, o)]
  BY <1>2, <1>3, LedgerView
<1>11. /\ [p \in CloudOps |-> owner[p]]' = [p \in CloudOps |-> owner[p]]
       /\ { p \in CloudOps : Replayable(p) }' = { p \in CloudOps : Replayable(p) }
       /\ (CloudOps \cap (cancelled \cup discarded))' = CloudOps \cap (cancelled \cup discarded)
  BY DEF Replayable
<1>12. Ledger!Apply(o)
  BY <1>1, <1>3, <1>4, <1>6, <1>8, <1>9, <1>10, <1>11 DEF Ledger!Apply
<1> QED
  BY <1>3, <1>12 DEF Ledger!Next

\* Staging signs the new edit for the active account; nothing else signs one.
LEMMA StepSigned ==
  ASSUME Typed, Own, Arranged, Flight, Held, Signed, [Next]_vars
  PROVE  Signed'
<1>0. CloudOps \subseteq Ops /\ Ops \subseteq Int
  BY DEF CloudOps, Ops
<1>1. CASE Stage
  <2>1. PICK n : n = nextOp
    OBVIOUS
  <2>2. /\ n \in Ops /\ nextOp' = n + 1
        /\ \A o \in Ops : o # n => owner'[o] = owner[o]
    BY <1>1, <2>1, StageCandidates
  <2>3. n \in CloudOps => owner'[n] = ViewerOf[active] /\ active # NoGen
    BY <1>1, <2>1, <2>2 DEF Stage, DiskType, CloudOps
  <2>4. n \in CloudOps => owner'[n] \in Viewers
    BY <2>3 DEF ViewerType, Viewers
  <2>5. ASSUME NEW o \in CloudOps
        PROVE  IF o < n + 1 THEN owner'[o] \in Viewers ELSE owner'[o] = NoGen
    <3>1. CASE o = n
      BY <1>0, <2>2, <2>4, <3>1
    <3>2. CASE o # n
      <4>1. o \in Ops /\ o \in Int /\ n \in Int
        BY <1>0, <2>2
      <4>2. owner'[o] = owner[o]
        BY <2>2, <3>2, <4>1
      <4>3. o < n + 1 <=> o < n
        BY <3>2, <4>1
      <4> QED
        BY <2>1, <4>2, <4>3 DEF Signed
    <3> QED
      BY <3>1, <3>2
  <2> QED
    BY <2>2, <2>5 DEF Signed
<1>2. CASE ~Stage
  BY <1>2, CandidatesShrink DEF Signed
<1> QED
  BY <1>1, <1>2

LEMMA InitSigned == ASSUME Init PROVE Signed
<1>1. \A o \in CloudOps : o \in Ops /\ ~(o < 1)
  BY DEF CloudOps, Ops
<1> QED
  BY <1>1 DEF Init, Signed

LEMMA StageLedger ==
  ASSUME Typed, Own, Arranged, Signed, Stage, [EditsSpareDeleted]_vars
  PROVE  [Ledger!Next]_(Ledger!vars)
<1>1. PICK n : n = nextOp
  OBVIOUS
<1>2. /\ n \in Ops /\ nextOp' = n + 1 /\ nextOp' # nextOp
      /\ \A o \in Ops : o # n => owner'[o] = owner[o]
  BY <1>1, StageCandidates DEF Ops
<1>3. UNCHANGED << cancelled, discarded, srv, tombstones >>
  BY DEF Stage
<1>4. \A o \in Ops : o # n => (Replayable(o)' <=> Replayable(o))
  BY <1>1, <1>2, <1>3 DEF Stage, Replayable, DiskType
<1>5. CASE IsCloud(n)
  <2>1. owner'[n] = ViewerOf[active] /\ active # NoGen /\ wal'[n] = "json"
    BY <1>1, <1>2, <1>5 DEF Stage, DiskType
  <2>2. ViewerOf[active] \in Viewers
    BY <2>1 DEF ViewerType, Viewers
  <2>3. EditsSpareDeleted
    BY <1>2 DEF vars
  <2>4. Replayable(n)'
    BY <1>1, <1>2, <1>3, <1>5, <2>1, <2>3 DEF Replayable, EditsSpareDeleted
  <2>5. n \in CloudOps
    BY <1>2, <1>5 DEF CloudOps
  <2>6. \A o \in CloudOps : o # n => owner'[o] = owner[o] /\ (Replayable(o)' <=> Replayable(o))
    BY <1>2, <1>4 DEF CloudOps
  <2>7. Ledger!Next
    BY <1>1, <1>3, <2>1, <2>2, <2>4, <2>5, <2>6, LedgerAccepts
  <2> QED
    BY <2>7
<1>6. CASE ~IsCloud(n)
  <2>1. \A o \in CloudOps : o # n /\ o \in Ops
    BY <1>6 DEF CloudOps
  <2> QED
    BY <1>2, <1>3, <1>4, <2>1, LedgerStutters
<1> QED
  BY <1>5, <1>6

LEMMA ResolvedLedger ==
  ASSUME Typed, Arranged, QueueReplayable, SameDocuments,
         NEW a \in Areas, NEW o \in Ops, Resolved(a, o)
  PROVE  [Ledger!Next]_(Ledger!vars)
<1>1. /\ o \in Queued(areas[a]) /\ AreaOf[o] = a
      /\ \A p \in Ops : Replayable(p)' <=> Replayable(p) /\ p # o
  BY ResolvedQueues, QueuedOnce
<1>2. /\ owner' = owner
      /\ \/ Applied(o) /\ UNCHANGED << cancelled, discarded >>
         \/ cancelled' \cup discarded' = cancelled \cup discarded \cup {o}
  BY DEF Resolved
<1>3. \A b \in CloudAreas : srv'[b].log = srv[b].log
  BY DEF SameDocuments, Areas
<1>4. CASE o \in CloudOps
  <2>1. Replayable(o)
    BY <1>1, <1>4 DEF QueueReplayable, CloudOps, IsCloud
  <2>2. \A p \in CloudOps : Replayable(p)' <=> Replayable(p) /\ p # o
    BY <1>1 DEF CloudOps
  <2>3. CASE Applied(o) /\ UNCHANGED << cancelled, discarded >>
    BY <1>2, <1>3, <1>4, <2>1, <2>2, <2>3, LedgerSettles
  <2>4. CASE cancelled' \cup discarded' = cancelled \cup discarded \cup {o}
    <3>1. PICK S : S = {o}
      OBVIOUS
    <3>2. /\ S \in SUBSET CloudOps /\ \A p \in S : Replayable(p)
          /\ \A p \in CloudOps : Replayable(p)' <=> Replayable(p) /\ p \notin S
          /\ cancelled' \cup discarded' = cancelled \cup discarded \cup S
      BY <1>4, <2>1, <2>2, <2>4, <3>1
    <3> QED
      BY <1>2, <1>3, <3>2, LedgerWithdraws
  <2> QED
    BY <1>2, <2>3, <2>4
<1>5. CASE o \notin CloudOps
  <2>1. \A p \in CloudOps : owner'[p] = owner[p] /\ (Replayable(p)' <=> Replayable(p))
    BY <1>1, <1>2, <1>5 DEF CloudOps
  <2>2. CloudOps \cap (cancelled' \cup discarded') = CloudOps \cap (cancelled \cup discarded)
    BY <1>2, <1>5
  <2> QED
    BY <1>3, <2>1, <2>2, LedgerStutters
<1> QED
  BY <1>4, <1>5

LEMMA DeletedLedger ==
  ASSUME Typed, Arranged, Held, QueueReplayable, SameDocuments,
         NEW a \in CloudAreas, Deleted(a)
  PROVE  [Ledger!Next]_(Ledger!vars)
<1>1. PICK S : S = Queued(areas[a])
  OBVIOUS
<1>2. a \in Areas /\ \A o \in S : o \in Ops /\ AreaOf[o] = a /\ Replayable(o)
  BY <1>1, QueuedOps, QueuedOnce DEF QueueReplayable
<1>3. S \in SUBSET CloudOps
  BY <1>2 DEF CloudOps, IsCloud
<1>4. \A o \in Ops : Replayable(o) /\ ~Replayable(o)' => o \in S
  <2>1. \A o \in Ops : Replayable(o) /\ ~Replayable(o)' =>
          \/ o \in Queued(areas[a])
          \/ AreaOf[o] = a /\ \E p \in Queued(areas[a]) : owner[p] = owner[o]
    BY DeletedReplays
  <2> QED
    BY <1>1, <2>1 DEF Held, JournalQueued
<1>5. Shrinks /\ (\A o \in S : ~Replayable(o)') /\ discarded' = discarded \cup S
  BY <1>1, <1>2, DeletedReplays
<1>6. \A p \in CloudOps : Replayable(p)' <=> Replayable(p) /\ p \notin S
  BY <1>4, <1>5 DEF Shrinks, CloudOps
<1>7. owner' = owner /\ cancelled' \cup discarded' = cancelled \cup discarded \cup S
  BY <1>5 DEF Deleted
<1>8. \A b \in CloudAreas : srv'[b].log = srv[b].log
  BY DEF SameDocuments, Areas
<1> QED
  BY <1>2, <1>3, <1>6, <1>7, <1>8, LedgerWithdraws

LEMMA KeptLedger ==
  ASSUME SameDocuments, UNCHANGED << owner, cancelled, discarded >>,
         \A o \in Ops : Replayable(o)' <=> Replayable(o)
  PROVE  UNCHANGED Ledger!vars
  BY LedgerStutters DEF SameDocuments, Areas, CloudOps

LEMMA AppliesLedger ==
  ASSUME Typed, Signed, LaneOrder, Remembered, NEW m \in net, Applies1(m), ServiceHandles(m)
  PROVE  [Ledger!Next]_(Ledger!vars)
<1>1. UNCHANGED << wal, tombstones, owner, cancelled, discarded >>
  BY ServiceKeeps DEF Service
<1>2. CASE IsCloud(m.op)
  BY <1>1, <1>2, LedgerApplies
<1>3. CASE ~IsCloud(m.op)
  <2>1. \A b \in Areas : b # AreaOf[m.op] => srv'[b] = srv[b]
    BY ServedMap
  <2>2. \A b \in CloudAreas : srv'[b].log = srv[b].log
    BY <1>3, <2>1 DEF IsCloud, Areas
  <2>3. \A o \in CloudOps : owner'[o] = owner[o] /\ (Replayable(o)' <=> Replayable(o))
    BY <1>1, QuietSame DEF CloudOps
  <2> QED
    BY <1>1, <2>2, <2>3, LedgerStutters
<1> QED
  BY <1>2, <1>3

\* Every step of the queue is a step of the ledger, or leaves it as it is.
LEMMA StepLedger ==
  ASSUME Typed, Own, Arranged, Flight, Held, LaneOrder, Signed, QueueReplayable, Remembered,
         [Next]_vars, [EditsSpareDeleted]_vars
  PROVE  [Ledger!Next]_(Ledger!vars)
<1>1. CASE Stage
  BY <1>1, StageLedger
<1>2. ASSUME NEW m \in net, Applies1(m), ServiceHandles(m)
      PROVE  [Ledger!Next]_(Ledger!vars)
  BY <1>2, AppliesLedger
<1>3. CASE SameDocuments /\ (Quiet \/ ActivateLoad \/ ActivateInstall \/ Crash)
  <2>1. UNCHANGED << owner, cancelled, discarded >>
    BY <1>3 DEF Quiet, ActivateLoad, ActivateInstall, Crash
  <2>2. CASE Quiet
    BY <1>3, <2>1, <2>2, QuietSame, KeptLedger DEF Quiet
  <2>3. CASE ActivateLoad
    BY <1>3, <2>1, <2>3, LoadReplays, KeptLedger
  <2>4. CASE ActivateInstall \/ Crash
    <3>1. UNCHANGED << wal, tombstones, owner >>
      BY <2>4 DEF ActivateInstall, Crash
    <3> QED
      BY <1>3, <2>1, <3>1, QuietSame, KeptLedger
  <2> QED
    BY <1>3, <2>2, <2>3, <2>4
<1>4. ASSUME SameDocuments, NEW a \in Areas, NEW o \in Ops, Resolved(a, o)
      PROVE  [Ledger!Next]_(Ledger!vars)
  BY <1>4, ResolvedLedger
<1>5. ASSUME SameDocuments, NEW a \in CloudAreas, Deleted(a)
      PROVE  [Ledger!Next]_(Ledger!vars)
  BY <1>5, DeletedLedger
<1> QED
  BY <1>1, <1>2, <1>3, <1>4, <1>5, StepServed, JournalShape

LEMMA InitLedger == ASSUME Init PROVE Ledger!Init
<1>1. CloudOps \subseteq Ops /\ CloudAreas \subseteq Areas
  BY DEF CloudOps, Areas
<1>2. [o \in CloudOps |-> owner[o]] = [o \in CloudOps |-> NoGen]
  BY <1>1 DEF Init
<1>3. { o \in CloudOps : Replayable(o) } = {}
  BY <1>1 DEF Init, Replayable
<1>4. CloudOps \cap (cancelled \cup discarded) = {}
  BY DEF Init
<1>5. [a \in CloudAreas |-> srv[a].log] = [a \in CloudAreas |-> << >>]
  BY <1>1 DEF Init
<1> QED
  BY <1>2, <1>3, <1>4, <1>5 DEF Ledger!Init

\* The queue implements the ledger: whatever the worker, the engine, the service,
\* a deletion, a crash and a sign-in do, an edit is accepted once for one account,
\* answered for until it is applied or let go, and applied once and never ahead of
\* an edit of its lane that is still answered for.  It needs the two conditions of
\* the journal, and a service that remembers the edits that may reach it again.
THEOREM QueueImplementsLedger ==
  Spec /\ [][EditsSpareDeleted]_vars /\ [][ReadHolds]_vars /\ []Remembered => LedgerSpec
<1>1. Init => Signed /\ Ledger!Init
  BY InitSigned, InitLedger
<1>2. Typed /\ Own /\ Arranged /\ Flight /\ Held /\ Signed /\ [Next]_vars => Signed'
  BY StepSigned
<1>3. Typed /\ Own /\ Arranged /\ Flight /\ Held /\ LaneOrder /\ Signed /\ QueueReplayable
        /\ Remembered /\ [Next]_vars /\ [EditsSpareDeleted]_vars =>
        [Ledger!Next]_(Ledger!vars)
  BY StepLedger
<1> HIDE DEF Typed
<1>4. Spec => []Signed
  BY <1>1, <1>2, OrderInvariant, PTL DEF Spec
<1> QED
  BY <1>1, <1>3, <1>4, OrderInvariant, ReplayInvariant, PTL DEF Spec, LedgerSpec, Ledger!Spec

\* The promises of the ledger, with the queue's variables for the ledger's.
Promises == INSTANCE EditLedger_proofs WITH
  Edits <- CloudOps,
  Maps <- CloudAreas,
  MapOf <- [o \in CloudOps |-> AreaOf[o]],
  Accounts <- Viewers,
  NoAccount <- NoGen,
  account <- [o \in CloudOps |-> owner[o]],
  open <- { o \in CloudOps : Replayable(o) },
  withdrawn <- CloudOps \cap (cancelled \cup discarded),
  ledger <- [a \in CloudAreas |-> srv[a].log]

\* So the queue keeps the ledger's promises.  Of an account's edits in a map, the
\* ones the service holds have no gap before them: every earlier one was applied
\* too, or let go by the user.
THEOREM QueueLeavesNoGaps ==
  Spec /\ [][EditsSpareDeleted]_vars /\ [][ReadHolds]_vars /\ []Remembered =>
    [](Ledger!Conserved /\ Ledger!NoGaps /\ Ledger!InOrder)
<1>1. Promises!LedgerAssumption
  BY PendingAssumption, LedgerView DEF Promises!LedgerAssumption, CloudOps, Ops, IsCloud
<1>2. Promises!Spec => [](Promises!TypeOK /\ Promises!Conserved /\ Promises!NoGaps /\ Promises!InOrder)
  BY <1>1, Promises!LedgerKeepsItsPromises
<1>3. Ledger!Init => Promises!Init
  BY DEF Ledger!Init, Promises!Init
<1>4. /\ Ledger!Accepted = Promises!Accepted
      /\ \A o \in CloudOps : Ledger!Applied(o) <=> Promises!Applied(o)
      /\ \A o \in CloudOps : Ledger!Lane(o) = Promises!Lane(o)
      /\ Ledger!vars = Promises!vars /\ Ledger!vars' = Promises!vars'
      /\ Ledger!Accepted \subseteq CloudOps
  BY DEF Ledger!Accepted, Promises!Accepted, Ledger!Applied, Promises!Applied, Ledger!Lane,
     Promises!Lane, Ledger!vars, Promises!vars
<1>5. [Ledger!Next]_(Ledger!vars) => [Promises!Next]_(Promises!vars)
  <2>1. \A o \in CloudOps : \A u \in Viewers : Ledger!Accept(o, u) => Promises!Accept(o, u)
    BY <1>4 DEF Ledger!Accept, Promises!Accept
  <2>2. ASSUME NEW o \in CloudOps, Ledger!Apply(o) PROVE Promises!Apply(o)
    <3>1. { p \in CloudOps : Replayable(p) } \subseteq CloudOps
      OBVIOUS
    <3> QED
      BY <1>4, <2>2, <3>1 DEF Ledger!Apply, Promises!Apply
  <2>3. \A o \in CloudOps : Ledger!Settle(o) => Promises!Settle(o)
    BY <1>4 DEF Ledger!Settle, Promises!Settle
  <2>4. \A S \in SUBSET CloudOps : Ledger!Withdraw(S) => Promises!Withdraw(S)
    BY DEF Ledger!Withdraw, Promises!Withdraw
  <2> QED
    BY <1>4, <2>1, <2>2, <2>3, <2>4 DEF Ledger!Next, Promises!Next
<1>6. Promises!Conserved /\ Promises!NoGaps /\ Promises!InOrder =>
        Ledger!Conserved /\ Ledger!NoGaps /\ Ledger!InOrder
  BY DEF Ledger!Conserved, Promises!Conserved, Ledger!NoGaps, Promises!NoGaps, Ledger!InOrder,
     Promises!InOrder, Ledger!Accepted, Promises!Accepted, Ledger!Applied, Promises!Applied,
     Ledger!Lane, Promises!Lane
<1> QED
  BY <1>2, <1>3, <1>5, <1>6, QueueImplementsLedger, PTL
     DEF LedgerSpec, Ledger!Spec, Promises!Spec
===============================================================================
